----------------------------- MODULE MCSensors -----------------------------
EXTENDS Sensors

Named(account) == [account |-> account, form |-> "domain", case |-> "upper"]
Anns == Named("ann")
Principal == [account |-> "ann", form |-> "principal", case |-> "lower"]
System == Named("SYSTEM")

MCDir == (1 :> "root") @@ (2 :> "root") @@ (3 :> "papers") @@ (4 :> "papers")
MCFirstVolume == "stick"
MCFirstFiles == [stick |-> 1 :> 100, other |-> (1 :> 101) @@ (3 :> 102)]

Row(pid, port, remote) == [pid |-> pid, port |-> port, remote |-> remote, service |-> 443, open |-> TRUE]
MCRows ==
    {Row(7, 1, "host"), Row(7, 2, "host"), Row(8, 3, "host"), Row(4, 4, "host"), Row(7, 5, "self"),
     [Row(7, 1, "any") EXCEPT !.open = FALSE]}
Account(name, sid) == [name |-> name, sid |-> sid]
\* A service under a name that only its identifier gives away.
Daemon == Account(Named("svc"), "service")
Ann == Account(Anns, "own")
MCOwners ==
    (7 :> [owner |-> Ann, parent |-> Account(System, "service"), person |-> TRUE])
    @@ (8 :> [owner |-> Daemon, parent |-> Ann, person |-> FALSE])
    @@ (4 :> [owner |-> Account(System, "service"), parent |-> Account(NoName, "any"), person |-> FALSE])

Record(id, person) ==
    [id |-> id, name |-> IF person THEN Anns ELSE System, sid |-> IF person THEN "own" ELSE "service",
     logon |-> "interactive", actor |-> NoName, target |-> NoName, privileged |-> FALSE,
     remote |-> TRUE, by |-> IF person THEN "ann" ELSE "SYSTEM", person |-> person, administers |-> FALSE]

Edit(id, privileged) ==
    [Record(id, TRUE) EXCEPT !.actor = Anns, !.target = Named("bob"), !.privileged = privileged,
                             !.administers = TRUE]

MCRecords ==
    {Record(4624, TRUE), Record(4634, FALSE), Record(4647, TRUE), Record(4778, TRUE),
     [Record(4624, TRUE) EXCEPT !.logon = "batch", !.person = FALSE],
     [Record(4625, TRUE) EXCEPT !.sid = "null"],
     [Record(4625, TRUE) EXCEPT !.sid = "null", !.name = Principal],
     [Record(4779, TRUE) EXCEPT !.remote = FALSE, !.person = FALSE],
     Record(5156, FALSE),
     Edit(4724, FALSE), Edit(4728, TRUE), Edit(4704, TRUE)}

Process(owner, parent, session, person) ==
    [source |-> "process", pid |-> 7, owner |-> owner, parent |-> parent, session |-> session,
     signedIn |-> IF session = 0 THEN NoName ELSE Anns, person |-> person]
Disk(kind, removable) ==
    [source |-> "usb", kind |-> kind, device |-> "E", removable |-> removable]
MCLaunches ==
    {Process(Ann, Ann, 1, TRUE), Process(Daemon, Ann, 1, FALSE), Process(Daemon, Daemon, 0, FALSE),
     Process(Ann, Daemon, 0, TRUE), Process(Account(Named("bob"), "own"), Ann, 1, TRUE),
     Disk("insert", TRUE), Disk("remove", TRUE), Disk("insert", FALSE)}
=============================================================================
