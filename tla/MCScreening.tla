---------------------------- MODULE MCScreening ----------------------------
EXTENDS Screening, TLC

Elsewhere == [domain |-> "none", keyword |-> "none"]

Event(type, hour, pc) ==
    [type |-> type, hour |-> hour, pc |-> pc, dest |-> Elsewhere, executable |-> FALSE,
     attached |-> 0, grants |-> "none"]

Once(e) == e :> 1
Visit(category) == [Event("http_request", 9, "own") EXCEPT !.dest.domain = category]

\* A night at the keyboard has what a careless intruder leaves behind.
MCDeeds ==
    [office |-> Event("logon", 9, "own") :> 12,
     night |-> Once(Event("logon", 2, "own"))
               (+) Once(Visit("leak_site")) (+) Once(Visit("hacking_tools"))
               (+) (Event("logon_failed", 9, "own") :> 5)
               (+) (Event("http_download", 9, "own") :> 10),
     stick |-> (Event("usb_insert", 9, "own") :> 2)
               (+) ([Event("file_copy", 9, "own") EXCEPT !.executable = TRUE] :> 5),
     visit |-> Once(Event("logon", 9, "other"))]

MCHours == {2, 9}
MCDayChoices == {{}, {"office", "stick"}, {"office", "visit"}}

\* Who has never sat at a colleague's machine is told of; a person without a
\* baseline of his own is not.
MCVerdict(done, learned) ==
    IF "visit" \in done /\ DOMAIN learned # {} /\ \A d \in DOMAIN learned : "visit" \notin learned[d]
    THEN 80 ELSE 0

Directory(privileged) == [owners |-> "other" :> "colleague", privileged |-> privileged]
MCOrgs == {Directory(FALSE), Directory(TRUE)}
MCPlain == Directory(FALSE)
=============================================================================
