---------------------------- MODULE Normaliser ----------------------------
(***************************************************************************)
(* From a collector's raw event to the event that is queued                *)
(* (agent/itbis_agent/normalizer.py).  Each operator is one mapping method *)
(* and returns the set of events it makes: one, or none when the raw event *)
(* is dropped.                                                             *)
(*                                                                         *)
(* An account name is a record: whose account it is, how it was written    *)
(* (with its domain, without, or as a principal name) and in which case.   *)
(* A security identifier is only told apart by what it says of its owner.  *)
(***************************************************************************)
EXTENDS Naturals

CONSTANTS
    ServiceAccounts,   \* accounts known as no person's by name or domain
    KeepSystem,        \* agent.include_system_activity
    NoName             \* a name left blank

Unknown == [account |-> "unknown", form |-> "bare", case |-> "lower"]
ServiceSids == {"service", "null"}

IsServiceAccount(name, sid) ==
    \/ sid \in ServiceSids
    \/ name = NoName
    \/ name.account \in ServiceAccounts

NonHumanLogons == {"system", "batch", "service"}

IsNoise(name, sid, logon) ==
    ~KeepSystem /\ (logon \in NonHumanLogons \/ IsServiceAccount(name, sid))

\* Mutant: the account as its source spells it.
AsWritten(name) == IF name = NoName THEN Unknown ELSE name

\* One spelling for an account: case is dropped, unless Windows owns the name.
FormatUser(name) ==
    IF name = NoName THEN Unknown
    ELSE IF name.form # "principal" /\ IsServiceAccount(name, "any") THEN name
    ELSE [name EXCEPT !.case = "lower"]

Event(key, type, user, indicators) ==
    {[key |-> key, type |-> type, user |-> user, indicators |-> indicators]}

SecurityEvent(raw, type, user, indicators) ==
    Event(<<"log", raw.id, raw.number>>, type, user, indicators)

Logon(raw) ==
    IF raw.name = NoName \/ IsNoise(raw.name, raw.sid, raw.logon) THEN {}
    ELSE SecurityEvent(raw, "logon", FormatUser(raw.name), {})

\* The SID of a failed attempt is the null one and says nothing.
LogonFailed(raw) ==
    IF raw.name = NoName \/ (~KeepSystem /\ IsServiceAccount(raw.name, "any")) THEN {}
    ELSE SecurityEvent(raw, "logon_failed", FormatUser(raw.name), {})

Logoff(raw) ==
    LET logon == IF raw.id = 4634 THEN raw.logon ELSE "none" IN
    IF raw.name = NoName \/ IsNoise(raw.name, raw.sid, logon) THEN {}
    ELSE SecurityEvent(raw, "logoff", FormatUser(raw.name), {})

AccountChangeTypes ==
    [id \in {4720, 4722, 4723, 4724, 4725, 4726} |->
        CASE id = 4720 -> "account_created" [] id = 4722 -> "privilege_change"
          [] id \in {4723, 4724} -> "password_change" [] OTHER -> "account_disabled"]

AccountChange(raw) ==
    LET target == FormatUser(raw.target)
        actor == IF raw.actor = NoName THEN target ELSE FormatUser(raw.actor)
    IN  SecurityEvent(raw, AccountChangeTypes[raw.id], actor,
            {i \in {"account_created"} : raw.id = 4720}
            \cup {i \in {"password_reset_of_other_account"} : raw.id = 4724 /\ actor # target})

MemberAdded == {4728, 4732, 4756}
MemberRemoved == {4729, 4733, 4757}

GroupMembership(raw) ==
    SecurityEvent(raw, IF raw.privileged THEN "privilege_change" ELSE "group_change",
        FormatUser(raw.actor),
        {i \in {"privileged_group_member_added"} : raw.privileged /\ raw.id \in MemberAdded}
        \cup {i \in {"privileged_group_member_removed"} :
                raw.privileged /\ raw.id \in MemberRemoved})

UserRight(raw) ==
    SecurityEvent(raw, "privilege_change", FormatUser(raw.actor),
        {i \in {"sensitive_user_right_assigned"} : raw.id = 4704 /\ raw.privileged})

\* Only a remote desktop counts; a console session is a change of user.
Session(raw) ==
    IF ~raw.remote \/ raw.name = NoName \/ IsNoise(raw.name, "any", "none") THEN {}
    ELSE SecurityEvent(raw, IF raw.id = 4778 THEN "remote_session_connect"
                            ELSE "remote_session_disconnect", FormatUser(raw.name), {})

FromWindowsSecurity(raw) ==
    CASE raw.id = 4624 -> Logon(raw)
      [] raw.id = 4625 -> LogonFailed(raw)
      [] raw.id \in {4634, 4647} -> Logoff(raw)
      [] raw.id \in DOMAIN AccountChangeTypes -> AccountChange(raw)
      [] raw.id \in MemberAdded \cup MemberRemoved -> GroupMembership(raw)
      [] raw.id \in {4704, 4705} -> UserRight(raw)
      [] raw.id \in {4778, 4779} -> Session(raw)
      [] OTHER -> {}

\* A name the collector found, and a service's: the event is dropped.
IsServices(raw) == raw.owner # NoName /\ ~KeepSystem /\ IsServiceAccount(raw.owner, raw.sid)

\* The person signed in to the session a process started in, when its owner is
\* not to be had; session 0 runs services.
SessionOwner(raw) ==
    IF raw.session = 0 THEN [account |-> "SYSTEM", form |-> "domain", case |-> "upper"]
    ELSE raw.signedIn

FromProcess(raw) ==
    IF IsServices(raw) \/ (raw.owner = NoName /\ raw.session = 0 /\ ~KeepSystem) THEN {}
    ELSE Event(<<"process", raw.pid, raw.created>>, "app_launch",
               FormatUser(IF raw.owner = NoName THEN SessionOwner(raw) ELSE raw.owner), {})

RemovableTypes ==
    [kind \in {"created", "modified", "deleted", "renamed", "data_transfer"} |->
        CASE kind = "created" -> "file_copy" [] kind = "modified" -> "file_write"
          [] kind = "deleted" -> "file_delete" [] kind = "renamed" -> "file_move"
          [] OTHER -> "data_transfer"]

FromRemovableFiles(raw) ==
    Event(<<"removable", raw.kind, raw.path, raw.state, raw.occurred>>, RemovableTypes[raw.kind],
          FormatUser(raw.console),
          {i \in {"to_removable_media"} : raw.kind \in {"created", "modified", "data_transfer"}})

FromDownloads(raw) ==
    Event(<<"download", raw.path, raw.state, raw.occurred>>, "file_download",
          FormatUser(raw.console), {})

FromNetwork(raw) ==
    IF IsServices(raw) THEN {}
    ELSE Event(<<"tcp", raw.pid, raw.remote, raw.port, raw.local, raw.occurred>>, "network_connection",
               FormatUser(raw.owner), {})

FromUsb(raw) ==
    Event(<<"usb", raw.kind, raw.device, raw.occurred>>,
          IF raw.kind = "insert" THEN "usb_insert" ELSE "usb_remove", FormatUser(raw.console), {})

Normalise(raw) ==
    CASE raw.source = "windows_security" -> FromWindowsSecurity(raw)
      [] raw.source = "process" -> FromProcess(raw)
      [] raw.source = "usb" -> FromUsb(raw)
      [] raw.source = "removable_files" -> FromRemovableFiles(raw)
      [] raw.source = "downloads" -> FromDownloads(raw)
      [] raw.source = "network" -> FromNetwork(raw)
=============================================================================
