------------------------------ MODULE Parsers ------------------------------
(***************************************************************************)
(* The CSV parsers of the ingestion (activity/application/parsers): which  *)
(* one takes a file, from the names of its columns, and what it makes of a *)
(* row.                                                                    *)
(*                                                                         *)
(* A row is a function from column names, in lower case, to strings; ""    *)
(* stands for a cell that is empty or missing.  An event keeps what the    *)
(* rest of the platform asks it: its type, its account and, for a record   *)
(* of the staff list, the employee it is about.                            *)
(***************************************************************************)
EXTENDS Naturals, SequencesExt

CONSTANTS Malformed,      \* a row that became an error
          Dates,          \* cells that parse_timestamp can read
          Uploads,        \* URLs with one of the patterns of an upload
          SaysUpload,     \* activities that have the word in them
          SaysDownload,   \* activities and URLs that have the word in them
          Outside,        \* recipients with an address outside dtaa.com
          Overlong        \* the column that stands for cells beyond the header

\* Mutant: the most general parser is asked before the device parser.
GeneralFirst == <<"file", "email", "http", "ldap", "logon", "device", "psychometric">>

\* _REGISTERED_PARSERS: the first that can parse the columns takes the file.
Registered == <<"file", "email", "http", "ldap", "device", "logon", "psychometric">>

Users == <<"user", "userid", "user_id", "employee">>
Times == <<"date", "timestamp", "datetime">>
Acts == <<"activity", "action", "event", "type">>

\* COLUMN_ALIASES, for the columns that decide an event's type or account.
FileAliases == [user |-> Users, date |-> Times, activity |-> Acts,
    filename |-> <<"filename", "file", "path", "filepath", "file_path", "file_name">>]
EmailAliases == [user |-> <<"user", "userid", "user_id", "from", "sender">>, date |-> Times,
    to |-> <<"to", "recipient", "recipients", "to_address">>]
HttpAliases == [user |-> Users, date |-> Times, activity |-> <<"activity", "action", "method", "type">>,
    url |-> <<"url", "uri", "website", "destination", "web_address">>]
LdapAliases == [user |-> Append(Users, "subject"), date |-> Times, activity |-> Acts,
    object_accessed |-> <<"object_accessed", "object", "target", "resource", "attribute">>]
DeviceAliases == [user |-> Users, date |-> Times, activity |-> Acts,
    file_tree |-> <<"file_tree", "file", "path", "filename", "filetree">>]
LogonAliases == [user |-> Users, date |-> Append(Times, "time"),
    activity |-> <<"activity", "action", "event_type", "type">>]
StaffAliases == [employee_id |-> <<"employee_id", "emp_id", "id", "user_id">>,
    user_id |-> <<"user_id", "user", "userid", "employee_id">>,
    department |-> <<"department", "dept", "team", "division">>,
    start_date |-> <<"start_date", "hire_date", "employment_start">>]

Aliases == [file |-> FileAliases, email |-> EmailAliases, http |-> HttpAliases, ldap |-> LdapAliases,
            device |-> DeviceAliases, logon |-> LogonAliases, psychometric |-> StaffAliases]

\* REQUIRED_COLUMNS, which a file must have, and what a row must fill.
RequiredColumns ==
    [file |-> {"user", "date", "filename"}, email |-> {"user", "date", "to"},
     http |-> {"user", "date", "url"}, ldap |-> {"user", "date", "object_accessed"},
     device |-> {"user", "date", "file_tree"}, logon |-> {"user", "date", "activity"},
     psychometric |-> {"employee_id"}]

RequiredCells ==
    [file |-> {"user", "date", "filename"}, email |-> {"user", "date"}, http |-> {"user", "date", "url"},
     ldap |-> {"user", "date"}, device |-> {"user", "date", "activity"},
     logon |-> {"user", "date", "activity"}, psychometric |-> {"employee_id"}]

CanParse(p, columns) ==
    \A c \in RequiredColumns[p] : c \in columns \/ Range(Aliases[p][c]) \cap columns # {}

\* UnsupportedLogTypeError when no parser takes the file.
Detected(columns) ==
    LET able == SelectSeq(Registered, LAMBDA p : CanParse(p, columns))
    IN IF able = <<>> THEN "unknown" ELSE Head(able)

\* The column itself if there is one of its name, even an empty one; then the
\* first alias there is.
Cell(p, row, c) ==
    LET there == SelectSeq(<<c>> \o Aliases[p][c], LAMBDA name : name \in DOMAIN row)
    IN IF there = <<>> THEN "" ELSE row[Head(there)]

OrElse(v, default) == IF v = "" THEN default ELSE v

\* _ACTIVITY_MAP of each parser.
LogonTypes == "logon" :> "LOGON" @@ "logoff" :> "LOGOFF" @@ "failed logon" :> "LOGON_FAILED"
              @@ "login" :> "LOGON" @@ "logout" :> "LOGOFF"
DeviceTypes == [connect |-> "USB_INSERT", disconnect |-> "USB_REMOVE", read |-> "FILE_READ",
                write |-> "USB_FILE_COPY", copy |-> "USB_FILE_COPY", open |-> "FILE_READ"]
FileTypes == [open |-> "FILE_READ", read |-> "FILE_READ", write |-> "FILE_WRITE", delete |-> "FILE_DELETE",
              copy |-> "FILE_COPY", move |-> "FILE_MOVE", rename |-> "FILE_MOVE", print |-> "FILE_PRINT",
              upload |-> "FILE_UPLOAD", download |-> "FILE_DOWNLOAD"]
LdapTypes == [search |-> "LDAP_QUERY", query |-> "LDAP_QUERY", ldap_query |-> "LDAP_QUERY",
              group_change |-> "GROUP_CHANGE", privilege |-> "PRIVILEGE_CHANGE",
              password |-> "PASSWORD_CHANGE", create |-> "ACCOUNT_CREATED", disable |-> "ACCOUNT_DISABLED"]

Mapped(types, activity, default) == IF activity \in DOMAIN types THEN types[activity] ELSE default

\* The type parse_row gives an event.
LogonType(row) == Mapped(LogonTypes, Cell("logon", row, "activity"), "SYSTEM_EVENT")
DeviceType(row) == Mapped(DeviceTypes, Cell("device", row, "activity"), "USB_INSERT")
FileType(row) == Mapped(FileTypes, OrElse(Cell("file", row, "activity"), "copy"), "FILE_READ")
EmailType(row) == IF Cell("email", row, "to") \in Outside THEN "EMAIL_EXTERNAL" ELSE "EMAIL_SENT"
LdapType(row) == Mapped(LdapTypes, OrElse(Cell("ldap", row, "activity"), "ldap_query"), "LDAP_QUERY")

HttpType(row) ==
    LET activity == Cell("http", row, "activity")
        url == Cell("http", row, "url")
    IN IF url \in Uploads \/ activity \in SaysUpload THEN "HTTP_UPLOAD"
       ELSE IF {activity, url} \cap SaysDownload # {} THEN "HTTP_DOWNLOAD" ELSE "HTTP_REQUEST"

EventType(p, row) ==
    CASE p = "file" -> FileType(row)
      [] p = "email" -> EmailType(row)
      [] p = "http" -> HttpType(row)
      [] p = "ldap" -> LdapType(row)
      [] p = "device" -> DeviceType(row)
      [] p = "logon" -> LogonType(row)
      [] p = "psychometric" -> "SYSTEM_EVENT"

Staff(p, row, c) == IF p = "psychometric" THEN Cell(p, row, c) ELSE ""

Account(p, row) ==
    IF p = "psychometric" THEN OrElse(Cell(p, row, "user_id"), Cell(p, row, "employee_id"))
    ELSE Cell(p, row, "user")

\* A row with cells beyond the header has a key that is no name: looking for a
\* column, or the event's raw_payload, fails on it.  The staff list takes the
\* present time for a date it cannot read.
Readable(p, row) ==
    /\ Overlong \notin DOMAIN row
    /\ \A c \in RequiredCells[p] : Cell(p, row, c) # ""
    /\ p # "psychometric" => Cell(p, row, "date") \in Dates

ParseRow(p, row) ==
    IF ~Readable(p, row) THEN Malformed
    ELSE [type |-> EventType(p, row), user |-> Account(p, row),
          employee |-> Staff(p, row, "employee_id"), department |-> Staff(p, row, "department")]
=============================================================================
