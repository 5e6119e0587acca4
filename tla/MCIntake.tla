------------------------------ MODULE MCIntake ------------------------------
EXTENDS Intake

CONSTANTS p1, p2, w1, w2, u1, u2, ann, bob, emp1, emp2, laptop, stranger

MCProcessOf == (w1 :> p1) @@ (w2 :> p2) @@ (u1 :> p1) @@ (u2 :> p1)
MCKeyOf == [Ann |-> ann, ann |-> ann, bob |-> bob, SYSTEM |-> stranger, E1 |-> stranger]

Day == "01/02/2010 08:00:00"
MCEntities == {emp1, emp2, ann, bob, laptop}
MCStaff0 ==
    [e \in MCEntities |->
        CASE e = emp1 -> [department |-> "sales"]
          [] e = ann -> [owner |-> emp1, id |-> 0]
          [] OTHER -> NoRow]
MCImports ==
    {<<[employee |-> emp2, department |-> "legal", links |-> <<ann, bob, laptop>>]>>}

File(names, cells, sound, types, bare) ==
    [columns |-> Range(names), lines |-> Len(cells), sound |-> sound, types |-> types, bare |-> bare,
     rows |-> [n \in DOMAIN cells |->
                 [c \in Range(names) \cup (IF Len(cells[n]) > Len(names) THEN {Overlong} ELSE {}) |->
                    IF c = Overlong THEN "more"
                    ELSE cells[n][CHOOSE k \in DOMAIN names : names[k] = c]]]]

LogonFile ==
    File(<<"date", "user", "pc", "activity">>,
         <<<<Day, "ann", "PC", "logon">>, <<"soon", "bob", "PC", "logon">>, <<Day, "bob", "PC", "failed logon">>,
           <<Day, "Ann", "PC", "logoff">>>>,
         {1, 3, 4}, Range(LogonTypes), FALSE)
\* Column names of the dataset's other releases, a row without an account and
\* one with a cell too many.
AliasFile ==
    File(<<"timestamp", "userid", "action">>,
         <<<<Day, "", "logoff">>, <<Day, "Ann", "logoff", "more">>>>, {}, Range(LogonTypes), FALSE)
DeviceFile ==
    File(<<"date", "user", "file_tree", "activity">>,
         <<<<Day, "ann", "", "connect">>, <<Day, "bob", "R:", "disconnect">>>>,
         {1, 2}, {"USB_INSERT", "USB_REMOVE"}, FALSE)
BareDeviceFile ==
    File(<<"date", "user", "pc", "activity">>, <<<<Day, "ann", "PC", "connect">>>>, {1}, {"USB_INSERT"}, TRUE)
CopyFile ==
    File(<<"date", "user", "filename">>, <<<<Day, "ann", "plan.doc">>>>, {1}, {"FILE_COPY"}, FALSE)
MailFile ==
    File(<<"date", "from", "user", "to", "activity">>,
         <<<<Day, "x", "ann", "a@b.c", "send">>, <<Day, "x", "", "a@dtaa.com", "send">>>>,
         {1}, {"EMAIL_EXTERNAL"}, FALSE)
\* An upload, whatever else the address says; and two ways to say download.
WebFile ==
    File(<<"date", "user", "url", "activity">>,
         <<<<Day, "bob", "dropbox/download", "GET">>, <<Day, "bob", "intranet", "form upload">>>>,
         {1, 2}, {"HTTP_UPLOAD"}, FALSE)
FetchFile ==
    File(<<"date", "user", "website", "action">>,
         <<<<Day, "ann", "files/download", "visit">>, <<Day, "ann", "intranet", "WWW Download">>>>,
         {1, 2}, {"HTTP_DOWNLOAD"}, FALSE)
LdapFile ==
    File(<<"date", "user", "object_accessed", "activity">>,
         <<<<Day, "ann", "cn", "group_change">>>>, {1}, {"GROUP_CHANGE"}, FALSE)
StaffFile ==
    File(<<"employee_id", "name", "department">>, <<<<"E1", "Ann", "sales">>, <<"", "Bob", "sales">>>>,
         {1}, {"SYSTEM_EVENT"}, FALSE)
Unknown == File(<<"foo">>, <<<<"bar">>>>, {}, {}, FALSE)

\* Two uploads at a time: an account that both chunks ask for.
PairFile ==
    File(<<"date", "user", "pc", "activity">>,
         <<<<Day, "ann", "PC", "logon">>, <<Day, "ann", "PC", "logoff">>, <<Day, "bob", "PC", "logon">>,
           <<Day, "ann", "PC", "logon">>>>,
         1..4, Range(LogonTypes), FALSE)

MCSymmetry == Permutations({u1, u2})
MCFiles == {PairFile, LogonFile, AliasFile, DeviceFile, BareDeviceFile, CopyFile, MailFile, WebFile, FetchFile,
            LdapFile, StaffFile, Unknown}
MCMaxUploads == [f \in MCFiles |-> IF f = LogonFile THEN 1 ELSE 2]
MCMaxChanges == [f \in MCFiles |-> IF f = LogonFile THEN 2 ELSE IF f = PairFile THEN 1 ELSE 0]
=============================================================================
