------------------------------ MODULE Activity ------------------------------
(***************************************************************************)
(* One person's day and the profile learned from the days before it        *)
(* (detection/application/activity.py).                                    *)
(*                                                                         *)
(* A day is a bag of events.  An event has a type, the hour, the machine,  *)
(* the category of the web destination, whether the file is executable,    *)
(* the number of attached files, and the change of privileges it reports.  *)
(* Averages and shares are whole multiples of 1/Unit, rounded down.        *)
(***************************************************************************)
EXTENDS Integers, FiniteSets, FiniteSetsExt

CONSTANTS Alpha,        \* one over the weight of the last active day
          Hours         \* hours of the day at which something happens

Unit == 1000

Part(x, y) == IF y = 0 THEN 0 ELSE (x * Unit) \div y

UploadTypes == {"http_upload", "file_upload"}
DownloadTypes == {"http_download", "file_download"}
CopyTypes == {"file_copy", "usb_file_copy", "data_transfer"}
\* Events whose destination, or whose download's origin, is classified.
WebTypes == {"http_request", "http_upload"} \cup DownloadTypes

\* classify_url: a listed domain decides before a keyword does.
Category(dest) == IF dest.domain # "none" THEN dest.domain ELSE dest.keyword

\* Severity of a change of privileges.
PrivilegeIndicators ==
    [privileged_group_member_added |-> 70, sensitive_user_right_assigned |-> 70,
     password_reset_of_other_account |-> 65, account_created |-> 50]

Active(day) == DOMAIN day # {}

Of(day, Is(_)) == {e \in DOMAIN day : Is(e)}
Many(day, Is(_)) == MapThenSumSet(LAMBDA e : day[e], Of(day, Is))

(* DailyActivity.from_events *)
IsLogon(e) == e.type = "logon"
IsFailure(e) == e.type = "logon_failed"
IsInsert(e) == e.type = "usb_insert"
IsCopy(e) == e.type \in CopyTypes
IsExecutableCopy(e) == IsCopy(e) /\ e.executable
IsLeakingMail(e) == e.type = "email_external" /\ e.attached > 0
IsUpload(e) == e.type \in UploadTypes
IsDownload(e) == e.type \in DownloadTypes
Visits(e, category) == e.type \in WebTypes /\ Category(e.dest) = category
IsGrant(e) == e.grants \in DOMAIN PrivilegeIndicators

Machines(day) == {e.pc : e \in Of(day, IsLogon)}

Measures == {"failed_logons", "usb_inserts", "removable_copies", "executable_copies",
             "external_attachment_emails", "uploads", "downloads", "cloud_storage",
             "leak_site", "job_search", "hacking_tools", "foreign_logons", "foreign_usb"}

\* The owner of a machine if it is somebody else's: owners maps dedicated
\* machines to people, "me" is the person judged.
Foreign(owners, pc) == pc \in DOMAIN owners /\ owners[pc] # "me"

Measure(day, owners) ==
    [failed_logons |-> Many(day, IsFailure),
     usb_inserts |-> Many(day, IsInsert),
     removable_copies |-> Many(day, IsCopy),
     executable_copies |-> Many(day, IsExecutableCopy),
     external_attachment_emails |-> Many(day, IsLeakingMail),
     uploads |-> Many(day, IsUpload),
     downloads |-> Many(day, IsDownload),
     cloud_storage |-> Many(day, LAMBDA e : Visits(e, "cloud_storage")),
     leak_site |-> Many(day, LAMBDA e : Visits(e, "leak_site")),
     job_search |-> Many(day, LAMBDA e : Visits(e, "job_search")),
     hacking_tools |-> Many(day, LAMBDA e : Visits(e, "hacking_tools")),
     foreign_logons |-> Cardinality({pc \in Machines(day) : Foreign(owners, pc)}),
     foreign_usb |-> Many(day, LAMBDA e : IsInsert(e) /\ Foreign(owners, e.pc))]

(* ActivityProfile *)
Unknown == [days |-> 0, hours |-> [h \in Hours |-> 0], logons |-> 0, pcs |-> {},
            share |-> [m \in Measures |-> 0], mean |-> [m \in Measures |-> 0],
            var |-> [m \in Measures |-> 0]]

Towards(old, new) == old + (new - old) \div Alpha

\* var' = (1 - 1/Alpha) * (var + diff * diff / Alpha), and 0 after the first day.
Spread(var, diff) == ((Alpha - 1) * (var + ((diff * (diff \div Alpha)) \div Unit))) \div Alpha

Kept(x) == x - x \div Alpha

Learned(profile, day, owners) ==
    LET amount == Measure(day, owners)
        fresh == profile.days = 0
        at(h) == Many(day, LAMBDA e : IsLogon(e) /\ e.hour = h) * Unit
        any(m) == IF amount[m] > 0 THEN Unit ELSE 0
    IN [days |-> profile.days + 1,
        hours |-> [h \in Hours |-> Kept(profile.hours[h]) + at(h)],
        logons |-> Kept(profile.logons) + Many(day, IsLogon) * Unit,
        pcs |-> profile.pcs \cup Machines(day),
        share |-> [m \in Measures |-> IF fresh THEN any(m) ELSE Towards(profile.share[m], any(m))],
        mean |-> [m \in Measures |-> IF fresh THEN amount[m] * Unit
                                     ELSE Towards(profile.mean[m], amount[m] * Unit)],
        var |-> [m \in Measures |-> IF fresh THEN 0
                                    ELSE Spread(profile.var[m], amount[m] * Unit - profile.mean[m])]]

\* An inactive day teaches nothing.
Learn(profile, day, owners) == IF Active(day) THEN Learned(profile, day, owners) ELSE profile

HourShare(profile, h) == Part(profile.hours[h], profile.logons)

\* usual_hours: the heaviest hours, as many as it takes to cover the share.
UsualHours(profile, coverage) ==
    LET ahead(h) == {g \in Hours : \/ profile.hours[g] > profile.hours[h]
                                   \/ profile.hours[g] = profile.hours[h] /\ g < h}
    IN {h \in Hours : /\ profile.hours[h] > 0
                      /\ Part(MapThenSumSet(LAMBDA g : profile.hours[g], ahead(h)), profile.logons) < coverage}
=============================================================================
