----------------------------- MODULE Detectors -----------------------------
(***************************************************************************)
(* The category detectors (detection/application/detectors.py): each looks *)
(* at a day against the profile of the days before it and gives the        *)
(* severities of its reasons, none when it stays silent.                   *)
(*                                                                         *)
(* Severities are points, 0 to 100.  org says which machines belong to     *)
(* whom and whether the person's account is privileged.                    *)
(***************************************************************************)
EXTENDS Activity, Sequences, SequencesExt

CONSTANTS MinActiveDays, MinDaysForHours, MinDaysForIndicators

RareShare == Unit \div 20
JobSearchRareShare == Unit \div 10
FailedLogonBurst == 5
SpikeZ == 3

Reason(holds, severity) == IF holds THEN <<severity>> ELSE <<>>

Smaller(x, y) == IF x < y THEN x ELSE y
Larger(x, y) == IF x > y THEN x ELSE y

\* The strongest reason sets the severity, each other one adds five points.
Severity(reasons) == Smaller(100, Max(Range(reasons)) + 5 * (Len(reasons) - 1))

HasHistory(profile, days) == profile.days >= days
Rarely(profile, m) == profile.share[m] < RareShare

\* A time of day at which this person essentially never works.
OutsideHours(profile, h) ==
    LET usual == UsualHours(profile, (95 * Unit) \div 100)
    IN /\ profile.days >= MinDaysForHours /\ profile.logons >= 10 * Unit
       /\ HourShare(profile, h) < Unit \div 50
       /\ h < Min(usual) - 1 \/ h > Max(usual) + 1

\* value >= n * (mean + z * std), the standard deviation being one at least.
Beyond(profile, m, value, n) ==
    LET over == value * Unit - n * profile.mean[m]
        spread == Larger(profile.var[m], Unit)
    IN over >= 0 /\ (over * over) \div Unit >= n * n * SpikeZ * SpikeZ * spread

Spike(profile, m, value, minimum) == value >= minimum /\ Beyond(profile, m, value, 1)

NewForeign(day, profile, org) ==
    {pc \in Machines(day) : Foreign(org.owners, pc) /\ pc \notin profile.pcs}

UnusualLoginTime(day, profile, org) ==
    LET rare == Of(day, LAMBDA e : IsLogon(e) /\ OutsideHours(profile, e.hour))
        times == MapThenSumSet(LAMBDA e : day[e], rare)
        night == IF \E e \in rare : e.hour < 6 THEN 10 ELSE 0
    IN Reason(rare # {}, Smaller(70, 45 + 10 * (times - 1)) + night)

UnauthorizedAccess(day, profile, org) ==
    LET failed == Many(day, IsFailure)
    IN Reason(\/ failed >= FailedLogonBurst
              \/ /\ HasHistory(profile, MinActiveDays)
                 /\ Spike(profile, "failed_logons", failed, 3),
              Smaller(85, 50 + 5 * Larger(0, failed - FailedLogonBurst)))
       \o Reason(/\ ~org.privileged /\ HasHistory(profile, MinActiveDays)
                 /\ Rarely(profile, "foreign_logons")
                 /\ NewForeign(day, profile, org) # {}, 60)

SuspiciousDeviceUsage(day, profile, org) ==
    LET inserts == Many(day, IsInsert)
        reasons ==
            (IF Rarely(profile, "usb_inserts")
             THEN <<55>>
             ELSE Reason(Spike(profile, "usb_inserts", inserts, 3), 50))
            \o Reason(/\ Of(day, LAMBDA e : IsInsert(e) /\ Foreign(org.owners, e.pc)) # {}
                      /\ Rarely(profile, "foreign_usb"), 55)
        afterHours == Of(day, LAMBDA e : IsInsert(e) /\ OutsideHours(profile, e.hour)) # {}
    IN IF inserts = 0 \/ ~HasHistory(profile, MinActiveDays) \/ reasons = <<>>
       THEN <<>>
       ELSE reasons \o Reason(afterHours, 50)

\* n times the usual: normal variation, two and a half times the mean, and five.
FarAbove(profile, copies, n) ==
    /\ copies >= 5 * n /\ 2 * copies * Unit >= 5 * n * profile.mean["removable_copies"]
    /\ Beyond(profile, "removable_copies", copies, n)

\* Fifteen points for each doubling, thirty-five at most.
Excess(profile, copies) ==
    Smaller(35, 15 * Max({k \in 0..3 : FarAbove(profile, copies, 2 ^ k - 1)}))

ExcessiveFileTransfer(day, profile, org) ==
    LET copies == Many(day, IsCopy)
        mean == profile.mean["removable_copies"]
        spike == FarAbove(profile, copies, 1)
        mails == Many(day, IsLeakingMail)
    IN IF ~HasHistory(profile, MinActiveDays) THEN <<>> ELSE
       Reason(spike, 50 + Excess(profile, copies))
       \o Reason(~spike /\ 10 * mean < Unit /\ copies >= 3, 50)
       \o Reason(Many(day, IsExecutableCopy) > 0 /\ Rarely(profile, "executable_copies"), 55)
       \o Reason(mails > 0 /\ Spike(profile, "external_attachment_emails", mails, 8), 50)

AbnormalDataDownload(day, profile, org) ==
    LET history == HasHistory(profile, MinActiveDays)
        visited(category) == Of(day, LAMBDA e : Visits(e, category)) # {}
        uploads == Many(day, IsUpload)
        downloads == Many(day, IsDownload)
    IN Reason(visited("leak_site"), 80)
       \o Reason(visited("cloud_storage") /\ history /\ Rarely(profile, "cloud_storage"), 55)
       \o Reason(uploads > 0 /\ history /\ Spike(profile, "uploads", uploads, 3), 55)
       \o Reason(downloads > 0 /\ history /\ Spike(profile, "downloads", downloads, 10), 45)

\* An administrator uses other people's machines as part of the job: what
\* stands out is that he normally does not, or the hour.
PrivilegeAbuse(day, profile, org) ==
    LET grant(e) == PrivilegeIndicators[e.grants] + (IF OutsideHours(profile, e.hour) THEN 10 ELSE 0)
        grants == FoldSet(LAMBDA e, out : out \o [n \in 1..day[e] |-> grant(e)], <<>>, Of(day, IsGrant))
        last(pc) == Max({e.hour : e \in Of(day, LAMBDA e : IsLogon(e) /\ e.pc = pc)})
    IN grants
       \o Reason(Of(day, LAMBDA e : Visits(e, "hacking_tools")) # {}, IF org.privileged THEN 85 ELSE 70)
       \o Reason(/\ org.privileged /\ HasHistory(profile, MinActiveDays)
                 /\ \E pc \in NewForeign(day, profile, org) :
                       Rarely(profile, "foreign_logons") \/ OutsideHours(profile, last(pc)), 75)

InsiderRiskIndicators(day, profile, org) ==
    LET jobs == Many(day, LAMBDA e : Visits(e, "job_search"))
    IN Reason(/\ jobs > 0 /\ HasHistory(profile, MinDaysForIndicators)
              /\ profile.share["job_search"] < JobSearchRareShare,
              Smaller(50, 35 + jobs))

\* At most one finding of a detector a day.
Found(detector, component, reasons) ==
    IF reasons = <<>> THEN {}
    ELSE {[detector |-> detector, component |-> component, severity |-> Severity(reasons)]}

Detect(day, profile, org) ==
    IF ~Active(day) THEN {} ELSE
    Found("login_time", "access", UnusualLoginTime(day, profile, org))
    \cup Found("unauthorized", "access", UnauthorizedAccess(day, profile, org))
    \cup Found("device", "data", SuspiciousDeviceUsage(day, profile, org))
    \cup Found("transfer", "data", ExcessiveFileTransfer(day, profile, org))
    \cup Found("download", "data", AbnormalDataDownload(day, profile, org))
    \cup Found("privilege", "privilege", PrivilegeAbuse(day, profile, org))
    \cup Found("indicators", "behavioral", InsiderRiskIndicators(day, profile, org))
=============================================================================
