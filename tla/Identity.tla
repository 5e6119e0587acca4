------------------------------ MODULE Identity ------------------------------
(***************************************************************************)
(* Accounts, sessions and device credentials together: one set of request  *)
(* handlers serves them all and an administrator's rights decide who may   *)
(* change the devices.                                                     *)
(***************************************************************************)
EXTENDS Sessions, DeviceKeys

CONSTANTS Stored,      \* the rows at the start
          MaxRequests  \* requests served

VARIABLE served

vars == <<row, dirty, job, late, behind, raced, holder, live, listed, outlived, minted, served>>

\* Accounts, access requests and devices are rows of three tables.
ASSUME EntitiesAssumption ==
    /\ Entities = Users \cup {Ask(u) : u \in Users} \cup Devices
    /\ Users \cap ({Ask(u) : u \in Users} \cup Devices) = {}
    /\ Devices \cap {Ask(u) : u \in Users} = {}
    /\ NoRow \notin [{"active"} \cup Roles -> BOOLEAN]

ASSUME StoredAssumption ==
    /\ Stored \in [Entities -> {NoRow} \cup [{"active"} \cup Roles -> BOOLEAN]]
    /\ \E u \in Users : Stored[u] # NoRow /\ Stored[u]["active"] /\ Stored[u]["ADMIN"]
    /\ \A u \in Users : Stored[u] = NoRow => Stored[Ask(u)] = NoRow

Init ==
    /\ RowsInit(Stored)
    /\ raced = {}
    /\ TokensInit
    /\ minted = 0
    /\ served = 0

Begin(w) ==
    \/ /\ \/ \E a, u \in Users, roles \in RoleChoices :
              SetRoles(w, a, u, roles) \/ CreateUser(w, a, u, roles) \/ Approve(w, a, u, roles)
          \/ \E a, u \in Users : Disable(w, a, u) \/ Enable(w, a, u) \/ Reject(w, a, u)
          \/ \E u \in Users : Register(w, u) \/ Submit(w, u) \/ Login(w, u) \/ EditProfile(w, u)
       /\ UNCHANGED <<tokenVars, minted>>
    \/ /\ \E t \in Tokens : Refresh(w, t)
       /\ UNCHANGED minted
    \/ /\ \E d \in Devices : Authenticate(w, d) \/ \E a \in Users : Enroll(w, a, d) \/ Rotate(w, a, d) \/ Revoke(w, a, d)
       /\ UNCHANGED tokenVars

RowStep(w) ==
    /\ \/ (Reread(w) \/ Write(w)) /\ UNCHANGED raced
       \/ Count(w) \/ Refused(w) \/ Commit(w) \/ Fails(w)
    /\ UNCHANGED tokenVars

TokenStep(w) ==
    \/ Issue(w) \/ Load(w) \/ Spend(w)
    \/ ListTokens(w) \/ DropTokens(w) \/ RevokeFails(w)

Next ==
    \/ /\ served < MaxRequests /\ served' = served + 1
       /\ \E w \in Workers : job[w] = Idle /\ Begin(w)
    \/ /\ \/ \E w \in Workers : RowStep(w) \/ TokenStep(w)
          \/ \E t \in Tokens : Logout(t) \/ TokenExpires(t)
       /\ UNCHANGED <<minted, served>>

Spec == Init /\ [][Next]_vars

(***************************************************************************)
(* Properties.                                                             *)
(***************************************************************************)

\* The last active administrator is not disabled or demoted, but by a handler
\* that somebody else's commit overtook, or by the approval of a request that
\* was left pending when the account was enabled and made administrator.
AdminRemains ==
    [][ActiveAdmins # {} /\ ActiveAdmins' = {} =>
        \E w \in Workers : At(w, "commit") /\ (job[w].kind = "approve" \/ w \in late \cup behind)]_vars

\* An account that is disabled becomes active by enable or approve only, or by
\* a handler that writes back a copy older than the disabling.
EnabledOnPurpose ==
    [][\A u \in Users :
        row[u] # NoRow /\ ~row[u]["active"] /\ row'[u]["active"] =>
            \E w \in Workers : /\ At(w, "commit") /\ u \in DOMAIN dirty[w]
                               /\ job[w].kind \in {"enable", "approve"} \/ w \in late]_vars

\* An access request is decided once, unless two administrators decide it at
\* the same time.
DecidedOnce ==
    [][\A u \in Users :
        row[Ask(u)] # NoRow /\ row[Ask(u)].status # "PENDING" /\ row'[Ask(u)] # row[Ask(u)] =>
            \E w \in behind : At(w, "commit") /\ Ask(u) \in DOMAIN dirty[w]]_vars

\* A disabled account has no live refresh token but those the revocation
\* could not know of.
DisabledHasNoSession ==
    \A t \in live : IsActive(holder[t]) \/ t \in outlived \/ holder[t] \in raced

\* AdminRemains without its exceptions, as the module promises it: "the last
\* active administrator can't be disabled or demoted."
LastAdminStays == ActiveAdmins # {}
=============================================================================
