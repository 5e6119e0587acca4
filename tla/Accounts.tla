------------------------------ MODULE Accounts ------------------------------
(***************************************************************************)
(* User accounts: administration (UserAdminService), access requests       *)
(* (AccessRequestService), registration and the two requests with which a  *)
(* person saves his own row, signing in and editing the profile.           *)
(*                                                                         *)
(* A user's row is a function on "active" and the roles.  The request of u *)
(* for access is the row Ask(u).  An operation that is refused before it   *)
(* writes anything is not a step: it leaves an audit line only.            *)
(***************************************************************************)
EXTENDS SqlRows

CONSTANTS Users,       \* user names: unique, in upper or lower case
          Supers,      \* users with is_superadmin
          Roles

ASSUME UsersAssumption ==
    /\ IsFiniteSet(Users)
    /\ Supers \subseteq Users
    /\ {"ADMIN", "VIEWER"} \subseteq Roles
    /\ "active" \notin Roles

VARIABLES raced        \* history: rows written by a handler that was overtaken

Ask(u) == <<"ask", u>>

Account(active, roles) ==
    [c \in {"active"} \cup Roles |-> IF c = "active" THEN active ELSE c \in roles]

\* is_admin; the permissions users:create and users:update come with the
\* same role or flag.
IsAdmin(u, r) == u \in Supers \/ r["ADMIN"]

Exists(u) == row[u] # NoRow
IsActive(u) == Exists(u) /\ row[u]["active"]
ActiveAdmins == {u \in Users : IsActive(u) /\ IsAdmin(u, row[u])}

Only(e, r) == [x \in {e} |-> r]
Done == <<<<"commit", Nobody>>>>

\* The new roles are chosen by the caller; at least one (SetRolesRequest).
RoleChoices == (SUBSET Roles) \ {{}}

\* Mutant: the row is built as for a new account.
SetRolesAfresh(w, a, u, roles) ==
    /\ a \in ActiveAdmins /\ Exists(u) /\ "ADMIN" \in roles
    /\ Start(w, "roles", Only(u, Account(TRUE, roles)), Save(u) \o Done)
    /\ UNCHANGED <<row, dirty, late, behind, raced>>

SetRoles(w, a, u, roles) ==
    LET demotes == IsAdmin(u, row[u]) /\ u \notin Supers /\ "ADMIN" \notin roles
        counting == IF demotes /\ IsActive(u) THEN <<<<"count", u>>>> ELSE <<>>
    IN /\ a \in ActiveAdmins /\ Exists(u)
       /\ ~(demotes /\ u = a)
       /\ Start(w, "roles", Only(u, Account(row[u]["active"], roles)),
                counting \o Save(u) \o Done)
       /\ UNCHANGED <<row, dirty, late, behind, raced>>

\* Mutant: the tokens are revoked before the account is disabled.
RevokeThenDisable(w, a, u) ==
    LET counting == IF IsAdmin(u, row[u]) THEN <<<<"count", u>>>> ELSE <<>>
    IN /\ a \in ActiveAdmins /\ IsActive(u) /\ u # a
       /\ Start(w, "disable", Only(u, [row[u] EXCEPT !["active"] = FALSE]),
                counting \o <<<<"list", u>>, <<"drop", u>>>> \o Save(u) \o Done)
       /\ UNCHANGED <<row, dirty, late, behind, raced>>

\* Between the write and the commit, disable revokes the refresh tokens.
Disable(w, a, u) ==
    LET counting == IF IsAdmin(u, row[u]) THEN <<<<"count", u>>>> ELSE <<>>
    IN /\ a \in ActiveAdmins /\ IsActive(u) /\ u # a
       /\ Start(w, "disable", Only(u, [row[u] EXCEPT !["active"] = FALSE]),
                counting \o Save(u) \o <<<<"list", u>>, <<"drop", u>>>> \o Done)
       /\ UNCHANGED <<row, dirty, late, behind, raced>>

Enable(w, a, u) ==
    /\ a \in ActiveAdmins /\ Exists(u) /\ ~IsActive(u)
    /\ Start(w, "enable", Only(u, [row[u] EXCEPT !["active"] = TRUE]), Save(u) \o Done)
    /\ UNCHANGED <<row, dirty, late, behind, raced>>

\* Mutant: one administrator is enough, though he is the one who goes.
CountOne(w) ==
    /\ At(w, "count") /\ Cardinality(ActiveAdmins) >= 1
    /\ job' = [job EXCEPT ![w].counted = TRUE, ![w].todo = Tail(@)]
    /\ UNCHANGED <<row, dirty, late, behind, raced>>

\* _refuse_if_lockout: the last active administrator stays.
Count(w) ==
    /\ At(w, "count") /\ Cardinality(ActiveAdmins) > 1
    /\ job' = [job EXCEPT ![w].counted = TRUE, ![w].todo = Tail(@)]
    /\ UNCHANGED <<row, dirty, late, behind, raced>>

Refused(w) ==
    /\ At(w, "count") /\ Cardinality(ActiveAdmins) <= 1
    /\ Forget(w)
    /\ late' = late \ {w}
    /\ behind' = behind \ {w}
    /\ UNCHANGED <<row, raced>>

\* exists_by_email and exists_by_username come first in all three.
CreateUser(w, a, u, roles) ==
    /\ a \in ActiveAdmins /\ ~Exists(u)
    /\ Start(w, "create", Only(u, Account(TRUE, roles)), Save(u) \o Done)
    /\ UNCHANGED <<row, dirty, late, behind, raced>>

Register(w, u) ==
    /\ ~Exists(u)
    /\ Start(w, "register", Only(u, Account(TRUE, {"VIEWER"})), Save(u) \o Done)
    /\ UNCHANGED <<row, dirty, late, behind, raced>>

\* The account is disabled and has no role until the request is approved.
Submit(w, u) ==
    /\ ~Exists(u)
    /\ Start(w, "submit",
             [x \in {u, Ask(u)} |-> IF x = u THEN Account(FALSE, {}) ELSE [status |-> "PENDING"]],
             Save(u) \o Save(Ask(u)) \o Done)
    /\ UNCHANGED <<row, dirty, late, behind, raced>>

\* Mutant: the status is not looked at.
Known(u) == row[Ask(u)] # NoRow

Pending(u) == row[Ask(u)] # NoRow /\ row[Ask(u)].status = "PENDING"

Approve(w, a, u, roles) ==
    /\ a \in ActiveAdmins /\ Pending(u)
    /\ Start(w, "approve",
             [x \in {u, Ask(u)} |-> IF x = u THEN Account(TRUE, roles) ELSE [status |-> "APPROVED"]],
             Save(u) \o Save(Ask(u)) \o Done)
    /\ UNCHANGED <<row, dirty, late, behind, raced>>

Reject(w, a, u) ==
    /\ a \in ActiveAdmins /\ Pending(u)
    /\ Start(w, "reject", Only(Ask(u), [status |-> "REJECTED"]), Save(Ask(u)) \o Done)
    /\ UNCHANGED <<row, dirty, late, behind, raced>>

\* LoginUserUseCase: the tokens are stored, then last_login_at is saved with
\* the rest of the copy.
Login(w, u) ==
    /\ IsActive(u)
    /\ Start(w, "login", Only(u, row[u]), <<<<"issue", u>>>> \o Save(u) \o Done)
    /\ UNCHANGED <<row, dirty, late, behind, raced>>

EditProfile(w, u) ==
    /\ IsActive(u)
    /\ Start(w, "profile", Only(u, row[u]), Save(u) \o Done)
    /\ UNCHANGED <<row, dirty, late, behind, raced>>

RemovesAdmin(w) ==
    \E u \in DOMAIN dirty[w] \cap Users :
        u \in ActiveAdmins /\ ~(dirty[w][u]["active"] /\ IsAdmin(u, dirty[w][u]))

\* Handlers that counted the administrators one of whom this commit removes.
Miscounted(w) == {v \in Workers \ {w} : RemovesAdmin(w) /\ job[v].counted}

Commit(w) ==
    /\ CommitRows(w)
    /\ late' = (late \cup Overtaken(w, "reread") \cup Miscounted(w)) \ {w}
    /\ raced' = IF w \in late \cup behind THEN raced \cup DOMAIN dirty[w] ELSE raced

\* A unique constraint: the row was inserted by somebody else in the meantime.
Fails(w) == Rollback(w) /\ UNCHANGED raced
=============================================================================
