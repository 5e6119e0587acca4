------------------------------ MODULE Sessions ------------------------------
(***************************************************************************)
(* Refresh tokens in Redis (RedisTokenStore): one key per token and one    *)
(* set per user that lists his tokens.  Signing in and refreshing store a  *)
(* token, refreshing and signing out revoke one, disabling an account      *)
(* revokes those its set lists.                                            *)
(***************************************************************************)
EXTENDS Accounts

CONSTANT Tokens

VARIABLES holder,      \* whom a token was issued to; Nobody: not issued yet
          live,        \* tokens whose key is in Redis
          listed,      \* per user: the set of his tokens
          outlived     \* history: tokens a revocation could not know of

tokenVars == <<holder, live, listed, outlived>>

TokensInit ==
    /\ holder = [t \in Tokens |-> Nobody]
    /\ live = {}
    /\ listed = [u \in Users |-> {}]
    /\ outlived = {}

\* Some handler has read the set of u's tokens to revoke them and has not
\* committed the disabled account yet.
Revoking(u) ==
    \E v \in Workers :
        /\ job[v].kind = "disable" /\ u \in DOMAIN dirty[v]
        /\ ~At(v, "list")

Issue(w) ==
    /\ At(w, "issue")
    /\ LET u == Subject(w)
       IN \E t \in Tokens :
            /\ holder[t] = Nobody
            /\ holder' = [holder EXCEPT ![t] = u]
            /\ live' = live \cup {t}
            /\ listed' = [listed EXCEPT ![u] = @ \cup {t}]
            /\ outlived' = IF IsActive(u) /\ ~Revoking(u) THEN outlived ELSE outlived \cup {t}
    /\ Advance(w)
    /\ UNCHANGED <<row, dirty, late, behind, raced>>

Revoked(t) ==
    /\ live' = live \ {t}
    /\ listed' = [listed EXCEPT ![holder[t]] = IF t \in live THEN @ \ {t} ELSE @]

Refresh(w, t) ==
    /\ t \in live
    /\ Start(w, "refresh", None,
             <<<<"load", holder[t]>>, <<"spend", t>>, <<"issue", holder[t]>>>> \o Done)
    /\ UNCHANGED <<row, dirty, late, behind, raced, tokenVars>>

Load(w) ==
    /\ At(w, "load") /\ IsActive(Subject(w))
    /\ Advance(w)
    /\ UNCHANGED <<row, dirty, late, behind, raced, tokenVars>>

Spend(w) ==
    /\ At(w, "spend")
    /\ Revoked(Subject(w))
    /\ Advance(w)
    /\ UNCHANGED <<row, dirty, late, behind, raced, holder, outlived>>

\* Any active user may present any token.
Logout(t) ==
    /\ t \in live /\ \E u \in Users : IsActive(u)
    /\ Revoked(t)
    /\ UNCHANGED <<row, dirty, job, late, behind, raced, holder, outlived>>

\* The set of a user is renewed with every token and outlasts them.
TokenExpires(t) ==
    /\ t \in live
    /\ live' = live \ {t}
    /\ UNCHANGED <<row, dirty, job, late, behind, raced, holder, listed, outlived>>

ListTokens(w) ==
    /\ At(w, "list")
    /\ job' = [job EXCEPT ![w].seen = listed[Subject(w)], ![w].todo = Tail(@)]
    /\ UNCHANGED <<row, dirty, late, behind, raced, tokenVars>>

\* With nothing to revoke revoke_all_for_user returns early.
DropTokens(w) ==
    /\ At(w, "drop")
    /\ LET u == Subject(w)
       IN IF job[w].seen = {}
          THEN UNCHANGED <<live, listed>>
          ELSE /\ live' = live \ job[w].seen
               /\ listed' = [listed EXCEPT ![u] = {}]
    /\ Advance(w)
    /\ UNCHANGED <<row, dirty, late, behind, raced, holder, outlived>>

\* Redis is away: disable goes on without it.
RevokeFails(w) ==
    /\ At(w, "list") \/ At(w, "drop")
    /\ job' = [job EXCEPT ![w].todo = Done]
    /\ outlived' = outlived \cup {t \in live : holder[t] = Subject(w)}
    /\ UNCHANGED <<row, dirty, late, behind, raced, holder, live, listed>>
=============================================================================
