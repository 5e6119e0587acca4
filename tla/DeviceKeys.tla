----------------------------- MODULE DeviceKeys -----------------------------
(***************************************************************************)
(* Credentials of endpoint agents (AgentDeviceService).  A key is a number *)
(* that is never minted twice; a row holds the key that is valid.  Every   *)
(* request of an agent authenticates and saves the row, for last_seen_at.  *)
(***************************************************************************)
EXTENDS Accounts

CONSTANTS Devices, MaxKey

VARIABLE minted        \* the last key made

\* Roles with agents:manage; a superadmin has every permission.
AgentManagers == {"ADMIN", "SOC_ENGINEER"} \cap Roles
ManagesAgents(u) == IsActive(u) /\ (u \in Supers \/ \E r \in AgentManagers : row[u][r])

Mint(w, kind, d) ==
    /\ minted < MaxKey
    /\ minted' = minted + 1
    /\ Start(w, kind, Only(d, [active |-> TRUE, key |-> minted + 1]), Save(d) \o Done)
    /\ UNCHANGED <<row, dirty, late, behind, raced>>

Enroll(w, a, d) == ManagesAgents(a) /\ row[d] = NoRow /\ Mint(w, "enroll", d)

\* Rotating revives a revoked device.
Rotate(w, a, d) == ManagesAgents(a) /\ row[d] # NoRow /\ Mint(w, "rotate", d)

Revoke(w, a, d) ==
    /\ ManagesAgents(a) /\ row[d] # NoRow
    /\ Start(w, "revoke", Only(d, [row[d] EXCEPT !.active = FALSE]), Save(d) \o Done)
    /\ UNCHANGED <<row, dirty, late, behind, raced, minted>>

\* The agent presents the key of the row and the row is active.
Authenticate(w, d) ==
    /\ row[d] # NoRow /\ row[d].active
    /\ Start(w, "authenticate", Only(d, row[d]), Save(d) \o Done)
    /\ UNCHANGED <<row, dirty, late, behind, raced, minted>>
=============================================================================
