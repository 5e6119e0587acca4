----------------------------- MODULE MCIdentity -----------------------------
EXTENDS Identity, TLC

CONSTANTS alice, bob, carol, laptop

MCUsers == {alice, bob, carol}
MCDevices == {laptop}
MCEntities == MCUsers \cup {<<"ask", u>> : u \in MCUsers} \cup MCDevices
MCRoles == {"ADMIN", "VIEWER"}

\* Two administrators; nobody else has an account.
MCStored == [e \in MCEntities |->
    IF e \in {alice, bob} THEN [c \in {"active"} \cup MCRoles |-> c # "VIEWER"] ELSE NoRow]

\* Two persons, of whom one is the administrator.
MCTwoUsers == {alice, bob}
MCTwoEntities == MCTwoUsers \cup {<<"ask", u>> : u \in MCTwoUsers}
MCOneAdmin == [e \in MCTwoEntities |->
    IF e = alice THEN [c \in {"active"} \cup MCRoles |-> c # "VIEWER"] ELSE NoRow]

Symmetry == Permutations(Workers) \cup Permutations(Tokens)
=============================================================================
