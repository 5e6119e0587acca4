-------------------------- MODULE ReliableDelivery --------------------------
(***************************************************************************)
(* What the endpoint agent promises about the events it has queued,        *)
(* independently of batches, retries, crashes and the HTTP exchange: an    *)
(* event is held until the server has dealt with it, it may be parked      *)
(* (dead-lettered) and taken out of the park again, and it is never        *)
(* deleted and never settled before the server stored or refused it.       *)
(*                                                                         *)
(* agent/README.md "Reliability behaviour" states this promise;            *)
(* EventDelivery implements it.                                            *)
(***************************************************************************)

CONSTANT Events          \* the events the collectors can observe

VARIABLES
  phase,                 \* [Events -> Phases]: the event's life in the queue
  stored,                \* events with at least one document on the server
  declined               \* events the server answered "rejected" for

absVars == <<phase, stored, declined>>

Phases == {"unseen", "held", "settled", "parked"}

AbsInit ==
  /\ phase = [e \in Events |-> "unseen"]
  /\ stored = {}
  /\ declined = {}

Move(S, to) == phase' = [e \in Events |-> IF e \in S THEN to ELSE phase[e]]

Hold(e) ==
  /\ phase[e] = "unseen"
  /\ Move({e}, "held")
  /\ UNCHANGED <<stored, declined>>

(* The server handles an event it was sent; the agent may already have     *)
(* given up on that request, so any queued event qualifies.                *)
Handle(e, keep, decline) ==
  /\ phase[e] # "unseen"
  /\ stored' = IF keep THEN stored \union {e} ELSE stored
  /\ declined' = IF decline THEN declined \union {e} ELSE declined
  /\ UNCHANGED phase

Settle(S) ==
  /\ \A e \in S : phase[e] = "held" /\ e \in stored \union declined
  /\ Move(S, "settled")
  /\ UNCHANGED <<stored, declined>>

Park(S) ==
  /\ \A e \in S : phase[e] = "held"
  /\ Move(S, "parked")
  /\ UNCHANGED <<stored, declined>>

Unpark ==
  /\ Move({e \in Events : phase[e] = "parked"}, "held")
  /\ UNCHANGED <<stored, declined>>

AbsNext ==
  \/ \E e \in Events : Hold(e)
  \/ \E e \in Events, keep, decline \in BOOLEAN : Handle(e, keep, decline)
  \/ \E S \in SUBSET Events : Settle(S) \/ Park(S)
  \/ Unpark

AbsSpec == AbsInit /\ [][AbsNext]_absVars
=============================================================================
