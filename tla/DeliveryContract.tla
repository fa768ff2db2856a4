-------------------------- MODULE DeliveryContract --------------------------
(***************************************************************************)
(* What webhook delivery promises for every delivery, whoever works on it: *)
(* a queued delivery is offered to its receiver, is recorded as succeeded  *)
(* only if the receiver accepted it, is settled once, and is settled.      *)
(***************************************************************************)
CONSTANT Deliveries

VARIABLES
    phase,     \* what the dealer sees of each delivery
    accepted   \* deliveries a receiver answered with a 2xx

cvars == <<phase, accepted>>

Settled == {"succeeded", "dead_letter", "gone"}
Phases  == Settled \cup {"absent", "pending"}

ContractTypeOK ==
    /\ phase \in [Deliveries -> Phases]
    /\ accepted \subseteq Deliveries

ContractInit ==
    /\ phase = [d \in Deliveries |-> "absent"]
    /\ accepted = {}

\* An event queues all its deliveries at once.
Queue(ds) ==
    /\ \A d \in ds : phase[d] = "absent"
    /\ phase' = [d \in Deliveries |-> IF d \in ds THEN "pending" ELSE phase[d]]
    /\ UNCHANGED accepted

\* The receiver may accept more than once, even after the outcome is known.
Accept(d) ==
    /\ phase[d] # "absent"
    /\ accepted' = accepted \cup {d}
    /\ UNCHANGED phase

Succeed(d) ==
    /\ phase[d] = "pending" /\ d \in accepted
    /\ phase' = [phase EXCEPT ![d] = "succeeded"]
    /\ UNCHANGED accepted

GiveUp(d) ==
    /\ phase[d] = "pending"
    /\ phase' = [phase EXCEPT ![d] = "dead_letter"]
    /\ UNCHANGED accepted

\* Deleting a webhook deletes its deliveries.
Cancel(ds) ==
    /\ phase' = [d \in Deliveries |->
                    IF d \in ds /\ phase[d] # "absent" THEN "gone"
                    ELSE phase[d]]
    /\ UNCHANGED accepted

ContractNext ==
    \/ \E ds \in SUBSET Deliveries : Queue(ds) \/ Cancel(ds)
    \/ \E d \in Deliveries : Accept(d) \/ Succeed(d) \/ GiveUp(d)

ContractSpec == ContractInit /\ [][ContractNext]_cvars
=============================================================================
