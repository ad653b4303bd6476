-------------------------- MODULE MessageLifecycle --------------------------
(***************************************************************************)
(* What the hub promises about one message, whoever holds it inside: once  *)
(* accepted it waits, is handed out to its receiver on one lease at a      *)
(* time, comes back to wait if the receiver does not settle it, and ends   *)
(* acknowledged - for good - or withdrawn.  A message that is out with its *)
(* receiver is never withdrawn, and one that has ended is never handed out *)
(* again.  MessageDelivery implements this module.                         *)
(***************************************************************************)
EXTENDS Naturals

CONSTANT Msgs

VARIABLES
  phase,    \* message -> where it is in its life
  handed    \* message -> how many times it was handed to its receiver

lifecycleVars == <<phase, handed>>

Phases == {"none", "waiting", "out", "acked", "withdrawn"}

LifecycleInit ==
  /\ phase = [m \in Msgs |-> "none"]
  /\ handed = [m \in Msgs |-> 0]

(* Every message of S goes from one phase to another. *)
Move(S, from, to) ==
  /\ \A m \in S : phase[m] = from
  /\ phase' = [m \in Msgs |-> IF m \in S THEN to ELSE phase[m]]

Accept(m) == /\ Move({m}, "none", "waiting")
             /\ UNCHANGED handed

HandOut(m) == /\ Move({m}, "waiting", "out")
              /\ handed' = [handed EXCEPT ![m] = @ + 1]

Settle(m) == /\ Move({m}, "out", "acked")
             /\ UNCHANGED handed

TakeBack(S) == /\ Move(S, "out", "waiting")
               /\ UNCHANGED handed

Withdraw(S) == /\ Move(S, "waiting", "withdrawn")
               /\ UNCHANGED handed

LifecycleNext ==
  \/ \E m \in Msgs : Accept(m) \/ HandOut(m) \/ Settle(m)
  \/ \E S \in SUBSET Msgs : TakeBack(S) \/ Withdraw(S)

LifecycleSpec == LifecycleInit /\ [][LifecycleNext]_lifecycleVars

=============================================================================
