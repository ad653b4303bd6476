--------------------------- MODULE LongPollProofs ---------------------------
(***************************************************************************)
(* For any number of agents, pulls and producers: LongPoll keeps its       *)
(* types, leaks no channel and, over a store that does not fail, loses no  *)
(* wakeup.                                                                 *)
(***************************************************************************)
EXTENDS LongPoll, TLAPS

USE FlakyAssumption, BoundAssumption, NilAssumption

(* One step of one pull, named so that the proofs split it once.           *)
PullStep(p) == \/ \E a \in Agents : StartPull(p, a)
               \/ Deadline(p) \/ TimerFires(p) \/ Backoff(p)
               \/ ClientGone(p) \/ Run(p)

-----------------------------------------------------------------------------
(* What TypeOK says of the pulls alone. *)
PullsOK ==
  /\ pull \in [Pulls -> [pc : PC, agent : Agents \cup {Nil}, after : Branch]]
  /\ \A p \in Pulls : pull[p].agent = Nil <=> pull[p].pc = "idle"

(* A pull on its way out of the table of waiters is still a pull. *)
LEMMA LeaveTypes ==
  ASSUME PullsOK, NEW p \in Pulls, NEW br \in Branch, pull[p].pc # "idle",
         LeaveFor(p, br)
  PROVE  PullsOK'
<1> DEFINE r == [pc |-> "leave", agent |-> pull[p].agent, after |-> br]
<1>1. /\ r \in [pc : PC, agent : Agents \cup {Nil}, after : Branch]
      /\ r.agent # Nil /\ r.pc # "idle"
  BY DEF PullsOK, PC
<1>2. pull' = [pull EXCEPT ![p] = r]
  <2> DEFINE q == [pull EXCEPT ![p].pc = "leave", ![p].after = br]
  <2>1. q[p] = r /\ \A o \in Pulls \ {p} : q[o] = pull[o]
    BY DEF PullsOK
  <2>2. pull' = q
    BY DEF LeaveFor
  <2>3. DOMAIN q = Pulls /\ q = [o \in Pulls |-> q[o]]
    BY DEF PullsOK
  <2> HIDE DEF q, r
  <2> QED BY <2>1, <2>2, <2>3 DEF PullsOK
<1> HIDE DEF r
<1> QED BY <1>1, <1>2 DEF PullsOK

-----------------------------------------------------------------------------
(* The state stays within its types.                                       *)
THEOREM TypeCorrect == Spec => []TypeOK
<1>1. Init => TypeOK
  BY DEF Init, TypeOK, IdlePull, PC, Branch
<1>2. TypeOK /\ [Next]_vars => TypeOK'
  <2> SUFFICES ASSUME TypeOK, [Next]_vars PROVE TypeOK'
    OBVIOUS
  <2> USE DEF TypeOK
  <2>1. CASE UNCHANGED vars
    BY <2>1 DEF vars
  <2>2. ASSUME NEW p \in Pulls, PullStep(p) PROVE TypeOK'
    <3>1. ASSUME NEW a \in Agents, StartPull(p, a) PROVE TypeOK'
      BY <3>1 DEF StartPull, PC, Branch
    <3>2. CASE Deadline(p)
      BY <3>2 DEF Deadline
    <3>3. CASE TimerFires(p)
      <4>1. PullsOK'
        BY <3>3, LeaveTypes DEF TimerFires, PullsOK, Branch
      <4> QED BY <3>3, <4>1 DEF TimerFires, PullsOK
    <3>4. CASE Backoff(p)
      BY <3>4 DEF Backoff, Finish, Go, IdlePull, PC, Branch
    <3>5. CASE ClientGone(p)
      BY <3>5 DEF ClientGone, LeaveFor, Finish, IdlePull, PC, Branch
    <3>6. CASE PollTakes(p)
      BY <3>6 DEF PollTakes, Take, Go, PC, Branch
    <3>7. CASE PollEmpty(p)
      BY <3>7 DEF PollEmpty, Finish, Go, IdlePull, PC, Branch
    <3>8. CASE PollFails(p)
      BY <3>8 DEF PollFails, DequeueFails, Take, Finish, Go, IdlePull, PC, Branch
    <3>9. CASE Register(p)
      BY <3>9 DEF Register, Go, PC, Branch
    <3>10. CASE RecheckTakes(p)
      <4>1. queue' \in [Agents -> 0..MaxQueued]
        BY <3>10 DEF RecheckTakes, Take
      <4>2. PullsOK'
        BY <3>10, LeaveTypes DEF RecheckTakes, PullsOK, Branch
      <4> QED
        BY <3>10, <4>1, <4>2 DEF RecheckTakes, PullsOK
    <3>11. CASE RecheckEmpty(p)
      BY <3>11 DEF RecheckEmpty, Go, PC, Branch
    <3>12. CASE RecheckFails(p)
      BY <3>12 DEF RecheckFails, DequeueFails, Take, LeaveFor, PC, Branch
    <3>13. CASE Woken(p)
      <4>1. PullsOK'
        BY <3>13, LeaveTypes DEF Woken, PullsOK, Branch
      <4> QED BY <3>13, <4>1 DEF Woken, PullsOK
    <3>14. CASE Leave(p)
      BY <3>14 DEF Leave, Cancel, Finish, Go, IdlePull, PC, Branch
    <3>15. CASE Claim(p)
      BY <3>15 DEF Claim, Finish, IdlePull, PC, Branch
    <3>16. CASE ClaimFails(p)
      BY <3>16 DEF ClaimFails, Queued, Finish, IdlePull, PC, Branch
    <3> QED
      BY <2>2, <3>1, <3>2, <3>3, <3>4, <3>5, <3>6, <3>7, <3>8, <3>9, <3>10,
         <3>11, <3>12, <3>13, <3>14, <3>15, <3>16 DEF PullStep, Run
  <2>3. ASSUME NEW b \in Producers, Notify(b) PROVE TypeOK'
    BY <2>3 DEF Notify
  <2>4. ASSUME NEW b \in Producers, NEW a \in Agents, Enqueue(b, a) PROVE TypeOK'
    BY <2>4 DEF Enqueue, Queued
  <2>5. ASSUME NEW a \in Agents, EnqueueUnanswered(a) PROVE TypeOK'
    BY <2>5 DEF EnqueueUnanswered, Queued
  <2> QED
    BY <2>1, <2>2, <2>3, <2>4, <2>5 DEF Next, PullStep
<1> QED
  BY <1>1, <1>2, PTL DEF Spec

-----------------------------------------------------------------------------
(* No channel outlives the request that registered it.                     *)
THEOREM ChannelsAreReturned == Spec => []NoWaiterLeaks
<1>1. Init => NoWaiterLeaks
  <2> SUFFICES ASSUME Init, NEW a \in Agents
               PROVE  waiters[a] = {p \in Pulls : pull[p].agent = a /\ Registered(p)}
    BY DEF NoWaiterLeaks
  <2>1. \A p \in Pulls : ~Registered(p)
    BY DEF Init, Registered, IdlePull
  <2> QED
    BY <2>1 DEF Init
<1>2. TypeOK /\ NoWaiterLeaks /\ [Next]_vars => NoWaiterLeaks'
  <2> SUFFICES ASSUME TypeOK, NoWaiterLeaks, [Next]_vars PROVE NoWaiterLeaks'
    OBVIOUS
  <2>1. ASSUME UNCHANGED <<waiters, pull>> PROVE NoWaiterLeaks'
    BY <2>1 DEF NoWaiterLeaks, Registered
  <2>2. ASSUME NEW p \in Pulls, UNCHANGED waiters, ~Registered(p), ~Registered(p)',
               \A q \in Pulls \ {p} : pull'[q] = pull[q]
        PROVE  NoWaiterLeaks'
    BY <2>2 DEF NoWaiterLeaks, Registered
  <2>3. ASSUME NEW p \in Pulls, UNCHANGED waiters, Registered(p), Registered(p)',
               pull'[p].agent = pull[p].agent,
               \A q \in Pulls \ {p} : pull'[q] = pull[q]
        PROVE  NoWaiterLeaks'
    BY <2>3 DEF NoWaiterLeaks, Registered
  <2> USE DEF TypeOK
  <2>4. ASSUME NEW p \in Pulls, PullStep(p) PROVE NoWaiterLeaks'
    <3>1. ASSUME NEW a \in Agents, StartPull(p, a) PROVE NoWaiterLeaks'
      BY <3>1, <2>2 DEF StartPull, Registered
    <3>2. CASE Deadline(p)
      BY <3>2, <2>1 DEF Deadline
    <3>3. CASE TimerFires(p) \/ RecheckTakes(p) \/ RecheckEmpty(p)
               \/ RecheckFails(p) \/ Woken(p)
      BY <3>3, <2>3 DEF TimerFires, RecheckTakes, RecheckEmpty, RecheckFails, Woken,
                        LeaveFor, Go, Registered
    <3>4. CASE Backoff(p) \/ PollTakes(p) \/ PollEmpty(p) \/ PollFails(p)
               \/ Claim(p) \/ ClaimFails(p)
      BY <3>4, <2>2 DEF Backoff, PollTakes, PollEmpty, PollFails, Claim, ClaimFails,
                        Finish, Go, IdlePull, Registered
    <3>5. CASE ClientGone(p)
      <4>1. CASE pull[p].pc = "wait"
        BY <3>5, <4>1, <2>3 DEF ClientGone, LeaveFor, Registered
      <4>2. CASE pull[p].pc = "backoff"
        BY <3>5, <4>2, <2>2 DEF ClientGone, Finish, IdlePull, Registered
      <4> QED
        BY <3>5, <4>1, <4>2 DEF ClientGone
    <3>6. CASE Register(p)
      BY <3>6 DEF Register, Go, NoWaiterLeaks, Registered
    <3>7. CASE Leave(p)
      <4>1. /\ ~Registered(p)'
            /\ \A q \in Pulls \ {p} : pull'[q] = pull[q]
        BY <3>7 DEF Leave, Finish, Go, IdlePull, Registered, Branch
      <4>2. waiters' = [waiters EXCEPT ![pull[p].agent] = @ \ {p}]
        BY <3>7 DEF Leave, Cancel
      <4> QED
        BY <4>1, <4>2 DEF NoWaiterLeaks, Registered
    <3> QED
      BY <2>4, <3>1, <3>2, <3>3, <3>4, <3>5, <3>6, <3>7 DEF PullStep, Run
  <2> QED
    BY <2>1, <2>4 DEF Next, PullStep, vars, Notify, Enqueue, EnqueueUnanswered
<1> QED
  BY <1>1, <1>2, TypeCorrect, PTL DEF Spec

-----------------------------------------------------------------------------
(* While the store does not fail, no wakeup is lost: a pull goes to wait   *)
(* only when the queue is empty, a queue gets a message only from a        *)
(* producer that still has to notify, and the notification reaches every   *)
(* pull that waits because every pull that waits is registered.            *)
THEOREM WakeupsAreKept == Spec => []NoLostWakeup
<1>1. Init => NoLostWakeup
  BY DEF Init, NoLostWakeup, IdlePull
<1>2. TypeOK /\ NoWaiterLeaks /\ NoLostWakeup /\ [Next]_vars => NoLostWakeup'
  <2> SUFFICES ASSUME TypeOK, NoWaiterLeaks, NoLostWakeup, [Next]_vars
               PROVE  NoLostWakeup'
    BY DEF NoLostWakeup
  <2> USE DEF TypeOK
  (* A step of a pull that adds nothing to a queue that does not fail,     *)
  (* takes no signal but its own, and does not leave the pull waiting.     *)
  <2>1. ASSUME NEW p \in Pulls, pull'[p].pc # "wait",
               \A q \in Pulls \ {p} : pull'[q] = pull[q],
               \A a \in Agents \ Flaky : queue'[a] \in Nat /\ queue'[a] <= queue[a],
               signalled \ {p} \subseteq signalled', UNCHANGED pending
        PROVE  NoLostWakeup'
    <3> SUFFICES ASSUME NEW q \in Pulls, pull'[q].pc = "wait", q \notin signalled',
                        queue'[pull'[q].agent] > 0, pull'[q].agent \notin Flaky
                 PROVE  \E b \in Producers : pending'[b] = pull'[q].agent
      BY DEF NoLostWakeup
    <3>1. q # p /\ pull'[q] = pull[q] /\ q \notin signalled
      BY <2>1
    <3>2. pull[q].agent \in Agents \ Flaky
      BY <3>1
    <3>3. queue[pull[q].agent] > 0
      BY <2>1, <3>1, <3>2
    <3>4. PICK b \in Producers : pending[b] = pull[q].agent
      BY <3>1, <3>3 DEF NoLostWakeup
    <3> QED
      BY <2>1, <3>1, <3>4
  <2>2. ASSUME NEW p \in Pulls, PullStep(p) PROVE NoLostWakeup'
    <3>1. ASSUME NEW a \in Agents, StartPull(p, a) PROVE NoLostWakeup'
      BY <3>1, <2>1 DEF StartPull
    <3>2. CASE Deadline(p)
      BY <3>2 DEF Deadline, NoLostWakeup
    <3>3. CASE TimerFires(p) \/ RecheckTakes(p) \/ Woken(p)
      BY <3>3, <2>1 DEF TimerFires, RecheckTakes, Woken, Take, LeaveFor
    <3>4. CASE Backoff(p) \/ PollTakes(p) \/ PollEmpty(p) \/ Claim(p)
      BY <3>4, <2>1 DEF Backoff, PollTakes, PollEmpty, Claim, Take,
                        Finish, Go, IdlePull
    <3>5. CASE ClientGone(p)
      BY <3>5, <2>1 DEF ClientGone, LeaveFor, Finish, IdlePull
    <3>6. CASE Register(p)
      BY <3>6, <2>1 DEF Register, Go
    <3>7. CASE Leave(p)
      BY <3>7, <2>1 DEF Leave, Finish, Go, IdlePull, Branch
    <3>8. CASE RecheckEmpty(p)
      BY <3>8 DEF RecheckEmpty, Go, NoLostWakeup
    <3>9. CASE PollFails(p)
      BY <3>9, <2>1 DEF PollFails, DequeueFails, Take, Finish, Go, IdlePull
    <3>10. CASE RecheckFails(p)
      BY <3>10, <2>1 DEF RecheckFails, DequeueFails, Take, LeaveFor
    <3>11. CASE ClaimFails(p)
      BY <3>11, <2>1 DEF ClaimFails, Queued, Finish, IdlePull
    <3> QED
      BY <2>2, <3>1, <3>2, <3>3, <3>4, <3>5, <3>6, <3>7, <3>8, <3>9, <3>10, <3>11
         DEF PullStep, Run
  <2>3. ASSUME NEW b \in Producers, Notify(b) PROVE NoLostWakeup'
    <3> SUFFICES ASSUME NEW q \in Pulls, pull[q].pc = "wait", q \notin signalled',
                        queue[pull[q].agent] > 0, pull[q].agent \notin Flaky
                 PROVE  \E c \in Producers : pending'[c] = pull[q].agent
      BY <2>3 DEF NoLostWakeup, Notify
    <3>1. q \in waiters[pull[q].agent]
      BY DEF NoWaiterLeaks, Registered
    <3>2. q \notin signalled /\ pending[b] # pull[q].agent
      BY <2>3, <3>1 DEF Notify
    <3>3. PICK c \in Producers : pending[c] = pull[q].agent
      BY <3>2 DEF NoLostWakeup
    <3> QED
      BY <2>3, <3>2, <3>3 DEF Notify
  <2>4. ASSUME NEW b \in Producers, NEW a \in Agents, Enqueue(b, a)
        PROVE  NoLostWakeup'
    <3> SUFFICES ASSUME NEW q \in Pulls, pull[q].pc = "wait", q \notin signalled,
                        queue'[pull[q].agent] > 0, pull[q].agent \notin Flaky
                 PROVE  \E c \in Producers : pending'[c] = pull[q].agent
      BY <2>4 DEF NoLostWakeup, Enqueue
    <3>1. CASE pull[q].agent = a
      BY <2>4, <3>1 DEF Enqueue
    <3>2. CASE pull[q].agent # a
      <4>1. queue[pull[q].agent] > 0
        BY <2>4, <3>2 DEF Enqueue, Queued
      <4>2. PICK c \in Producers : pending[c] = pull[q].agent
        BY <4>1 DEF NoLostWakeup
      <4> QED
        BY <2>4, <4>2, <3>2 DEF Enqueue
    <3> QED
      BY <3>1, <3>2
  <2>5. CASE UNCHANGED vars
    BY <2>5 DEF vars, NoLostWakeup
  <2>6. ASSUME NEW a \in Agents, EnqueueUnanswered(a) PROVE NoLostWakeup'
    BY <2>6 DEF EnqueueUnanswered, Queued, NoLostWakeup
  <2> QED
    BY <2>2, <2>3, <2>4, <2>5, <2>6 DEF Next, PullStep
<1> QED
  BY <1>1, <1>2, TypeCorrect, ChannelsAreReturned, PTL DEF Spec
=============================================================================
