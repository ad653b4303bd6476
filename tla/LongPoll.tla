------------------------------ MODULE LongPoll ------------------------------
(***************************************************************************)
(* How a pull waits for a message (api/handlers_messages.go, pullForAgent) *)
(* on the waiters of longpoll/waiters.go.  A pull looks at the queue; if   *)
(* it is empty it registers a channel, looks again, and only then waits    *)
(* for a notification, for the recheck timer or for its client to leave.   *)
(* A producer is a handler that queues a message (publish, dispatch, nack, *)
(* the requeue of expired leases, an inbound federated message) and, in a  *)
(* second step, notifies the receiver's waiters.                           *)
(*                                                                         *)
(* A queue is only the number of its messages: which message a pull gets,  *)
(* its record and its lease are MessageDelivery's.                         *)
(***************************************************************************)
EXTENDS Naturals

CONSTANTS
  Agents,       \* agents that receive messages
  Pulls,        \* goroutines that serve pulls (HTTP requests, WebSocket loops)
  Producers,    \* goroutines that queue messages
  Flaky,        \* agents whose queue and records may fail to answer (S3)
  MaxQueued,    \* bound: messages a queue holds
  Nil           \* no agent

ASSUME FlakyAssumption == Flaky \subseteq Agents
ASSUME BoundAssumption == MaxQueued \in Nat
ASSUME NilAssumption   == Nil \notin Agents

VARIABLES
  queue,       \* agent -> how many messages are queued for it
  waiters,     \* agent -> pulls whose channel is registered (byAgent)
  signalled,   \* pulls whose channel, of capacity one, is full
  pull,        \* pull -> the request it serves and how far it is
  due,         \* pulls whose deadline has passed
  pending      \* producer -> agent it queued for and has not notified yet

vars == <<queue, waiters, signalled, pull, due, pending>>

(* A pull in "leave" is about to cancel its registration; "after" is where *)
(* the branch it is in continues.                                          *)
Branch   == {"poll", "timedOut", "claim", "backoff", "idle"}
PC       == Branch \cup {"register", "recheck", "wait", "leave"}
IdlePull == [pc |-> "idle", agent |-> Nil, after |-> "idle"]

Go(p, pc)       == pull' = [pull EXCEPT ![p].pc = pc]
LeaveFor(p, br) == pull' = [pull EXCEPT ![p].pc = "leave", ![p].after = br]
Finish(p)       == /\ pull' = [pull EXCEPT ![p] = IdlePull]
                   /\ due' = due \ {p}

Init ==
  /\ queue = [a \in Agents |-> 0]
  /\ waiters = [a \in Agents |-> {}]
  /\ signalled = {}
  /\ pull = [p \in Pulls |-> IdlePull]
  /\ due = {}
  /\ pending = [b \in Producers |-> Nil]

-----------------------------------------------------------------------------
(* Time and clients.                                                       *)

(* A pull comes in; one with timeout_ms = 0 has no time to wait.           *)
StartPull(p, a) ==
  /\ pull[p].pc = "idle"
  /\ pull' = [pull EXCEPT ![p] = [pc |-> "poll", agent |-> a, after |-> "idle"]]
  /\ due' \in {due, due \cup {p}}
  /\ UNCHANGED <<queue, waiters, signalled, pending>>

Deadline(p) ==
  /\ pull[p].pc # "idle" /\ p \notin due
  /\ due' = due \cup {p}
  /\ UNCHANGED <<queue, waiters, signalled, pull, pending>>

-----------------------------------------------------------------------------
(* The loop of pullForAgent.                                               *)

Take(a) == queue[a] > 0 /\ queue' = [queue EXCEPT ![a] = @ - 1]

(* The first look: a message is claimed; without one a pull out of time is *)
(* answered 204, and any other goes on to register.                        *)
PollTakes(p) ==
  /\ pull[p].pc = "poll" /\ Take(pull[p].agent)
  /\ Go(p, "claim")
  /\ UNCHANGED <<waiters, signalled, due, pending>>

PollEmpty_NoDeadline(p) ==   \* mutant: only the timer's branch looks at the time
  /\ pull[p].pc = "poll" /\ queue[pull[p].agent] = 0
  /\ Go(p, "register")
  /\ UNCHANGED <<queue, waiters, signalled, due, pending>>

PollEmpty(p) ==
  /\ pull[p].pc = "poll" /\ queue[pull[p].agent] = 0
  /\ IF p \in due THEN Finish(p) ELSE Go(p, "register") /\ UNCHANGED due
  /\ UNCHANGED <<queue, waiters, signalled, pending>>

(* A failed dequeue.  The store may have removed the message already.  In  *)
(* time, a transient error is retried; any other is answered.              *)
DequeueFails(a) == a \in Flaky /\ (UNCHANGED queue \/ Take(a))

PollFails(p) ==
  /\ pull[p].pc = "poll" /\ DequeueFails(pull[p].agent)
  /\ \/ p \notin due /\ Go(p, "backoff") /\ UNCHANGED due
     \/ Finish(p)
  /\ UNCHANGED <<waiters, signalled, pending>>

Register_NoRecheck(p) ==   \* mutant: waits without a second look
  /\ pull[p].pc = "register"
  /\ waiters' = [waiters EXCEPT ![pull[p].agent] = @ \cup {p}]
  /\ signalled' = signalled \ {p}
  /\ Go(p, "wait")
  /\ UNCHANGED <<queue, due, pending>>

(* Register: a fresh channel, so that a signal sent to an earlier one is   *)
(* never seen.                                                             *)
Register(p) ==
  /\ pull[p].pc = "register"
  /\ waiters' = [waiters EXCEPT ![pull[p].agent] = @ \cup {p}]
  /\ signalled' = signalled \ {p}
  /\ Go(p, "recheck")
  /\ UNCHANGED <<queue, due, pending>>

(* The second look, with the channel registered.                           *)
RecheckTakes(p) ==
  /\ pull[p].pc = "recheck" /\ Take(pull[p].agent)
  /\ LeaveFor(p, "claim")
  /\ UNCHANGED <<waiters, signalled, due, pending>>

RecheckEmpty(p) ==
  /\ pull[p].pc = "recheck" /\ queue[pull[p].agent] = 0
  /\ Go(p, "wait")
  /\ UNCHANGED <<queue, waiters, signalled, due, pending>>

RecheckFails(p) ==
  /\ pull[p].pc = "recheck" /\ DequeueFails(pull[p].agent)
  /\ \/ p \notin due /\ LeaveFor(p, "backoff")
     \/ LeaveFor(p, "idle")
  /\ UNCHANGED <<waiters, signalled, due, pending>>

(* The select: a signal, the timer (one second, or what is left of the     *)
(* timeout), or the end of the client's request.                           *)
Woken(p) ==
  /\ pull[p].pc = "wait" /\ p \in signalled
  /\ signalled' = signalled \ {p}
  /\ LeaveFor(p, "poll")
  /\ UNCHANGED <<queue, waiters, due, pending>>

TimerFires(p) ==
  /\ pull[p].pc = "wait"
  /\ LeaveFor(p, "timedOut")
  /\ UNCHANGED <<queue, waiters, signalled, due, pending>>

ClientGone(p) ==
  /\ \/ pull[p].pc = "wait" /\ LeaveFor(p, "idle") /\ UNCHANGED due
     \/ pull[p].pc = "backoff" /\ Finish(p)
  /\ UNCHANGED <<queue, waiters, signalled, pending>>

Cancel_NotOnClaim(p) ==   \* mutant: the branch that found a message forgets it
  IF pull[p].after = "claim" THEN UNCHANGED waiters
  ELSE waiters' = [waiters EXCEPT ![pull[p].agent] = @ \ {p}]

(* Every branch cancels the registration before it goes on; after the      *)
(* timer, a pull out of time is answered 204.                              *)
Cancel(p) == waiters' = [waiters EXCEPT ![pull[p].agent] = @ \ {p}]

Leave(p) ==
  /\ pull[p].pc = "leave"
  /\ Cancel(p)
  /\ LET br == pull[p].after
     IN IF br = "idle" \/ (br = "timedOut" /\ p \in due)
        THEN Finish(p)
        ELSE Go(p, IF br = "timedOut" THEN "poll" ELSE br) /\ UNCHANGED due
  /\ UNCHANGED <<queue, signalled, pending>>

(* waitForTransientDequeueRetry.                                           *)
Backoff(p) ==
  /\ pull[p].pc = "backoff"
  /\ IF p \in due THEN Finish(p) ELSE Go(p, "poll") /\ UNCHANGED due
  /\ UNCHANGED <<queue, waiters, signalled, pending>>

(* claimMessageForAgent.  A message that cannot be leased is put back,     *)
(* which may fail too; nobody is notified of it.                           *)
Claim(p) ==
  /\ pull[p].pc = "claim"
  /\ Finish(p)
  /\ UNCHANGED <<queue, waiters, signalled, pending>>

Queued(a) == queue[a] < MaxQueued /\ queue' = [queue EXCEPT ![a] = @ + 1]

ClaimFails(p) ==
  /\ pull[p].pc = "claim" /\ pull[p].agent \in Flaky
  /\ UNCHANGED queue \/ Queued(pull[p].agent)
  /\ Finish(p)
  /\ UNCHANGED <<waiters, signalled, pending>>

-----------------------------------------------------------------------------
(* Producers.                                                              *)
Enqueue(b, a) ==
  /\ pending[b] = Nil /\ Queued(a)
  /\ pending' = [pending EXCEPT ![b] = a]
  /\ UNCHANGED <<waiters, signalled, pull, due>>

(* A put whose answer is lost: the handler fails and notifies nobody.      *)
EnqueueUnanswered(a) ==
  /\ a \in Flaky /\ Queued(a)
  /\ UNCHANGED <<waiters, signalled, pull, due, pending>>

Notify_One(b) ==   \* mutant: one waiter is signalled, perhaps one that is leaving
  /\ pending[b] # Nil
  /\ IF waiters[pending[b]] = {} THEN UNCHANGED signalled
     ELSE \E p \in waiters[pending[b]] : signalled' = signalled \cup {p}
  /\ pending' = [pending EXCEPT ![b] = Nil]
  /\ UNCHANGED <<queue, waiters, pull, due>>

(* Notify: a signal to every registered channel that is not full.          *)
Notify(b) ==
  /\ pending[b] # Nil
  /\ signalled' = signalled \cup waiters[pending[b]]
  /\ pending' = [pending EXCEPT ![b] = Nil]
  /\ UNCHANGED <<queue, waiters, pull, due>>

-----------------------------------------------------------------------------
(* What a pull's goroutine does by itself, time apart.                     *)
Run(p) == \/ PollTakes(p) \/ PollEmpty(p) \/ PollFails(p)
          \/ Register(p)
          \/ RecheckTakes(p) \/ RecheckEmpty(p) \/ RecheckFails(p)
          \/ Woken(p) \/ Leave(p)
          \/ Claim(p) \/ ClaimFails(p)

Next ==
  \/ \E p \in Pulls : \/ \E a \in Agents : StartPull(p, a)
                      \/ Deadline(p) \/ TimerFires(p) \/ Backoff(p)
                      \/ ClientGone(p) \/ Run(p)
  \/ \E b \in Producers : Notify(b) \/ \E a \in Agents : Enqueue(b, a)
  \/ \E a \in Agents : EnqueueUnanswered(a)

Spec == Init /\ [][Next]_vars

(* Goroutines run: a started handler takes its next step.  Nothing is      *)
(* assumed of the clock or of the clients.                                 *)
FairSpec == /\ Spec
            /\ \A p \in Pulls : WF_vars(Run(p))
            /\ \A b \in Producers : WF_vars(Notify(b))

(* Time passes: deadlines come and timers fire.                            *)
TimePasses == \A p \in Pulls : WF_vars(Deadline(p)) /\ WF_vars(TimerFires(p))
                                 /\ WF_vars(Backoff(p))

-----------------------------------------------------------------------------
TypeOK ==
  /\ queue \in [Agents -> 0..MaxQueued]
  /\ waiters \in [Agents -> SUBSET Pulls]
  /\ signalled \subseteq Pulls
  /\ pull \in [Pulls -> [pc : PC, agent : Agents \cup {Nil}, after : Branch]]
  /\ \A p \in Pulls : pull[p].agent = Nil <=> pull[p].pc = "idle"
  /\ due \subseteq Pulls
  /\ pending \in [Producers -> Agents \cup {Nil}]

(* The table of waiters holds the channels of the pulls between Register   *)
(* and cancel and no other: every way out of the select and of the second  *)
(* look gives its channel back, so that the table does not grow with the   *)
(* requests served (waiters.go, Register and cancel; pullForAgent).        *)
Registered(p) == pull[p].pc \in {"recheck", "wait", "leave"}

NoWaiterLeaks ==
  \A a \in Agents :
    waiters[a] = {p \in Pulls : pull[p].agent = a /\ Registered(p)}

(* No wakeup is lost: when a pull waits although its agent's queue holds a *)
(* message, it has a signal to read or a producer is between Enqueue and   *)
(* Notify for that agent.  It is why pullForAgent looks at the queue again *)
(* once its channel is registered.  Only a store that does not fail        *)
(* promises it: a message put back by a failed claim, and one whose put    *)
(* was not answered, are announced to nobody.                              *)
NoLostWakeup ==
  \A p \in Pulls :
    (/\ pull[p].pc = "wait" /\ pull[p].agent \notin Flaky
     /\ queue[pull[p].agent] > 0 /\ p \notin signalled)
      => \E b \in Producers : pending[b] = pull[p].agent

(* Without the timer's help, a pull does not stay waiting while its        *)
(* agent's queue holds a message: it is woken, or another pull of that     *)
(* agent takes the last one (pullForAgent with Notify).                    *)
WaiterIsServed ==
  \A p \in Pulls, a \in Agents \ Flaky :
    (pull[p].pc = "wait" /\ pull[p].agent = a /\ queue[a] > 0)
      ~> (pull[p].pc # "wait" \/ queue[a] = 0)

(* Every pull is answered, however often other pulls take the message it   *)
(* was woken for and however often the queue fails: once its deadline has  *)
(* passed no branch of the loop waits again.  This takes the clock.        *)
EveryPullEnds ==
  TimePasses => \A p \in Pulls : pull[p].pc # "idle" ~> pull[p].pc = "idle"

=============================================================================
