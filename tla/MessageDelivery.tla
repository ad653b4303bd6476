--------------------------- MODULE MessageDelivery ---------------------------
(***************************************************************************)
(* Publish, pull, ack and nack, the handlers of api/handlers_messages.go,  *)
(* and the dispatch of a human's task to an agent, over the store calls of *)
(* MessageStore, with the memory queue and state backend.  A worker is a   *)
(* goroutine serving one request; its request is a few store calls, each   *)
(* atomic under the store's lock, and anything may happen between two of   *)
(* them: calls of other requests, the expiry of a lease, the removal of an *)
(* agent.                                                                  *)
(*                                                                         *)
(* Left to other modules: the trust check of a publish (a publish that     *)
(* finds no trust path is Refuse here) and the waiting of a long poll (a   *)
(* pull that finds the queue empty stays at Dequeue or gives up).          *)
(***************************************************************************)
EXTENDS MessageStore

CONSTANTS
  Workers,      \* goroutines serving requests
  Removals,     \* the sets of agents one administrator call may remove
  Served,       \* bound: the requests clients make
  MaxAttempts   \* bound: a lease of this attempt is neither lost nor nacked

ASSUME RemovalsAssumption == Removals \subseteq SUBSET Agents
ASSUME BoundAssumption    == MaxAttempts \in Nat

VARIABLES
  job,         \* worker -> the request it serves and how far it is
  accepted,    \* history: messages whose publisher was answered "accepted"
  lost         \* history: messages that left the hub without being acked

vars == <<storeVars, job, accepted, lost>>

Calls    == {"publish", "dispatch", "pull", "ack", "nack"}
PC       == Calls \cup {"idle", "register", "enqueue", "abort", "count",
                        "requeue", "dequeue", "lease", "putBack"}
Job      == [pc : PC, agent : Agents \cup {Nil}, msg : Msgs \cup {Nil},
             batch : SUBSET Delivery]
IdleJob  == [pc |-> "idle", agent |-> Nil, msg |-> Nil, batch |-> {}]

At(w, pc)      == job[w].pc = pc
Go(w, pc)      == job' = [job EXCEPT ![w].pc = pc]
Hold(w, pc, m) == job' = [job EXCEPT ![w].pc = pc, ![w].msg = m]
Finish(w)      == job' = [job EXCEPT ![w] = IdleJob]

Init ==
  /\ StoreInit
  /\ job = [w \in Workers |-> IdleJob]
  /\ accepted = {}
  /\ lost = {}

-----------------------------------------------------------------------------
(* Every request starts by authenticating its bearer token; a dispatch     *)
(* authenticates a human and loads the agent.                              *)
Authenticate(w, a, call) ==
  /\ At(w, "idle")
  /\ call \in Served
  /\ a \in active
  /\ job' = [job EXCEPT ![w] = [IdleJob EXCEPT !.pc = call, !.agent = a]]
  /\ UNCHANGED <<storeVars, accepted, lost>>

(* An error answer that changes nothing: a request that does not validate, *)
(* a sender or receiver unknown by now, no trust path, a delivery id that  *)
(* is not active or belongs to another agent.                              *)
Refuse(w) ==
  /\ job[w].pc \in {"publish", "dispatch", "ack", "nack"}
  /\ Finish(w)
  /\ UNCHANGED <<storeVars, accepted, lost>>

-----------------------------------------------------------------------------
(* publishFromAgent, dispatchTaskToOwnedAgent *)

IsNextId(m) == /\ env[m] = NoEnvelope
               /\ \A n \in Msgs : n < m => env[n] # NoEnvelope

(* A publish looks its sender and receiver up and is allowed; a dispatch   *)
(* addresses the agent to itself, and does not look it up again.           *)
MayAddress(w, to) ==
  \/ At(w, "publish") /\ {job[w].agent, to} \subseteq active /\ to # job[w].agent
  \/ At(w, "dispatch") /\ to = job[w].agent

Authorize(w, m, to, key) ==
  /\ MayAddress(w, to)
  /\ IsNextId(m)
  /\ env' = [env EXCEPT ![m] = [from |-> job[w].agent, to |-> to, key |-> key]]
  /\ Hold(w, "register", m)
  /\ UNCHANGED <<active, records, byClient, queues, deliveries, overdue,
                 metrics, stats, accepted, lost>>

RegisterReplay(w) ==
  /\ At(w, "register")
  /\ ReplayOf(job[w].msg) # Nil
  /\ CountReplay(job[w].msg)
  /\ accepted' = accepted \cup {ReplayOf(job[w].msg)}
  /\ Finish(w)
  /\ UNCHANGED <<active, env, lost>>

Register(w) ==
  /\ At(w, "register")
  /\ ReplayOf(job[w].msg) = Nil
  /\ CreateRecord(job[w].msg)
  /\ Go(w, "enqueue")
  /\ UNCHANGED <<active, env, accepted, lost>>

PublishEnqueue(w) ==
  /\ At(w, "enqueue")
  /\ CanEnqueue(job[w].msg)
  /\ Enqueue(job[w].msg)
  /\ Go(w, "count")
  /\ UNCHANGED <<active, env, accepted, lost>>

PublishEnqueueFails(w) ==
  /\ At(w, "enqueue")
  /\ ~CanEnqueue(job[w].msg)
  /\ Go(w, "abort")
  /\ UNCHANGED <<storeVars, accepted, lost>>

Abort(w) ==
  /\ At(w, "abort")
  /\ AbortRecord(job[w].msg)
  /\ lost' = lost \cup {job[w].msg}
  /\ Finish(w)
  /\ UNCHANGED <<active, env, accepted>>

CountQueued(w) ==
  /\ At(w, "count")
  /\ stats' = [stats EXCEPT !.queued = @ + 1]
  /\ accepted' = accepted \cup {job[w].msg}
  /\ Finish(w)
  /\ UNCHANGED <<active, env, records, byClient, queues, deliveries, overdue,
                 metrics, lost>>

-----------------------------------------------------------------------------
(* pullForAgent: take back the overdue leases, then dequeue and lease. *)

Sweep_NoRequeue(w) ==   \* mutant: the expired messages are not put back
  /\ At(w, "pull")
  /\ ExpireLeases
  /\ Go(w, "dequeue")
  /\ UNCHANGED <<active, env, accepted, lost>>

Sweep_NoExpiry(w) ==   \* mutant: a pull does not take back leases
  /\ At(w, "pull")
  /\ Go(w, "dequeue")
  /\ UNCHANGED <<storeVars, accepted, lost>>

Sweep(w) ==
  /\ At(w, "pull")
  /\ ExpireLeases
  /\ job' = [job EXCEPT ![w] = [@ EXCEPT !.batch = overdue,
                     !.pc = IF overdue = {} THEN "dequeue" ELSE "requeue"]]
  /\ UNCHANGED <<active, env, accepted, lost>>

(* The batch is in delivery-id order, and delivery ids are random. *)
Requeue(w, d) ==
  /\ At(w, "requeue")
  /\ d \in job[w].batch
  /\ CanEnqueue(d.msg)
  /\ Enqueue(d.msg)
  /\ job' = [job EXCEPT ![w] = [@ EXCEPT !.batch = job[w].batch \ {d},
                     !.pc = IF job[w].batch = {d} THEN "dequeue" ELSE "requeue"]]
  /\ UNCHANGED <<active, env, accepted, lost>>

RequeueFails_Anytime(w, d) ==   \* mutant: every enqueue may fail
  /\ At(w, "requeue")
  /\ d \in job[w].batch
  /\ lost' = lost \cup {e.msg : e \in job[w].batch}
  /\ job' = [job EXCEPT ![w] = [@ EXCEPT !.batch = {}, !.pc = "dequeue"]]
  /\ UNCHANGED <<storeVars, accepted>>

(* The first message that cannot be put back ends the loop: those after it *)
(* in the batch go with it.                                                *)
RequeueFails(w, d) ==
  /\ At(w, "requeue")
  /\ d \in job[w].batch
  /\ ~CanEnqueue(d.msg)
  /\ lost' = lost \cup {e.msg : e \in job[w].batch}
  /\ job' = [job EXCEPT ![w] = [@ EXCEPT !.batch = {}, !.pc = "dequeue"]]
  /\ UNCHANGED <<storeVars, accepted>>

Dequeue(w, e) ==
  /\ At(w, "dequeue")
  /\ DequeueEntry(job[w].agent, e)
  /\ Hold(w, "lease", e.msg)
  /\ UNCHANGED <<active, env, accepted, lost>>

(* The queue is empty and the time is up or the client has gone. *)
GiveUp(w) ==
  /\ At(w, "dequeue")
  /\ queues[job[w].agent].entries = {}
  /\ Finish(w)
  /\ UNCHANGED <<storeVars, accepted, lost>>

(* ClaimNeverFails below is why there is no failing branch. *)
Claim(w) ==
  /\ At(w, "lease")
  /\ CanLease(job[w].msg, job[w].agent)
  /\ LeaseMessage(job[w].msg, job[w].agent)
  /\ Finish(w)
  /\ UNCHANGED <<active, env, accepted, lost>>

-----------------------------------------------------------------------------
(* ackDeliveryForAgent, nackDeliveryForAgent *)

Owns(w, d) == d \in deliveries /\ d.agent = job[w].agent

Ack(w, d) ==
  /\ At(w, "ack")
  /\ Owns(w, d)
  /\ AckDelivery(d)
  /\ Finish(w)
  /\ UNCHANGED <<active, env, accepted, lost>>

Nack(w, d) ==
  /\ At(w, "nack")
  /\ Owns(w, d)
  /\ d.attempt < MaxAttempts
  /\ ReleaseDelivery(d)
  /\ Hold(w, "putBack", d.msg)
  /\ UNCHANGED <<active, env, accepted, lost>>

PutBack(w) ==
  /\ At(w, "putBack")
  /\ CanEnqueue(job[w].msg)
  /\ Enqueue(job[w].msg)
  /\ Finish(w)
  /\ UNCHANGED <<active, env, accepted, lost>>

PutBackFails(w) ==
  /\ At(w, "putBack")
  /\ ~CanEnqueue(job[w].msg)
  /\ lost' = lost \cup {job[w].msg}
  /\ Finish(w)
  /\ UNCHANGED <<storeVars, accepted>>

-----------------------------------------------------------------------------
(* The environment: time passes, administrators remove agents. *)

LeaseElapses(d) ==
  /\ d \in deliveries \ overdue
  /\ d.attempt < MaxAttempts
  /\ overdue' = overdue \cup {d}
  /\ UNCHANGED <<active, env, records, byClient, queues, deliveries, metrics,
                 stats, job, accepted, lost>>

RemoveAgents(gone) ==
  /\ gone \in Removals
  /\ gone \cap active # {}
  /\ PurgeAgents(gone)
  /\ lost' = lost \cup Purged(gone)
  /\ UNCHANGED <<job, accepted>>

-----------------------------------------------------------------------------
(* What worker w does next in the request it is serving. *)
Step(w) ==
  \/ Refuse(w)
  \/ RegisterReplay(w)
  \/ Register(w)
  \/ PublishEnqueue(w)
  \/ PublishEnqueueFails(w)
  \/ Abort(w)
  \/ CountQueued(w)
  \/ Sweep(w)
  \/ \E d \in job[w].batch : Requeue(w, d) \/ RequeueFails(w, d)
  \/ \E e \in UNION {queues[a].entries : a \in Agents} : Dequeue(w, e)
  \/ GiveUp(w)
  \/ Claim(w)
  \/ \E d \in deliveries : Ack(w, d) \/ Nack(w, d)
  \/ PutBack(w)
  \/ PutBackFails(w)

Next ==
  \/ \E w \in Workers :
       \/ \E a \in Agents, call \in Calls : Authenticate(w, a, call)
       \/ \E m \in Msgs, to \in Agents, key \in Keys \cup {Nil} :
            Authorize(w, m, to, key)
       \/ Step(w)
  \/ \E d \in deliveries : LeaseElapses(d)
  \/ \E gone \in Removals : RemoveAgents(gone)

Spec == Init /\ [][Next]_vars

-----------------------------------------------------------------------------
(* Safety *)

(* The store, the requests in flight and the histories keep their types. *)
TypeOK ==
  /\ StoreTypeOK
  /\ job \in [Workers -> Job]
  /\ accepted \subseteq Msgs
  /\ lost \subseteq Msgs

(* Where a registered message is: in a slot of a queue, in the hands of a  *)
(* goroutine that has not queued or leased it yet, in the batch of expired *)
(* leases a goroutine is putting back, or out on a lease.                  *)
HandPC == {"enqueue", "abort", "lease", "putBack"}

InQueue(m) == {c \in QueuedCopies(queues) : c[2].msg = m}
InHand(m)  == {w \in Workers : job[w].pc \in HandPC /\ job[w].msg = m}
InBatch(m) == UNION {{<<w, d>> : d \in {b \in job[w].batch : b.msg = m}} :
                       w \in Workers}
OnLease(m) == {d \in deliveries : d.msg = m}

Custody(m) == ({"queue"} \X InQueue(m)) \cup ({"hand"}  \X InHand(m))
         \cup ({"batch"} \X InBatch(m)) \cup ({"lease"} \X OnLease(m))

(* A message is never in two places: no copy of it can be delivered while  *)
(* another is queued or leased, whatever expiries, acks and nacks race.    *)
SingleCustody == \A m \in Msgs : \A p, q \in Custody(m) : p = q

(* A registered message is somewhere until it is acked or lost, and an     *)
(* acked, lost or aborted message is nowhere: no step forgets a message,   *)
(* and nothing brings one back.                                            *)
Live(m) == Exists(m) /\ records[m].status # "acked" /\ m \notin lost

NothingForgotten == \A m \in Msgs : Live(m) <=> Custody(m) # {}

(* messageDeliveries and messageRecords agree: a record is leased exactly  *)
(* while one lease is out for it, that of its last attempt, held by the    *)
(* receiver; every attempt but a current or acked one was requeued.        *)
LeaseMatchesRecord ==
  /\ \A d \in deliveries :
       /\ records[d.msg].status = "leased"
       /\ records[d.msg].attempts = d.attempt
       /\ env[d.msg].to = d.agent
  /\ \A m \in Msgs : Exists(m) =>
       /\ records[m].status = "leased" => OnLease(m) # {}
       /\ records[m].attempts =
            records[m].requeues
            + (IF records[m].status \in {"leased", "acked"} THEN 1 ELSE 0)

(* The message a pull has dequeued still has its record, addressed to the  *)
(* puller, when it comes to be leased: LeaseMessage's error branches in    *)
(* claimMessageForAgent are never taken.                                   *)
ClaimNeverFails ==
  \A w \in Workers : At(w, "lease") => CanLease(job[w].msg, job[w].agent)

(* queueMetrics, updated call by call, is what a recomputation would give. *)
MetricsExact == metrics = ComputeMetrics(queues, deliveries)

(* The counters agree with the records they summarise; a message accepted  *)
(* and not yet counted as queued is in the hands of its publisher.         *)
Counting == {w \in Workers : At(w, "count")}

Registering == {w \in Workers : job[w].pc \in {"enqueue", "abort"}}

StatsMatch ==
  /\ stats.queued + Cardinality(Counting) + Cardinality(Registering)
       = Cardinality({m \in Msgs : Exists(m)})
  /\ stats.acked = Cardinality({m \in Msgs : records[m].status = "acked"})
  /\ stats.redelivered =
       Cardinality({c \in Msgs \X (2..MaxAttempts) :
                      c[2] <= records[c[1]].attempts})
  /\ stats.expired <= Cardinality({c \in Msgs \X (1..MaxAttempts) :
                                     c[2] <= records[c[1]].requeues})

(* client_msg_id is an idempotency key per sender: no two publishes of one *)
(* sender under one key are both registered, and the index finds the one   *)
(* that is.                                                                *)
OneRecordPerKey ==
  \A m \in Msgs : Exists(m) /\ env[m].key # Nil =>
    byClient[<<env[m].from, env[m].key>>] = m

(* The lifecycle of every message as its publisher and receiver may see    *)
(* it: the hub implements MessageLifecycle.                                *)
PhaseOf(m) ==
  CASE m \in lost                      -> "withdrawn"
    [] m \notin lost /\ ~Exists(m)     -> "none"
    [] m \notin lost /\ Exists(m)      ->
         [queued |-> "waiting", leased |-> "out", acked |-> "acked"]
           [records[m].status]

Lifecycle == INSTANCE MessageLifecycle
               WITH phase  <- [m \in Msgs |-> PhaseOf(m)],
                    handed <- [m \in Msgs |-> records[m].attempts]

ImplementsLifecycle == Lifecycle!LifecycleSpec

(* The hub loses messages only because agents are removed. *)
LossNeedsRemoval == lost # {} => active # Agents

(* A requeue after expiry puts every message of the batch back: one is     *)
(* only lost when its own sender or receiver has been removed.             *)
NoInnocentLoss == \A m \in lost : ~({env[m].from, env[m].to} \subseteq active)

-----------------------------------------------------------------------------
(* Liveness *)

(* Goroutines run, and every agent keeps polling: whenever it could start  *)
(* a pull again and again it starts one in the end.                        *)
StartPull(a) == \E w \in Workers : Authenticate(w, a, "pull")

Fairness ==
  /\ \A w \in Workers : WF_vars(Step(w))
  /\ \A a \in Agents : SF_vars(StartPull(a))

FairSpec == Spec /\ Fairness

(* A message whose publisher was told "accepted" reaches its receiver. *)
AcceptedIsDelivered ==
  \A m \in Msgs : m \in accepted ~> records[m].attempts > 0

(* A lease whose time has passed does not stay out. *)
OverdueIsTakenBack ==
  \A m \in Msgs : OnLease(m) \cap overdue # {} ~> OnLease(m) \cap overdue = {}

=============================================================================
