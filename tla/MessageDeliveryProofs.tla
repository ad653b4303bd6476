----------------------- MODULE MessageDeliveryProofs -----------------------
(***************************************************************************)
(* Types and custody of messages, for every set of agents, messages, keys  *)
(* and workers: a message is in one place at most, is somewhere exactly    *)
(* while it is live, its record and its leases agree, and a pull can       *)
(* always lease what it dequeued.                                          *)
(*                                                                         *)
(* The metrics hold cardinalities and a least element, so their types rest *)
(* on the queues and the leases being finite sets, and on every queue slot *)
(* lying below the index of the next append.                               *)
(*                                                                         *)
(* For custody, the argument follows the places of a message.  Every step  *)
(* either leaves the custody of every message alone, moves one message     *)
(* from its place to another, takes away the place of a message that ends, *)
(* or gives one to a message just registered; the sweep of overdue leases  *)
(* moves several at once.  What a step does to Custody is shown first;     *)
(* that SingleCustody and NothingForgotten survive it then follows from    *)
(* the effect alone.                                                       *)
(***************************************************************************)
EXTENDS MessageDelivery, TLAPS, FiniteSetTheorems, WellFoundedInduction

(* What TypeOK needs besides itself to be preserved by every step. *)
Finite == IsFiniteSet(QueuedCopies(queues)) /\ IsFiniteSet(deliveries)

Publishing == {"register", "enqueue", "abort"}
Carries    == Publishing \cup {"count", "lease", "putBack"}

JobShape ==
  \A w \in Workers :
    /\ job[w].pc \in Carries => job[w].msg \in Msgs
    /\ job[w].pc \in Publishing => env[job[w].msg] \in Envelope
    /\ job[w].pc # "idle" => job[w].agent \in Agents

TypeInv == TypeOK /\ Finite /\ JobShape

-----------------------------------------------------------------------------
(* Lemmas about the operators of the store. *)

(* A non-empty set of message ids has a least one. *)
LEMMA LeastExists ==
  ASSUME NEW S \in SUBSET Nat, S # {}
  PROVE  \E m \in S : \A n \in S : m <= n
<1>1. PICK m \in S : \A n \in S : ~(<<n, m>> \in OpToRel(<, Nat))
  BY WFMin, NatLessThanWellFounded
<1>2. ASSUME NEW n \in S, n < m PROVE <<n, m>> \in OpToRel(<, Nat)
  BY <1>2 DEF OpToRel
<1>3. \A n \in S : ~(n < m)
  BY <1>1, <1>2
<1> QED BY <1>3

(* The oldest queued message is a queued message, or none if there is none. *)
LEMMA OldestType ==
  ASSUME NEW qs \in [Agents -> Queue]
  PROVE  Oldest(qs) \in Msgs \cup {Nil}
<1>1. QueuedMsgs(qs) \subseteq Msgs
  BY DEF QueuedMsgs, Queue, Entry
<1>2. CASE QueuedMsgs(qs) = {}
  BY <1>2 DEF Oldest
<1>3. CASE QueuedMsgs(qs) # {}
  <2>1. \E m \in QueuedMsgs(qs) : \A n \in QueuedMsgs(qs) : m <= n
    BY <1>1, <1>3, LeastExists, MsgsAssumption
  <2> QED BY <1>1, <1>3, <2>1 DEF Oldest
<1> QED BY <1>2, <1>3

(* The copies in a set of queues, one by one. *)
LEMMA CopiesAre ==
  ASSUME NEW qs, NEW c
  PROVE  c \in QueuedCopies(qs) <=>
           \E a \in Agents : \E e \in qs[a].entries : c = <<a, e>>
BY DEF QueuedCopies

(* Appending a message adds one copy: the queues stay finite. *)
LEMMA EnqueueFinite ==
  ASSUME TypeInv, NEW m \in Msgs, env[m].to \in Agents, Enqueue(m)
  PROVE  IsFiniteSet(QueuedCopies(queues'))
<1> DEFINE e == [at |-> queues[env[m].to].next, msg |-> m]
<1>1. QueuedCopies(queues') \subseteq QueuedCopies(queues) \cup {<<env[m].to, e>>}
  <2>1. ASSUME NEW a \in Agents, NEW f \in queues'[a].entries
        PROVE  f \in queues[a].entries \/ (a = env[m].to /\ f = e)
    BY <2>1 DEF TypeInv, TypeOK, StoreTypeOK, Enqueue, Append1
  <2>2. ASSUME NEW c \in QueuedCopies(queues')
        PROVE  c \in QueuedCopies(queues) \cup {<<env[m].to, e>>}
    BY <2>1, <2>2, CopiesAre
  <2> QED BY <2>2
<1>2. IsFiniteSet(QueuedCopies(queues) \cup {<<env[m].to, e>>})
  BY FS_AddElement DEF TypeInv, Finite
<1> QED BY <1>1, <1>2, FS_Subset

(* Queues that only lose entries stay finite. *)
LEMMA ShrinkFinite ==
  ASSUME Finite, NEW qs,
         \A a \in Agents : qs[a].entries \subseteq queues[a].entries
  PROVE  IsFiniteSet(QueuedCopies(qs))
<1>1. QueuedCopies(qs) \subseteq QueuedCopies(queues)
  BY CopiesAre
<1> QED BY <1>1, FS_Subset DEF Finite

-----------------------------------------------------------------------------
(* Each store call keeps the types of the store. *)

(* The variables of the store a call may change, when the agents and the   *)
(* messages built so far stay.                                             *)
Fixed == UNCHANGED <<active, env>>

LEMMA EnqueueTypes ==
  ASSUME TypeInv, Fixed, NEW m \in Msgs, CanEnqueue(m), Enqueue(m)
  PROVE  StoreTypeOK' /\ Finite'
<1> USE DEF TypeInv, TypeOK, StoreTypeOK, Fixed
<1>1. env[m].to \in Agents
  BY DEF CanEnqueue
<1>2. queues' \in [Agents -> Queue]
  <2>1. Append1(queues[env[m].to], m) \in Queue
    BY <1>1 DEF Append1, Queue, Entry
  <2> QED BY <2>1 DEF Enqueue
<1>3. metrics' \in Metrics
  <2>1. metrics.oldest \in Msgs \cup {Nil} /\ metrics.available + 1 \in Nat
    BY DEF Metrics
  <2>2. metrics' \in [available : {metrics.available + 1}, leased : {metrics.leased},
                      oldest : {m, metrics.oldest}]
    BY DEF Enqueue, NoteQueuedAdded, Metrics
  <2> QED BY <2>1, <2>2 DEF Metrics
<1>4. Finite'
  BY <1>1, EnqueueFinite DEF Finite, Enqueue
<1> QED BY <1>2, <1>3, <1>4 DEF Enqueue

LEMMA DequeueTypes ==
  ASSUME TypeInv, Fixed, NEW a \in Agents, NEW e, DequeueEntry(a, e)
  PROVE  StoreTypeOK' /\ Finite' /\ e.msg \in Msgs
<1> USE DEF TypeInv, TypeOK, StoreTypeOK, Fixed
<1>1. queues' \in [Agents -> Queue]
  <2>1. Keep(queues[a], queues[a].entries \ {e}) \in Queue
    BY DEF Keep, Queue
  <2> QED BY <2>1 DEF DequeueEntry
<1>2. metrics' \in Metrics
  <2>1. Oldest(queues') \in Msgs \cup {Nil}
    BY <1>1, OldestType
  <2>2. Decrement(metrics.available) \in Nat
    BY DEF Decrement, Metrics
  <2>3. metrics' = [metrics EXCEPT !.available = Decrement(@),
                                   !.oldest = IF @ = e.msg THEN Oldest(queues') ELSE @]
    BY DEF DequeueEntry, NoteQueuedRemoved
  <2> QED BY <2>1, <2>2, <2>3 DEF Metrics
<1>3. \A b \in Agents : queues'[b].entries \subseteq queues[b].entries
  BY DEF DequeueEntry, Keep
<1>4. Finite'
  BY <1>3, ShrinkFinite DEF Finite, DequeueEntry
<1>5. e.msg \in Msgs
  BY DEF DequeueEntry, IsHead, Queue, Entry
<1> QED BY <1>1, <1>2, <1>4, <1>5 DEF DequeueEntry

LEMMA RecordTypes ==
  ASSUME TypeInv, Fixed, NEW m \in Msgs, env[m] \in Envelope,
         (CountReplay(m) /\ ReplayOf(m) # Nil) \/ CreateRecord(m) \/ AbortRecord(m)
  PROVE  StoreTypeOK' /\ Finite'
<1> USE DEF TypeInv, TypeOK, StoreTypeOK, Fixed, Finite, Envelope
<1>1. CASE CountReplay(m) /\ ReplayOf(m) # Nil
  <2>1. ReplayOf(m) \in Msgs /\ records[ReplayOf(m)] \in Record
    BY <1>1 DEF ReplayOf, Exists
  <2>2. records' \in [Msgs -> Record \cup {NoRecord}]
    BY <1>1, <2>1 DEF CountReplay, Record
  <2> QED BY <1>1, <2>2 DEF CountReplay, Stats
<1>2. CASE CreateRecord(m)
  BY <1>2 DEF CreateRecord, NewRecord, NoRecord, Record, Status
<1>3. CASE AbortRecord(m)
  BY <1>3 DEF AbortRecord
<1> QED BY <1>1, <1>2, <1>3

LEMMA LeaseTypes ==
  ASSUME TypeInv, Fixed, NEW m \in Msgs, NEW a \in Agents, LeaseMessage(m, a)
  PROVE  StoreTypeOK' /\ Finite'
<1> USE DEF TypeInv, TypeOK, StoreTypeOK, Fixed
<1>1. records[m].attempts \in Nat
  BY DEF Record, NoRecord
<1>2. records' \in [Msgs -> Record \cup {NoRecord}]
  BY <1>1 DEF LeaseMessage, Record, NoRecord, Status
<1>3. deliveries' \subseteq Delivery
  BY <1>1 DEF LeaseMessage, NextDelivery, Delivery
<1>4. metrics' \in Metrics /\ stats' \in Stats
  BY DEF LeaseMessage, NoteDeliveryAdded, Metrics, Stats
<1>5. Finite'
  BY FS_AddElement DEF LeaseMessage, Finite
<1> QED BY <1>2, <1>3, <1>4, <1>5 DEF LeaseMessage

LEMMA RequeuedType ==
  ASSUME NEW r \in Record \cup {NoRecord}
  PROVE  Requeued(r) \in Record
BY DEF Requeued, Record, NoRecord, Status

(* An ack or a nack of one lease. *)
LEMMA SettleTypes ==
  ASSUME TypeInv, Fixed, NEW d \in deliveries,
         AckDelivery(d) \/ ReleaseDelivery(d)
  PROVE  StoreTypeOK' /\ Finite'
<1> USE DEF TypeInv, TypeOK, StoreTypeOK, Fixed
<1>1. d.msg \in Msgs
  BY DEF Delivery
<1>2. records' \in [Msgs -> Record \cup {NoRecord}]
  BY <1>1, RequeuedType DEF AckDelivery, ReleaseDelivery, Record, NoRecord, Status
<1>3. metrics' \in Metrics
  <2>1. Decrement(metrics.leased) \in Nat
    BY DEF Decrement, Metrics
  <2>2. metrics' = [metrics EXCEPT !.leased = Decrement(@)]
    BY DEF AckDelivery, ReleaseDelivery, NoteDeliveryRemoved
  <2> QED BY <2>1, <2>2 DEF Metrics
<1>4. stats' \in Stats
  BY DEF AckDelivery, ReleaseDelivery, Stats
<1>5. Finite'
  BY FS_RemoveElement DEF AckDelivery, ReleaseDelivery, Finite
<1> QED BY <1>2, <1>3, <1>4, <1>5 DEF AckDelivery, ReleaseDelivery

LEMMA ExpireTypes ==
  ASSUME TypeInv, Fixed, ExpireLeases
  PROVE  StoreTypeOK' /\ Finite'
<1> USE DEF TypeInv, TypeOK, StoreTypeOK, Fixed
<1>1. Cardinality(overdue) \in Nat
  BY FS_Subset, FS_CardinalityType DEF Finite
<1>2. records' \in [Msgs -> Record \cup {NoRecord}]
  BY RequeuedType DEF ExpireLeases
<1>3. metrics' \in Metrics
  <2>1. (IF metrics.leased > Cardinality(overdue)
         THEN metrics.leased - Cardinality(overdue) ELSE 0) \in Nat
    BY <1>1 DEF Metrics
  <2> QED BY <2>1 DEF ExpireLeases, NoteExpired, Metrics
<1>4. stats' \in Stats
  <2>1. stats.expired + Cardinality(overdue) \in Nat
    BY <1>1 DEF Stats
  <2>2. stats' = [stats EXCEPT !.expired = stats.expired + Cardinality(overdue)]
    BY DEF ExpireLeases
  <2> QED BY <2>1, <2>2 DEF Stats
<1>5. Finite'
  BY FS_Difference DEF ExpireLeases, Finite
<1> QED BY <1>2, <1>3, <1>4, <1>5 DEF ExpireLeases

LEMMA PurgeTypes ==
  ASSUME TypeInv, NEW gone, PurgeAgents(gone)
  PROVE  StoreTypeOK' /\ Finite' /\ Purged(gone) \subseteq Msgs
<1> USE DEF TypeInv, TypeOK, StoreTypeOK
<1>1. queues' \in [Agents -> Queue]
  <2>1. ASSUME NEW a \in Agents
        PROVE  Keep(queues[a], Kept(queues[a], gone)) \in Queue
    BY DEF Keep, Kept, Queue
  <2> QED BY <2>1 DEF PurgeAgents
<1>2. \A a \in Agents : queues'[a].entries \subseteq queues[a].entries
  BY DEF PurgeAgents, Keep, Kept
<1>3. Finite'
  BY <1>2, ShrinkFinite DEF Finite, PurgeAgents
<1>4. metrics' \in Metrics
  <2>1. Oldest(queues') \in Msgs \cup {Nil}
    BY <1>1, OldestType
  <2>2. Cardinality(QueuedCopies(queues')) \in Nat /\ Cardinality(deliveries) \in Nat
    BY <1>3, FS_CardinalityType DEF Finite
  <2> QED BY <2>1, <2>2 DEF PurgeAgents, ComputeMetrics, Metrics
<1>5. Purged(gone) \subseteq Msgs
  BY DEF Purged, QueuedMsgs, Queue, Entry
<1> QED BY <1>1, <1>3, <1>4, <1>5 DEF PurgeAgents

-----------------------------------------------------------------------------
(* The requests in flight keep their shape: a goroutine that goes on with  *)
(* what it holds, takes a message in hand, or is done.                     *)

JobTypes == job \in [Workers -> Job] /\ JobShape

LEMMA GoTypes ==
  ASSUME TypeInv, NEW w \in Workers, NEW pc \in PC, job[w].pc # "idle",
         Go(w, pc), env' = env, pc \in Carries => job[w].pc \in Carries,
         pc \in Publishing => job[w].pc \in Publishing
  PROVE  JobTypes'
<1> USE DEF TypeInv, TypeOK, JobTypes, JobShape, Job, Go
<1>1. job' \in [Workers -> Job]
  OBVIOUS
<1> QED BY <1>1

LEMMA HoldTypes ==
  ASSUME TypeInv, NEW w \in Workers, NEW pc \in PC, job[w].pc # "idle",
         NEW m \in Msgs, Hold(w, pc, m),
         \A n \in Msgs : env[n] \in Envelope => env'[n] \in Envelope,
         pc \in Publishing => env'[m] \in Envelope
  PROVE  JobTypes'
<1> USE DEF TypeInv, TypeOK, JobTypes, JobShape, Job, Hold
<1>1. job' \in [Workers -> Job]
  OBVIOUS
<1> QED BY <1>1 DEF Publishing, Carries

(* A worker that takes back expired deliveries one by one. *)
LEMMA BatchTypes ==
  ASSUME TypeInv, NEW w \in Workers, NEW pc \in {"dequeue", "requeue"},
         NEW batch \in SUBSET Delivery, job[w].pc # "idle", env' = env,
         job' = [job EXCEPT ![w] = [@ EXCEPT !.batch = batch, !.pc = pc]]
  PROVE  JobTypes'
<1> USE DEF TypeInv, TypeOK, JobTypes
<1> DEFINE r == [job[w] EXCEPT !.batch = batch, !.pc = pc]
<1>1. /\ r \in Job
      /\ r.pc = pc
      /\ r.agent = job[w].agent
  BY DEF Job, PC
<1>2. /\ job' \in [Workers -> Job]
      /\ job'[w] = r
      /\ \A v \in Workers \ {w} : job'[v] = job[v]
  <2> HIDE DEF r
  <2> QED BY <1>1 DEF r
<1> HIDE DEF r
<1>3. JobShape'
  BY <1>1, <1>2 DEF JobShape, Publishing, Carries
<1> QED BY <1>2, <1>3

LEMMA FinishTypes ==
  ASSUME TypeInv, NEW w \in Workers, Finish(w), env' = env
  PROVE  JobTypes'
<1> USE DEF TypeInv, TypeOK, JobTypes, JobShape, Job, Finish
<1>1. IdleJob \in Job
  BY DEF IdleJob, PC
<1>2. job' \in [Workers -> Job]
  BY <1>1
<1> QED BY <1>1, <1>2 DEF IdleJob, Publishing, Carries

-----------------------------------------------------------------------------
(* Every step keeps the types. *)

LEMMA TypeStep == TypeInv /\ [Next]_vars => TypeInv'
<1> SUFFICES ASSUME TypeInv, [Next]_vars PROVE TypeInv'
  OBVIOUS
<1> USE DEF JobTypes
<1>a. JobTypes /\ Finite /\ StoreTypeOK /\ accepted \subseteq Msgs /\ lost \subseteq Msgs
  BY DEF TypeInv, TypeOK
<1>b. ASSUME StoreTypeOK', Finite', JobTypes',
             accepted' \subseteq Msgs, lost' \subseteq Msgs
      PROVE  TypeInv'
  BY <1>b DEF TypeInv, TypeOK
<1>c. \A w \in Workers :
        /\ job[w].pc \in Carries => job[w].msg \in Msgs
        /\ job[w].pc \in Publishing => env[job[w].msg] \in Envelope
        /\ job[w].pc # "idle" => job[w].agent \in Agents
        /\ job[w].batch \subseteq Delivery
  BY <1>a DEF JobShape, Job
<1> USE DEF Fixed, At, Publishing, Carries, PC
<1>1. ASSUME NEW w \in Workers, NEW a \in Agents, NEW call \in Calls,
             Authenticate(w, a, call)
      PROVE  TypeInv'
  <2>1. [IdleJob EXCEPT !.pc = call, !.agent = a] \in Job
    BY DEF IdleJob, Job
  <2>2. JobTypes'
    BY <1>1, <1>a, <2>1 DEF Authenticate, storeVars, JobShape, Calls, IdleJob
  <2>3. StoreTypeOK' /\ Finite' /\ UNCHANGED <<accepted, lost>>
    BY <1>1, <1>a DEF Authenticate, storeVars, StoreTypeOK, Finite
  <2> QED BY <1>a, <1>b, <2>2, <2>3
<1>2. ASSUME NEW w \in Workers, Refuse(w) \/ GiveUp(w)
      PROVE  TypeInv'
  <2>1. JobTypes'
    BY <1>2, FinishTypes DEF Refuse, GiveUp, storeVars
  <2>2. StoreTypeOK' /\ Finite' /\ UNCHANGED <<accepted, lost>>
    BY <1>2, <1>a DEF Refuse, GiveUp, storeVars, StoreTypeOK, Finite
  <2> QED BY <1>a, <1>b, <2>1, <2>2
<1>3. ASSUME NEW w \in Workers, NEW m \in Msgs, NEW to \in Agents,
             NEW key \in Keys \cup {Nil}, Authorize(w, m, to, key)
      PROVE  TypeInv'
  <2>1. [from |-> job[w].agent, to |-> to, key |-> key] \in Envelope
    BY <1>3, <1>c DEF Authorize, MayAddress, At, Envelope
  <2>2. env' \in [Msgs -> Envelope \cup {NoEnvelope}] /\ env'[m] \in Envelope
    BY <1>3, <1>a, <2>1 DEF Authorize, StoreTypeOK
  <2>3. \A n \in Msgs : env[n] \in Envelope => env'[n] \in Envelope
    BY <1>3, <1>a, <2>2 DEF Authorize, StoreTypeOK
  <2>4. JobTypes'
    BY <1>3, <2>2, <2>3, HoldTypes DEF Authorize, MayAddress, At
  <2>5. StoreTypeOK' /\ Finite' /\ UNCHANGED <<accepted, lost>>
    BY <1>3, <1>a, <2>2 DEF Authorize, StoreTypeOK, Finite
  <2> QED BY <1>a, <1>b, <2>4, <2>5
<1>4. ASSUME NEW w \in Workers, RegisterReplay(w) \/ Register(w) \/ Abort(w)
      PROVE  TypeInv'
  <2>1. job[w].msg \in Msgs /\ env[job[w].msg] \in Envelope
    BY <1>4, <1>c DEF RegisterReplay, Register, Abort
  <2>2. StoreTypeOK' /\ Finite'
    BY <1>4, <2>1, RecordTypes DEF RegisterReplay, Register, Abort
  <2>3. JobTypes'
    BY <1>4, FinishTypes, GoTypes DEF RegisterReplay, Register, Abort
  <2>4. RegisterReplay(w) => ReplayOf(job[w].msg) \in Msgs
    BY <1>a, <2>1 DEF RegisterReplay, ReplayOf, StoreTypeOK, Envelope
  <2>5. accepted' \subseteq Msgs /\ lost' \subseteq Msgs
    BY <1>4, <1>a, <2>1, <2>4 DEF RegisterReplay, Register, Abort
  <2> QED BY <1>b, <2>2, <2>3, <2>5
<1>5. ASSUME NEW w \in Workers, PublishEnqueue(w) \/ PutBack(w)
      PROVE  TypeInv'
  <2>1. StoreTypeOK' /\ Finite'
    BY <1>5, <1>c, EnqueueTypes DEF PublishEnqueue, PutBack
  <2>2. JobTypes'
    BY <1>5, FinishTypes, GoTypes DEF PublishEnqueue, PutBack
  <2> QED BY <1>5, <1>a, <1>b, <2>1, <2>2 DEF PublishEnqueue, PutBack
<1>6. ASSUME NEW w \in Workers, PublishEnqueueFails(w)
      PROVE  TypeInv'
  <2>1. JobTypes'
    BY <1>6, GoTypes DEF PublishEnqueueFails, storeVars
  <2>2. StoreTypeOK' /\ Finite' /\ UNCHANGED <<accepted, lost>>
    BY <1>6, <1>a DEF PublishEnqueueFails, storeVars, StoreTypeOK, Finite
  <2> QED BY <1>a, <1>b, <2>1, <2>2
<1>7. ASSUME NEW w \in Workers, CountQueued(w)
      PROVE  TypeInv'
  <2>1. stats' \in Stats
    BY <1>7, <1>a DEF CountQueued, StoreTypeOK, Stats
  <2>2. StoreTypeOK' /\ Finite'
    BY <1>7, <1>a, <2>1 DEF CountQueued, StoreTypeOK, Finite
  <2>3. JobTypes'
    BY <1>7, FinishTypes DEF CountQueued
  <2> QED BY <1>7, <1>a, <1>b, <1>c, <2>2, <2>3 DEF CountQueued
<1>8. ASSUME NEW w \in Workers, Sweep(w)
      PROVE  TypeInv'
  <2>1. StoreTypeOK' /\ Finite'
    BY <1>8, ExpireTypes DEF Sweep
  <2>2. overdue \subseteq Delivery
    BY <1>a DEF StoreTypeOK
  <2>3. JobTypes'
    BY <1>8, <2>2, BatchTypes DEF Sweep
  <2> QED BY <1>8, <1>a, <1>b, <2>1, <2>3 DEF Sweep
<1>9. ASSUME NEW w \in Workers, NEW d \in job[w].batch, Requeue(w, d)
      PROVE  TypeInv'
  <2>1. d.msg \in Msgs
    BY <1>c DEF Delivery
  <2>2. StoreTypeOK' /\ Finite'
    BY <1>9, <2>1, EnqueueTypes DEF Requeue
  <2>3. job[w].batch \ {d} \in SUBSET Delivery /\ job[w].pc = "requeue" /\ env' = env
    BY <1>9, <1>a DEF Requeue, Job
  <2>4. JobTypes'
    BY <1>9, <2>3, BatchTypes DEF Requeue
  <2> QED BY <1>9, <1>a, <1>b, <2>2, <2>4 DEF Requeue
<1>10. ASSUME NEW w \in Workers, NEW d \in job[w].batch, RequeueFails(w, d)
       PROVE  TypeInv'
  <2>1. StoreTypeOK' /\ Finite'
    BY <1>10, <1>a DEF RequeueFails, storeVars, StoreTypeOK, Finite
  <2>2. JobTypes'
    <3>1. {} \in SUBSET Delivery /\ job[w].pc = "requeue" /\ env' = env
      BY <1>10 DEF RequeueFails, storeVars
    <3> QED BY <1>10, <3>1, BatchTypes DEF RequeueFails
  <2>3. lost' \subseteq Msgs
    BY <1>10, <1>a, <1>c DEF RequeueFails, Delivery
  <2> QED BY <1>10, <1>a, <1>b, <2>1, <2>2, <2>3 DEF RequeueFails
<1>11. ASSUME NEW w \in Workers, NEW e, Dequeue(w, e)
       PROVE  TypeInv'
  <2>1. StoreTypeOK' /\ Finite' /\ e.msg \in Msgs
    BY <1>11, <1>c, DequeueTypes DEF Dequeue
  <2>2. JobTypes'
    BY <1>11, <2>1, HoldTypes DEF Dequeue
  <2> QED BY <1>11, <1>a, <1>b, <2>1, <2>2 DEF Dequeue
<1>12. ASSUME NEW w \in Workers, Claim(w)
       PROVE  TypeInv'
  <2>1. StoreTypeOK' /\ Finite'
    BY <1>12, <1>c, LeaseTypes DEF Claim
  <2>2. JobTypes'
    BY <1>12, FinishTypes DEF Claim
  <2> QED BY <1>12, <1>a, <1>b, <2>1, <2>2 DEF Claim
<1>13. ASSUME NEW w \in Workers, NEW d \in deliveries, Ack(w, d) \/ Nack(w, d)
       PROVE  TypeInv'
  <2>1. d.msg \in Msgs
    BY <1>a DEF StoreTypeOK, Delivery
  <2>2. StoreTypeOK' /\ Finite'
    BY <1>13, SettleTypes DEF Ack, Nack
  <2>3. JobTypes'
    BY <1>13, <2>1, FinishTypes, HoldTypes DEF Ack, Nack
  <2> QED BY <1>13, <1>a, <1>b, <2>2, <2>3 DEF Ack, Nack
<1>14. ASSUME NEW w \in Workers, PutBackFails(w)
       PROVE  TypeInv'
  <2>1. JobTypes'
    BY <1>14, FinishTypes DEF PutBackFails, storeVars
  <2>2. StoreTypeOK' /\ Finite' /\ accepted' \subseteq Msgs /\ lost' \subseteq Msgs
    BY <1>14, <1>a, <1>c DEF PutBackFails, storeVars, StoreTypeOK, Finite
  <2> QED BY <1>b, <2>1, <2>2
<1>15. ASSUME NEW d \in deliveries, LeaseElapses(d)
       PROVE  TypeInv'
  <2>1. StoreTypeOK' /\ Finite'
    BY <1>15, <1>a DEF LeaseElapses, StoreTypeOK, Finite
  <2>2. JobTypes'
    BY <1>15, <1>a DEF LeaseElapses, JobShape
  <2> QED BY <1>15, <1>a, <1>b, <2>1, <2>2 DEF LeaseElapses
<1>16. ASSUME NEW gone \in Removals, RemoveAgents(gone)
       PROVE  TypeInv'
  <2>1. StoreTypeOK' /\ Finite' /\ Purged(gone) \subseteq Msgs
    BY <1>16, PurgeTypes DEF RemoveAgents
  <2>2. JobTypes'
    BY <1>16, <1>a DEF RemoveAgents, PurgeAgents, JobShape
  <2> QED BY <1>16, <1>a, <1>b, <2>1, <2>2 DEF RemoveAgents
<1>17. CASE UNCHANGED vars
  <2>1. StoreTypeOK' /\ Finite' /\ JobTypes'
    BY <1>17, <1>a DEF vars, storeVars, StoreTypeOK, Finite, JobShape
  <2> QED BY <1>17, <1>a, <1>b, <2>1 DEF vars
<1> QED
  BY <1>1, <1>2, <1>3, <1>4, <1>5, <1>6, <1>7, <1>8, <1>9, <1>10, <1>11,
     <1>12, <1>13, <1>14, <1>15, <1>16, <1>17 DEF Next, Step

LEMMA TypeInit == Init => TypeInv
<1> SUFFICES ASSUME Init PROVE TypeInv
  OBVIOUS
<1>1. StoreTypeOK
  BY DEF Init, StoreInit, StoreTypeOK, EmptyQueue, Queue, Metrics, Stats
<1>2. Finite
  <2>1. QueuedCopies(queues) = {}
    BY CopiesAre DEF Init, StoreInit, EmptyQueue
  <2> QED BY <2>1, FS_EmptySet DEF Init, StoreInit, Finite
<1>3. IdleJob \in Job
  BY DEF IdleJob, Job, PC
<1> QED BY <1>1, <1>2, <1>3 DEF Init, TypeInv, TypeOK, JobShape, IdleJob,
                                Publishing, Carries

(* Every reachable state has the types the Go declarations promise. *)
THEOREM TypeCorrect == Spec => []TypeOK
<1>1. TypeInv => TypeOK
  BY DEF TypeInv
<1> QED BY <1>1, TypeInit, TypeStep, PTL DEF Spec

-----------------------------------------------------------------------------
(* A queued or dequeued message is addressed to the agent that has it.     *)
Addressed ==
  /\ \A a \in Agents : \A e \in queues[a].entries : env[e.msg].to = a
  /\ \A w \in Workers : At(w, "lease") => env[job[w].msg].to = job[w].agent

(* Only a goroutine that is putting expired leases back has a batch.       *)
BatchOnlyInRequeue ==
  \A w \in Workers : job[w].batch # {} => At(w, "requeue")

(* A message about to be registered belongs to one publish and has no      *)
(* record, and one that was never built has left no trace.                 *)
Fresh(m) == ~Exists(m) /\ m \notin lost

RegisterIsFresh ==
  /\ \A m \in Msgs : env[m] = NoEnvelope => Fresh(m)
  /\ \A w \in Workers : At(w, "register") => Fresh(job[w].msg)
  /\ \A v, w \in Workers :
       At(v, "register") /\ At(w, "register") /\ job[v].msg = job[w].msg
         => v = w

CustodyInv ==
  /\ TypeInv
  /\ SingleCustody
  /\ NothingForgotten
  /\ LeaseMatchesRecord
  /\ Addressed
  /\ BatchOnlyInRequeue
  /\ RegisterIsFresh

-----------------------------------------------------------------------------
(* What the parts of Custody contain, now and after a step. *)

LEMMA Places ==
  ASSUME NEW m, NEW p
  PROVE  p \in Custody(m) <=>
           \/ \E a \in Agents : \E e \in queues[a].entries :
                e.msg = m /\ p = <<"queue", <<a, e>>>>
           \/ \E w \in Workers :
                job[w].pc \in HandPC /\ job[w].msg = m /\ p = <<"hand", w>>
           \/ \E w \in Workers : \E d \in job[w].batch :
                d.msg = m /\ p = <<"batch", <<w, d>>>>
           \/ \E d \in deliveries : d.msg = m /\ p = <<"lease", d>>
BY DEF Custody, InQueue, InHand, InBatch, OnLease, QueuedCopies

LEMMA PlacesAfter ==
  ASSUME NEW m, NEW p
  PROVE  p \in Custody(m)' <=>
           \/ \E a \in Agents : \E e \in queues'[a].entries :
                e.msg = m /\ p = <<"queue", <<a, e>>>>
           \/ \E w \in Workers :
                job'[w].pc \in HandPC /\ job'[w].msg = m /\ p = <<"hand", w>>
           \/ \E w \in Workers : \E d \in job'[w].batch :
                d.msg = m /\ p = <<"batch", <<w, d>>>>
           \/ \E d \in deliveries' : d.msg = m /\ p = <<"lease", d>>
BY DEF Custody, InQueue, InHand, InBatch, OnLease, QueuedCopies

(* What a step may do to the custody of m: nothing, give it the one place  *)
(* q, or take its place away as it ends.                                   *)
Stays(m)     == Custody(m)' = Custody(m) /\ (Live(m)' <=> Live(m))
Placed(m, q) == Custody(m)' = {q} /\ Live(m)'
Ends(m)      == Custody(m)' = {} /\ ~Live(m)'

LEMMA CustodyStep ==
  ASSUME SingleCustody, NothingForgotten,
         \A m \in Msgs : Stays(m) \/ (\E q : Placed(m, q)) \/ Ends(m)
  PROVE  SingleCustody' /\ NothingForgotten'
<1>1. ASSUME NEW m \in Msgs
      PROVE  /\ \A p, q \in Custody(m)' : p = q
             /\ Live(m)' <=> Custody(m)' # {}
  BY DEF SingleCustody, NothingForgotten, Stays, Placed, Ends
<1> QED BY <1>1 DEF SingleCustody, NothingForgotten

(* The place a message is in is its only one, and the message is live. *)
LEMMA OnlyPlace ==
  ASSUME SingleCustody, NothingForgotten, NEW m \in Msgs, NEW p \in Custody(m)
  PROVE  Custody(m) = {p} /\ Live(m)
BY DEF SingleCustody, NothingForgotten

(* A live message that is not out on a lease is queued. *)
LEMMA OffLease ==
  ASSUME CustodyInv, NEW m \in Msgs, Live(m), OnLease(m) = {}
  PROVE  records[m].status = "queued"
<1>1. records[m].status \in Status
  BY DEF CustodyInv, TypeInv, TypeOK, StoreTypeOK, Live, Exists, Record
<1> QED BY <1>1 DEF CustodyInv, LeaseMatchesRecord, Live, Status

(* How a step changes the request of w, and no other. *)
OthersWait(w) == \A v \in Workers \ {w} : job'[v] = job[v]

LEMMA JobEffect ==
  ASSUME TypeInv, NEW w \in Workers
  PROVE  /\ \A pc : Go(w, pc) =>
              /\ OthersWait(w)
              /\ job'[w].pc = pc /\ job'[w].msg = job[w].msg
              /\ job'[w].agent = job[w].agent /\ job'[w].batch = job[w].batch
         /\ \A pc, m : Hold(w, pc, m) =>
              /\ OthersWait(w)
              /\ job'[w].pc = pc /\ job'[w].msg = m
              /\ job'[w].agent = job[w].agent /\ job'[w].batch = job[w].batch
         /\ Finish(w) =>
              /\ OthersWait(w)
              /\ job'[w].pc = "idle" /\ job'[w].batch = {}
<1> USE DEF TypeInv, TypeOK, Job, OthersWait
<1>1. ASSUME NEW pc, Go(w, pc)
      PROVE  /\ OthersWait(w)
             /\ job'[w].pc = pc /\ job'[w].msg = job[w].msg
             /\ job'[w].agent = job[w].agent /\ job'[w].batch = job[w].batch
  BY <1>1 DEF Go
<1>2. ASSUME NEW pc, NEW m, Hold(w, pc, m)
      PROVE  /\ OthersWait(w)
             /\ job'[w].pc = pc /\ job'[w].msg = m
             /\ job'[w].agent = job[w].agent /\ job'[w].batch = job[w].batch
  BY <1>2 DEF Hold
<1>3. Finish(w) => OthersWait(w) /\ job'[w].pc = "idle" /\ job'[w].batch = {}
  BY DEF Finish, IdleJob
<1> QED BY <1>1, <1>2, <1>3

-----------------------------------------------------------------------------
(* The effect of each kind of step on the places of messages. *)

(* A step of w that neither takes nor gives up a message. *)
LEMMA NothingMoves ==
  ASSUME CustodyInv, NEW w \in Workers, OthersWait(w),
         queues' = queues, deliveries' = deliveries,
         job'[w].batch = job[w].batch,
         (job[w].pc \in HandPC \/ job'[w].pc \in HandPC) =>
           /\ job[w].pc \in HandPC /\ job'[w].pc \in HandPC
           /\ job'[w].msg = job[w].msg,
         \A m \in Msgs : Live(m)' <=> Live(m)
  PROVE  \A m \in Msgs : Stays(m)
<1>1. ASSUME NEW m \in Msgs, NEW p
      PROVE  p \in Custody(m)' <=> p \in Custody(m)
  BY Places, PlacesAfter DEF OthersWait
<1> QED BY <1>1 DEF Stays

(* A publish registers its message. *)
LEMMA RegisterPlaces ==
  ASSUME CustodyInv, NEW w \in Workers, NEW m0 \in Msgs, job[w].msg = m0,
         Register(w)
  PROVE  \A m \in Msgs : Stays(m) \/ \E q : Placed(m, q)
<1> DEFINE q == <<"hand", w>>
<1> USE DEF CustodyInv
<1>1. job[w].msg = m0
  OBVIOUS
<1>2. /\ OthersWait(w) /\ job'[w].pc = "enqueue" /\ job'[w].msg = m0
      /\ job'[w].batch = {} /\ job[w].batch = {} /\ job[w].pc = "register"
  BY JobEffect DEF Register, BatchOnlyInRequeue, At
<1>3. Custody(m0) = {}
  BY <1>1 DEF Register, RegisterIsFresh, Fresh, NothingForgotten, Live
<1>4. \A m \in Msgs : \A p : p \in Custody(m)' <=>
        p \in Custody(m) \/ (m = m0 /\ p = q)
  BY <1>2, Places, PlacesAfter DEF Register, CreateRecord, OthersWait, HandPC
<1>5. records'[m0] = NewRecord /\ \A m \in Msgs \ {m0} : records'[m] = records[m]
  BY <1>1 DEF Register, CreateRecord, TypeInv, TypeOK, StoreTypeOK
<1>6. Placed(m0, q)
  <2>1. Custody(m0)' = {q}
    BY <1>1, <1>3, <1>4
  <2>2. m0 \notin lost' /\ NewRecord # NoRecord /\ NewRecord.status = "queued"
    BY DEF Register, RegisterIsFresh, Fresh, NewRecord, NoRecord
  <2> QED BY <1>5, <2>1, <2>2 DEF Placed, Live, Exists
<1>7. ASSUME NEW m \in Msgs \ {m0} PROVE Stays(m)
  <2>1. Custody(m)' = Custody(m)
    BY <1>4
  <2> QED BY <1>5, <2>1 DEF Stays, Live, Exists, Register
<1> QED BY <1>1, <1>6, <1>7

(* One message changes places. *)
LEMMA OneMoves ==
  ASSUME CustodyInv, NEW m0 \in Msgs, NEW old \in Custody(m0), NEW q,
         \A m \in Msgs : \A p : p \in Custody(m)' <=>
           (p \in Custody(m) /\ p # old) \/ (m = m0 /\ p = q),
         \A m \in Msgs : Live(m)' <=> Live(m)
  PROVE  \A m \in Msgs : Stays(m) \/ \E p : Placed(m, p)
<1>1. Custody(m0) = {old} /\ Live(m0)
  BY OnlyPlace DEF CustodyInv
<1>2. Placed(m0, q)
  <2>1. Custody(m0)' = {q}
    BY <1>1
  <2> QED BY <1>1, <2>1 DEF Placed
<1>3. ASSUME NEW m \in Msgs \ {m0} PROVE Stays(m)
  <2>1. old \notin Custody(m)
    BY Places
  <2>2. Custody(m)' = Custody(m)
    BY <2>1
  <2> QED BY <2>2 DEF Stays
<1> QED BY <1>2, <1>3

(* One message ends. *)
LEMMA OneEnds ==
  ASSUME CustodyInv, NEW m0 \in Msgs, NEW old \in Custody(m0),
         \A m \in Msgs : \A p : p \in Custody(m)' <=> (p \in Custody(m) /\ p # old),
         ~Live(m0)', \A m \in Msgs \ {m0} : Live(m)' <=> Live(m)
  PROVE  \A m \in Msgs : Stays(m) \/ Ends(m)
<1>1. Custody(m0) = {old}
  BY OnlyPlace DEF CustodyInv
<1>2. Ends(m0)
  BY <1>1 DEF Ends
<1>3. ASSUME NEW m \in Msgs \ {m0} PROVE Stays(m)
  <2>1. old \notin Custody(m)
    BY Places
  <2> QED BY <2>1 DEF Stays
<1> QED BY <1>2, <1>3

(* Enqueue adds one entry to one queue. *)
LEMMA EnqueueEntry ==
  ASSUME TypeInv, NEW m \in Msgs, CanEnqueue(m), Enqueue(m)
  PROVE  /\ env[m].to \in Agents
         /\ \A a \in Agents : \A f : f \in queues'[a].entries <=>
              \/ f \in queues[a].entries
              \/ a = env[m].to /\ f = [at |-> queues[env[m].to].next, msg |-> m]
<1> USE DEF TypeInv, TypeOK, StoreTypeOK
<1>1. env[m].to \in Agents
  BY DEF CanEnqueue
<1> QED BY <1>1 DEF Enqueue, Append1

(* A message in hand is queued for its receiver. *)
LEMMA HandToQueue ==
  ASSUME CustodyInv, NEW w \in Workers, NEW m0 \in Msgs,
         job[w].pc \in HandPC, job[w].msg = m0, CanEnqueue(m0), Enqueue(m0),
         OthersWait(w), job'[w].pc \notin HandPC, job'[w].batch = job[w].batch,
         lost' = lost
  PROVE  \A m \in Msgs : Stays(m) \/ \E q : Placed(m, q)
<1> DEFINE a0  == env[m0].to
           e0  == [at |-> queues[a0].next, msg |-> m0]
           q   == <<"queue", <<a0, e0>>>>
           old == <<"hand", w>>
<1>1. /\ a0 \in Agents
      /\ \A a \in Agents : \A f : f \in queues'[a].entries <=>
           f \in queues[a].entries \/ (a = a0 /\ f = e0)
  BY EnqueueEntry DEF CustodyInv
<1>2. old \in Custody(m0)
  BY Places
<1>3. \A m \in Msgs : Live(m)' <=> Live(m)
  BY DEF Enqueue, Live, Exists
<1>4. deliveries' = deliveries
  BY DEF Enqueue
<1>5. ASSUME NEW m \in Msgs, NEW p
      PROVE  p \in Custody(m)' <=>
               (p \in Custody(m) /\ p # old) \/ (m = m0 /\ p = q)
  <2>1. ASSUME p \in Custody(m)'
        PROVE  (p \in Custody(m) /\ p # old) \/ (m = m0 /\ p = q)
    BY <1>1, <1>4, <2>1, Places, PlacesAfter DEF OthersWait
  <2>2. ASSUME p \in Custody(m), p # old PROVE p \in Custody(m)'
    BY <1>1, <1>4, <2>2, Places, PlacesAfter DEF OthersWait
  <2>3. q \in Custody(m0)'
    BY <1>1, PlacesAfter
  <2> QED BY <2>1, <2>2, <2>3
<1>6. \A m \in Msgs : \A p : p \in Custody(m)' <=>
        (p \in Custody(m) /\ p # old) \/ (m = m0 /\ p = q)
  BY <1>5
<1> HIDE DEF q, old
<1> QED BY <1>2, <1>3, <1>6, OneMoves

(* A message of an expired lease is queued again. *)
LEMMA BatchToQueue ==
  ASSUME CustodyInv, NEW w \in Workers, NEW d \in job[w].batch, NEW m0 \in Msgs,
         d.msg = m0, CanEnqueue(m0), Enqueue(m0), OthersWait(w),
         job[w].pc \notin HandPC, job'[w].pc \notin HandPC,
         job'[w].batch = job[w].batch \ {d}, lost' = lost
  PROVE  \A m \in Msgs : Stays(m) \/ \E q : Placed(m, q)
<1> DEFINE a0  == env[m0].to
           e0  == [at |-> queues[a0].next, msg |-> m0]
           q   == <<"queue", <<a0, e0>>>>
           old == <<"batch", <<w, d>>>>
<1>1. /\ a0 \in Agents
      /\ \A a \in Agents : \A f : f \in queues'[a].entries <=>
           f \in queues[a].entries \/ (a = a0 /\ f = e0)
  BY EnqueueEntry DEF CustodyInv
<1>2. old \in Custody(m0)
  BY Places
<1>3. \A m \in Msgs : Live(m)' <=> Live(m)
  BY DEF Enqueue, Live, Exists
<1>4. deliveries' = deliveries
  BY DEF Enqueue
<1>5. ASSUME NEW m \in Msgs, NEW p
      PROVE  p \in Custody(m)' <=>
               (p \in Custody(m) /\ p # old) \/ (m = m0 /\ p = q)
  <2>1. ASSUME p \in Custody(m)'
        PROVE  (p \in Custody(m) /\ p # old) \/ (m = m0 /\ p = q)
    BY <1>1, <1>4, <2>1, Places, PlacesAfter DEF OthersWait
  <2>2. ASSUME p \in Custody(m), p # old PROVE p \in Custody(m)'
    BY <1>1, <1>4, <2>2, Places, PlacesAfter DEF OthersWait
  <2>3. q \in Custody(m0)'
    BY <1>1, PlacesAfter
  <2> QED BY <2>1, <2>2, <2>3
<1>6. \A m \in Msgs : \A p : p \in Custody(m)' <=>
        (p \in Custody(m) /\ p # old) \/ (m = m0 /\ p = q)
  BY <1>5
<1> HIDE DEF q, old
<1> QED BY <1>2, <1>3, <1>6, OneMoves

(* A pull takes the head of its queue in hand. *)
LEMMA QueueToHand ==
  ASSUME CustodyInv, NEW w \in Workers, NEW a0 \in Agents, NEW e, NEW m0 \in Msgs,
         e.msg = m0, DequeueEntry(a0, e), OthersWait(w),
         job[w].pc \notin HandPC, job'[w].pc = "lease", job'[w].msg = m0,
         job'[w].batch = job[w].batch, lost' = lost
  PROVE  \A m \in Msgs : Stays(m) \/ \E q : Placed(m, q)
<1> DEFINE q   == <<"hand", w>>
           old == <<"queue", <<a0, e>>>>
<1>1. /\ e \in queues[a0].entries
      /\ \A a \in Agents : \A f : f \in queues'[a].entries <=>
           f \in queues[a].entries /\ ~(a = a0 /\ f = e)
  BY DEF DequeueEntry, IsHead, Keep, CustodyInv, TypeInv, TypeOK, StoreTypeOK
<1>2. old \in Custody(m0)
  BY <1>1, Places
<1>3. \A m \in Msgs : Live(m)' <=> Live(m)
  BY DEF DequeueEntry, Live, Exists
<1>4. deliveries' = deliveries
  BY DEF DequeueEntry
<1>5. ASSUME NEW m \in Msgs, NEW p
      PROVE  p \in Custody(m)' <=>
               (p \in Custody(m) /\ p # old) \/ (m = m0 /\ p = q)
  <2>1. ASSUME p \in Custody(m)'
        PROVE  (p \in Custody(m) /\ p # old) \/ (m = m0 /\ p = q)
    BY <1>1, <1>4, <2>1, Places, PlacesAfter DEF OthersWait, HandPC
  <2>2. ASSUME p \in Custody(m), p # old PROVE p \in Custody(m)'
    BY <1>1, <1>4, <2>2, Places, PlacesAfter DEF OthersWait, HandPC
  <2>3. q \in Custody(m0)'
    BY PlacesAfter DEF HandPC
  <2> QED BY <2>1, <2>2, <2>3
<1>6. \A m \in Msgs : \A p : p \in Custody(m)' <=>
        (p \in Custody(m) /\ p # old) \/ (m = m0 /\ p = q)
  BY <1>5
<1> HIDE DEF q, old
<1> QED BY <1>2, <1>3, <1>6, OneMoves

(* A pull leases the message it has in hand. *)
LEMMA HandToLease ==
  ASSUME CustodyInv, NEW w \in Workers, NEW m0 \in Msgs, NEW a0,
         job[w].pc \in HandPC, job[w].msg = m0, LeaseMessage(m0, a0),
         OthersWait(w), job'[w].pc \notin HandPC, job'[w].batch = job[w].batch,
         lost' = lost
  PROVE  \A m \in Msgs : Stays(m) \/ \E q : Placed(m, q)
<1> DEFINE d0  == NextDelivery(m0, a0)
           q   == <<"lease", d0>>
           old == <<"hand", w>>
<1>1. queues' = queues /\ deliveries' = deliveries \cup {d0} /\ d0.msg = m0
  BY DEF LeaseMessage, NextDelivery
<1>2. old \in Custody(m0)
  BY Places
<1>3. \A m \in Msgs : Live(m)' <=> Live(m)
  <2>1. Live(m0)
    BY <1>2, OnlyPlace DEF CustodyInv
  <2>2. records'[m0].status = "leased"
    BY DEF LeaseMessage, CustodyInv, TypeInv, TypeOK, StoreTypeOK, Record, NoRecord
  <2>3. \A m \in Msgs \ {m0} : records'[m] = records[m]
    BY DEF LeaseMessage, CustodyInv, TypeInv, TypeOK, StoreTypeOK
  <2> QED BY <2>1, <2>2, <2>3 DEF Live, Exists, NoRecord
<1>5. ASSUME NEW m \in Msgs, NEW p
      PROVE  p \in Custody(m)' <=>
               (p \in Custody(m) /\ p # old) \/ (m = m0 /\ p = q)
  <2>1. ASSUME p \in Custody(m)'
        PROVE  (p \in Custody(m) /\ p # old) \/ (m = m0 /\ p = q)
    BY <1>1, <2>1, Places, PlacesAfter DEF OthersWait
  <2>2. ASSUME p \in Custody(m), p # old PROVE p \in Custody(m)'
    BY <1>1, <2>2, Places, PlacesAfter DEF OthersWait
  <2>3. q \in Custody(m0)'
    BY <1>1, PlacesAfter
  <2> QED BY <2>1, <2>2, <2>3
<1>6. \A m \in Msgs : \A p : p \in Custody(m)' <=>
        (p \in Custody(m) /\ p # old) \/ (m = m0 /\ p = q)
  BY <1>5
<1> HIDE DEF q, old
<1> QED BY <1>2, <1>3, <1>6, OneMoves

(* A nack takes the message of a lease in hand. *)
LEMMA LeaseToHand ==
  ASSUME CustodyInv, NEW w \in Workers, NEW d \in deliveries, NEW m0 \in Msgs,
         d.msg = m0, ReleaseDelivery(d), OthersWait(w),
         job[w].pc \notin HandPC, job'[w].pc = "putBack", job'[w].msg = m0,
         job'[w].batch = job[w].batch, lost' = lost
  PROVE  \A m \in Msgs : Stays(m) \/ \E q : Placed(m, q)
<1> DEFINE q   == <<"hand", w>>
           old == <<"lease", d>>
<1>1. queues' = queues /\ deliveries' = deliveries \ {d}
  BY DEF ReleaseDelivery
<1>2. old \in Custody(m0)
  BY Places
<1>3. \A m \in Msgs : Live(m)' <=> Live(m)
  <2>1. Live(m0)
    BY <1>2, OnlyPlace DEF CustodyInv
  <2>2. records'[m0].status = "queued"
    BY DEF ReleaseDelivery, Requeued, CustodyInv, TypeInv, TypeOK, StoreTypeOK
  <2>3. \A m \in Msgs \ {m0} : records'[m] = records[m]
    BY DEF ReleaseDelivery, CustodyInv, TypeInv, TypeOK, StoreTypeOK
  <2> QED BY <2>1, <2>2, <2>3 DEF Live, Exists, NoRecord
<1>5. ASSUME NEW m \in Msgs, NEW p
      PROVE  p \in Custody(m)' <=>
               (p \in Custody(m) /\ p # old) \/ (m = m0 /\ p = q)
  <2>1. ASSUME p \in Custody(m)'
        PROVE  (p \in Custody(m) /\ p # old) \/ (m = m0 /\ p = q)
    BY <1>1, <2>1, Places, PlacesAfter DEF OthersWait, HandPC
  <2>2. ASSUME p \in Custody(m), p # old PROVE p \in Custody(m)'
    BY <1>1, <2>2, Places, PlacesAfter DEF OthersWait, HandPC
  <2>3. q \in Custody(m0)'
    BY PlacesAfter DEF HandPC
  <2> QED BY <2>1, <2>2, <2>3
<1>6. \A m \in Msgs : \A p : p \in Custody(m)' <=>
        (p \in Custody(m) /\ p # old) \/ (m = m0 /\ p = q)
  BY <1>5
<1> HIDE DEF q, old
<1> QED BY <1>2, <1>3, <1>6, OneMoves

(* An ack ends the message of a lease. *)
LEMMA LeaseEnds ==
  ASSUME CustodyInv, NEW w \in Workers, NEW d \in deliveries, NEW m0 \in Msgs,
         d.msg = m0, AckDelivery(d), OthersWait(w),
         job[w].pc \notin HandPC, job'[w].pc \notin HandPC,
         job'[w].batch = job[w].batch, lost' = lost
  PROVE  \A m \in Msgs : Stays(m) \/ Ends(m)
<1> DEFINE old == <<"lease", d>>
<1>1. queues' = queues /\ deliveries' = deliveries \ {d}
  BY DEF AckDelivery
<1>2. old \in Custody(m0)
  BY Places
<1>3. ~Live(m0)'
  BY DEF AckDelivery, Live, CustodyInv, TypeInv, TypeOK, StoreTypeOK, Record, NoRecord
<1>4. \A m \in Msgs \ {m0} : Live(m)' <=> Live(m)
  BY DEF AckDelivery, Live, Exists, CustodyInv, TypeInv, TypeOK, StoreTypeOK
<1>5. ASSUME NEW m \in Msgs, NEW p
      PROVE  p \in Custody(m)' <=> (p \in Custody(m) /\ p # old)
  BY <1>1, Places, PlacesAfter DEF OthersWait
<1>6. \A m \in Msgs : \A p : p \in Custody(m)' <=> (p \in Custody(m) /\ p # old)
  BY <1>5
<1> HIDE DEF old
<1> QED BY <1>2, <1>3, <1>4, <1>6, OneEnds

(* A message in hand ends: a publish is aborted, a nack cannot requeue. *)
LEMMA HandEnds ==
  ASSUME CustodyInv, NEW w \in Workers, NEW m0 \in Msgs,
         job[w].pc \in HandPC, job[w].msg = m0,
         queues' = queues, deliveries' = deliveries,
         AbortRecord(m0) \/ records' = records, lost' = lost \cup {m0},
         OthersWait(w), job'[w].pc \notin HandPC, job'[w].batch = job[w].batch
  PROVE  \A m \in Msgs : Stays(m) \/ Ends(m)
<1> DEFINE old == <<"hand", w>>
<1>2. old \in Custody(m0)
  BY Places
<1>3. ~Live(m0)'
  BY DEF Live
<1>4. \A m \in Msgs \ {m0} : Live(m)' <=> Live(m)
  BY DEF AbortRecord, Live, Exists, CustodyInv, TypeInv, TypeOK, StoreTypeOK
<1>5. ASSUME NEW m \in Msgs, NEW p
      PROVE  p \in Custody(m)' <=> (p \in Custody(m) /\ p # old)
  BY Places, PlacesAfter DEF OthersWait
<1>6. \A m \in Msgs : \A p : p \in Custody(m)' <=> (p \in Custody(m) /\ p # old)
  BY <1>5
<1> HIDE DEF old
<1> QED BY <1>2, <1>3, <1>4, <1>6, OneEnds

(* The first failed requeue gives up the rest of the batch. *)
LEMMA BatchEnds ==
  ASSUME CustodyInv, NEW w \in Workers, queues' = queues,
         deliveries' = deliveries, records' = records,
         lost' = lost \cup {d.msg : d \in job[w].batch}, OthersWait(w),
         job[w].pc \notin HandPC, job'[w].pc \notin HandPC, job'[w].batch = {}
  PROVE  \A m \in Msgs : Stays(m) \/ Ends(m)
<1> DEFINE Dropped(m) == \E d \in job[w].batch : d.msg = m
<1>1. ASSUME NEW m \in Msgs, NEW p
      PROVE  p \in Custody(m)' <=>
               p \in Custody(m) /\ \A d \in job[w].batch : p # <<"batch", <<w, d>>>>
  BY Places, PlacesAfter DEF OthersWait
<1>2. ASSUME NEW m \in Msgs, NEW d \in job[w].batch, d.msg = m PROVE Ends(m)
  <2>0. <<"batch", <<w, d>>>> \in Custody(m)
    BY <1>2, Places
  <2>1. Custody(m) = {<<"batch", <<w, d>>>>}
    BY <2>0, OnlyPlace DEF CustodyInv
  <2>2. Custody(m)' = {}
    BY <1>1, <2>1
  <2> QED BY <1>2, <2>2 DEF Ends, Live
<1>3. ASSUME NEW m \in Msgs, ~Dropped(m) PROVE Stays(m)
  <2>1. \A d \in job[w].batch : <<"batch", <<w, d>>>> \notin Custody(m)
    BY <1>3, Places
  <2>2. Custody(m)' = Custody(m)
    <3>1. \A p : p \in Custody(m)' <=> p \in Custody(m)
      BY <1>1, <2>1
    <3> QED BY <3>1
  <2>3. Live(m)' <=> Live(m)
    BY <1>3 DEF Live, Exists
  <2> QED BY <2>2, <2>3 DEF Stays
<1> QED BY <1>2, <1>3

(* The sweep takes the messages of every overdue lease in its batch. *)
LEMMA SweepPlaces ==
  ASSUME CustodyInv, NEW w \in Workers, ExpireLeases, OthersWait(w),
         job[w].pc \notin HandPC, job[w].batch = {},
         job'[w].pc \notin HandPC, job'[w].batch = overdue, lost' = lost
  PROVE  \A m \in Msgs : Stays(m) \/ \E q : Placed(m, q)
<1>1. /\ queues' = queues /\ deliveries' = deliveries \ overdue
      /\ overdue \subseteq deliveries
  BY DEF ExpireLeases, CustodyInv, TypeInv, TypeOK, StoreTypeOK
<1>2. ASSUME NEW m \in Msgs, NEW p
      PROVE  p \in Custody(m)' <=>
               \/ p \in Custody(m) /\ \A d \in overdue : p # <<"lease", d>>
               \/ \E d \in overdue : d.msg = m /\ p = <<"batch", <<w, d>>>>
  BY <1>1, Places, PlacesAfter DEF OthersWait
<1>3. ASSUME NEW m \in Msgs, NEW d \in overdue, d.msg = m
      PROVE  \E q : Placed(m, q)
  <2>0. <<"lease", d>> \in Custody(m)
    BY <1>1, <1>3, Places
  <2>1. Custody(m) = {<<"lease", d>>} /\ Live(m)
    BY <2>0, OnlyPlace DEF CustodyInv
  <2>2. \A b \in overdue : b.msg = m => <<"lease", b>> \in Custody(m)
    BY <1>1, Places
  <2>3. \A b \in overdue : b.msg = m => b = d
    BY <2>1, <2>2
  <2>4. Custody(m)' = {<<"batch", <<w, d>>>>}
    BY <1>2, <1>3, <2>1, <2>3
  <2>5. records'[m] = Requeued(records[m])
    BY <1>3 DEF ExpireLeases
  <2>6. Live(m)'
    BY <2>1, <2>5 DEF Live, Exists, Requeued, NoRecord
  <2> QED BY <2>4, <2>6 DEF Placed
<1>4. ASSUME NEW m \in Msgs, \A d \in overdue : d.msg # m PROVE Stays(m)
  <2>1. \A d \in overdue : <<"lease", d>> \notin Custody(m)
    BY <1>4, Places
  <2>2. Custody(m)' = Custody(m)
    <3>1. \A p : p \in Custody(m)' <=> p \in Custody(m)
      BY <1>2, <1>4, <2>1
    <3> QED BY <3>1
  <2>3. records'[m] = records[m]
    BY <1>4 DEF ExpireLeases
  <2> QED BY <2>2, <2>3 DEF Stays, Live, Exists
<1> QED BY <1>3, <1>4

(* Removing agents ends the queued messages to and from them. *)
LEMMA PurgePlaces ==
  ASSUME CustodyInv, NEW gone, PurgeAgents(gone), job' = job,
         lost' = lost \cup Purged(gone)
  PROVE  \A m \in Msgs : Stays(m) \/ Ends(m)
<1>1. \A a \in Agents : \A e : e \in queues'[a].entries <=>
        e \in queues[a].entries /\ ~Involves(e.msg, gone)
  BY DEF PurgeAgents, Keep, Kept
<1>2. deliveries' = deliveries /\ records' = records
  BY DEF PurgeAgents
<1>3. ASSUME NEW m \in Msgs, NEW p
      PROVE  p \in Custody(m)' <=>
               /\ p \in Custody(m)
               /\ Involves(m, gone) => ~ \E a \in Agents : \E e \in queues[a].entries :
                                           p = <<"queue", <<a, e>>>>
  BY <1>1, <1>2, Places, PlacesAfter
<1>4. ASSUME NEW m \in Msgs
      PROVE  m \in Purged(gone) <=>
               /\ Involves(m, gone)
               /\ \E a \in Agents : \E e \in queues[a].entries : e.msg = m
  BY DEF Purged, QueuedMsgs
<1>5. ASSUME NEW m \in Purged(gone), m \in Msgs PROVE Ends(m)
  <2>0. PICK a \in Agents : \E e \in queues[a].entries : e.msg = m
    BY <1>4, <1>5
  <2>1. PICK e \in queues[a].entries : e.msg = m
    BY <2>0
  <2>2. Custody(m) = {<<"queue", <<a, e>>>>}
    BY <1>5, <2>1, Places, OnlyPlace DEF CustodyInv
  <2>3. Custody(m)' = {}
    BY <1>3, <1>4, <1>5, <2>1, <2>2
  <2> QED BY <2>3 DEF Ends, Live
<1>6. ASSUME NEW m \in Msgs, m \notin Purged(gone) PROVE Stays(m)
  <2>1. Custody(m)' = Custody(m)
    <3>1. ASSUME NEW p \in Custody(m) PROVE p \in Custody(m)'
      <4>1. ASSUME Involves(m, gone), NEW a \in Agents, NEW e \in queues[a].entries
            PROVE  p # <<"queue", <<a, e>>>>
        BY <1>4, <1>6, <4>1, Places
      <4> QED BY <1>3, <4>1
    <3> QED BY <1>3, <3>1
  <2> QED BY <1>2, <1>6, <2>1 DEF Stays, Live, Exists
<1> QED BY <1>5, <1>6

-----------------------------------------------------------------------------
(* Every step keeps the invariant, one part at a time. *)

(* What the type invariant gives about the requests and the leases. *)
LEMMA JobFacts ==
  ASSUME CustodyInv
  PROVE  /\ \A w \in Workers :
              /\ job[w].pc \in Carries => job[w].msg \in Msgs
              /\ job[w].pc # "idle" => job[w].agent \in Agents
              /\ job[w].batch \subseteq Delivery
              /\ job[w].pc # "requeue" => job[w].batch = {}
         /\ \A d \in deliveries : d.msg \in Msgs
         /\ \A w \in Workers : \A d \in job[w].batch : d.msg \in Msgs
         /\ overdue \subseteq deliveries
BY DEF CustodyInv, TypeInv, TypeOK, StoreTypeOK, JobShape, Job, Delivery,
       BatchOnlyInRequeue, At

LEMMA CustodyKept ==
  ASSUME CustodyInv, [Next]_vars
  PROVE  SingleCustody' /\ NothingForgotten'
<1> DEFINE Good == \A m \in Msgs : Stays(m) \/ (\E q : Placed(m, q)) \/ Ends(m)
<1> SUFFICES Good
  BY CustodyStep DEF CustodyInv
<1>t. TypeInv
  BY DEF CustodyInv
<1> USE DEF At, HandPC, Carries, Publishing
<1>1. ASSUME NEW w \in Workers, NEW a \in Agents, NEW call \in Calls,
             Authenticate(w, a, call)
      PROVE  Good
  <2>1. /\ OthersWait(w) /\ job'[w].pc = call /\ job'[w].batch = {}
        /\ job[w].pc = "idle"
    BY <1>1, <1>t DEF Authenticate, OthersWait, IdleJob, TypeInv, TypeOK
  <2>2. queues' = queues /\ deliveries' = deliveries /\ records' = records /\ lost' = lost
    BY <1>1 DEF Authenticate, storeVars
  <2> QED BY <2>1, <2>2, JobFacts, NothingMoves DEF Calls, Live, Exists
<1>2. ASSUME NEW w \in Workers, Refuse(w) \/ GiveUp(w)
      PROVE  Good
  <2>1. queues' = queues /\ deliveries' = deliveries /\ records' = records /\ lost' = lost
    BY <1>2 DEF Refuse, GiveUp, storeVars
  <2>2. OthersWait(w) /\ job'[w].pc = "idle" /\ job'[w].batch = {}
    BY <1>2, <1>t, JobEffect DEF Refuse, GiveUp
  <2>3. job[w].pc \notin HandPC /\ job[w].batch = {}
    BY <1>2, JobFacts DEF Refuse, GiveUp
  <2> QED BY <2>1, <2>2, <2>3, NothingMoves DEF Live, Exists
<1>3. ASSUME NEW w \in Workers, NEW m \in Msgs, NEW to \in Agents,
             NEW key \in Keys \cup {Nil}, Authorize(w, m, to, key)
      PROVE  Good
  <2>1. queues' = queues /\ deliveries' = deliveries /\ records' = records /\ lost' = lost
    BY <1>3 DEF Authorize
  <2>2. OthersWait(w) /\ job'[w].pc = "register" /\ job'[w].batch = job[w].batch
    BY <1>3, <1>t, JobEffect DEF Authorize
  <2> QED BY <1>3, <2>1, <2>2, NothingMoves DEF Authorize, MayAddress, Live, Exists
<1>4. ASSUME NEW w \in Workers, RegisterReplay(w)
      PROVE  Good
  <2>1. queues' = queues /\ deliveries' = deliveries /\ lost' = lost
    BY <1>4 DEF RegisterReplay, CountReplay
  <2>2. /\ OthersWait(w) /\ job'[w].pc = "idle" /\ job'[w].batch = {}
        /\ job[w].pc = "register" /\ job[w].batch = {}
    BY <1>4, <1>t, JobEffect, JobFacts DEF RegisterReplay
  <2>3. ASSUME NEW m \in Msgs
        PROVE  /\ records'[m].status = records[m].status
               /\ (records'[m] = NoRecord) <=> (records[m] = NoRecord)
    <3>1. CASE m # ReplayOf(job[w].msg)
      BY <1>4, <1>t, <3>1 DEF RegisterReplay, CountReplay, TypeInv, TypeOK, StoreTypeOK
    <3>2. CASE m = ReplayOf(job[w].msg)
      <4>1. records[m] # NoRecord
        BY <1>4, <3>2 DEF RegisterReplay, ReplayOf, Exists
      <4>2. records[m] \in Record
        BY <1>t, <4>1 DEF TypeInv, TypeOK, StoreTypeOK
      <4>3. records'[m] = [records[m] EXCEPT !.replays = @ + 1]
        BY <1>4, <1>t, <3>2 DEF RegisterReplay, CountReplay, TypeInv, TypeOK, StoreTypeOK
      <4> QED BY <4>1, <4>2, <4>3 DEF Record, NoRecord, Status
    <3> QED BY <3>1, <3>2
  <2>4. \A m \in Msgs : Live(m)' <=> Live(m)
    BY <2>1, <2>3 DEF Live, Exists
  <2> QED BY <2>1, <2>2, <2>4, NothingMoves
<1>5. ASSUME NEW w \in Workers, Register(w)
      PROVE  Good
  <2>1. job[w].msg \in Msgs
    BY <1>5, JobFacts DEF Register
  <2> QED BY <1>5, <2>1, RegisterPlaces
<1>6. ASSUME NEW w \in Workers, PublishEnqueue(w) \/ PutBack(w)
      PROVE  Good
  <2>1. PICK m0 \in Msgs : job[w].msg = m0
    BY <1>6, JobFacts DEF PublishEnqueue, PutBack
  <2>2. OthersWait(w) /\ job'[w].pc \notin HandPC /\ job'[w].batch = job[w].batch
    <3>1. CASE PublishEnqueue(w)
      BY <3>1, <1>t, JobEffect DEF PublishEnqueue
    <3>2. CASE PutBack(w)
      BY <3>2, <1>t, JobEffect, JobFacts DEF PutBack
    <3> QED BY <1>6, <3>1, <3>2
  <2>3. /\ job[w].pc \in HandPC /\ CanEnqueue(m0) /\ Enqueue(m0) /\ lost' = lost
    BY <1>6, <2>1 DEF PublishEnqueue, PutBack
  <2> QED BY <2>1, <2>2, <2>3, HandToQueue
<1>7. ASSUME NEW w \in Workers, PublishEnqueueFails(w)
      PROVE  Good
  <2>1. queues' = queues /\ deliveries' = deliveries /\ records' = records /\ lost' = lost
    BY <1>7 DEF PublishEnqueueFails, storeVars
  <2>2. /\ OthersWait(w) /\ job'[w].pc = "abort" /\ job'[w].batch = job[w].batch
        /\ job'[w].msg = job[w].msg
    BY <1>7, <1>t, JobEffect DEF PublishEnqueueFails
  <2> QED BY <1>7, <2>1, <2>2, NothingMoves DEF PublishEnqueueFails, Live, Exists
<1>8. ASSUME NEW w \in Workers, Abort(w) \/ PutBackFails(w)
      PROVE  Good
  <2>1. PICK m0 \in Msgs : job[w].msg = m0
    BY <1>8, JobFacts DEF Abort, PutBackFails
  <2>2. OthersWait(w) /\ job'[w].pc \notin HandPC /\ job'[w].batch = job[w].batch
    BY <1>8, <1>t, JobEffect, JobFacts DEF Abort, PutBackFails
  <2>3. /\ job[w].pc \in HandPC /\ lost' = lost \cup {m0}
        /\ queues' = queues /\ deliveries' = deliveries
        /\ AbortRecord(m0) \/ records' = records
    BY <1>8, <2>1 DEF Abort, PutBackFails, AbortRecord, storeVars
  <2> QED BY <2>1, <2>2, <2>3, HandEnds
<1>9. ASSUME NEW w \in Workers, CountQueued(w)
      PROVE  Good
  <2>1. queues' = queues /\ deliveries' = deliveries /\ records' = records /\ lost' = lost
    BY <1>9 DEF CountQueued
  <2>2. /\ OthersWait(w) /\ job'[w].pc = "idle" /\ job'[w].batch = {}
        /\ job[w].pc = "count" /\ job[w].batch = {}
    BY <1>9, <1>t, JobEffect, JobFacts DEF CountQueued
  <2> QED BY <2>1, <2>2, NothingMoves DEF Live, Exists
<1>10. ASSUME NEW w \in Workers, Sweep(w)
       PROVE  Good
  <2>1. /\ OthersWait(w) /\ job'[w].pc \in {"dequeue", "requeue"}
        /\ job'[w].batch = overdue
    BY <1>10, <1>t DEF Sweep, OthersWait, TypeInv, TypeOK, Job
  <2>2. job[w].pc = "pull" /\ job[w].batch = {} /\ lost' = lost /\ ExpireLeases
    BY <1>10, JobFacts DEF Sweep
  <2> QED BY <2>1, <2>2, SweepPlaces
<1>11. ASSUME NEW w \in Workers, NEW d \in job[w].batch, Requeue(w, d)
       PROVE  Good
  <2>1. PICK m0 \in Msgs : d.msg = m0
    BY JobFacts
  <2>2. /\ OthersWait(w) /\ job'[w].pc \in {"dequeue", "requeue"}
        /\ job'[w].batch = job[w].batch \ {d}
    BY <1>11, <1>t DEF Requeue, OthersWait, TypeInv, TypeOK, Job
  <2>3. job[w].pc = "requeue" /\ CanEnqueue(m0) /\ Enqueue(m0) /\ lost' = lost
    BY <1>11, <2>1 DEF Requeue
  <2> QED BY <2>1, <2>2, <2>3, BatchToQueue
<1>12. ASSUME NEW w \in Workers, NEW d \in job[w].batch, RequeueFails(w, d)
       PROVE  Good
  <2>1. OthersWait(w) /\ job'[w].pc = "dequeue" /\ job'[w].batch = {}
    BY <1>12, <1>t DEF RequeueFails, OthersWait, TypeInv, TypeOK, Job
  <2>2. /\ job[w].pc = "requeue" /\ queues' = queues /\ deliveries' = deliveries
        /\ records' = records /\ lost' = lost \cup {b.msg : b \in job[w].batch}
    BY <1>12 DEF RequeueFails, storeVars
  <2> QED BY <2>1, <2>2, BatchEnds
<1>13. ASSUME NEW w \in Workers, NEW e, Dequeue(w, e)
       PROVE  Good
  <2>1. /\ OthersWait(w) /\ job'[w].pc = "lease" /\ job'[w].batch = job[w].batch
        /\ job'[w].msg = e.msg
    BY <1>13, <1>t, JobEffect DEF Dequeue
  <2>2. job[w].pc = "dequeue" /\ DequeueEntry(job[w].agent, e) /\ lost' = lost
    BY <1>13 DEF Dequeue
  <2>3. job[w].agent \in Agents
    BY <2>2, JobFacts
  <2>4. e.msg \in Msgs
    BY <1>t, <2>2, <2>3 DEF DequeueEntry, IsHead, TypeInv, TypeOK, StoreTypeOK, Queue, Entry
  <2> QED BY <2>1, <2>2, <2>3, <2>4, QueueToHand
<1>14. ASSUME NEW w \in Workers, Claim(w)
       PROVE  Good
  <2>1. PICK m0 \in Msgs : job[w].msg = m0
    BY <1>14, JobFacts DEF Claim
  <2>2. OthersWait(w) /\ job'[w].pc = "idle" /\ job'[w].batch = job[w].batch
    BY <1>14, <1>t, JobEffect, JobFacts DEF Claim
  <2>3. job[w].pc \in HandPC /\ LeaseMessage(m0, job[w].agent) /\ lost' = lost
    BY <1>14, <2>1 DEF Claim
  <2> QED BY <2>1, <2>2, <2>3, HandToLease
<1>15. ASSUME NEW w \in Workers, NEW d \in deliveries, Ack(w, d)
       PROVE  Good
  <2>1. PICK m0 \in Msgs : d.msg = m0
    BY JobFacts
  <2>2. OthersWait(w) /\ job'[w].pc = "idle" /\ job'[w].batch = job[w].batch
    BY <1>15, <1>t, JobEffect, JobFacts DEF Ack
  <2>3. job[w].pc = "ack" /\ AckDelivery(d) /\ lost' = lost
    BY <1>15 DEF Ack
  <2> QED BY <2>1, <2>2, <2>3, LeaseEnds
<1>16. ASSUME NEW w \in Workers, NEW d \in deliveries, Nack(w, d)
       PROVE  Good
  <2>1. PICK m0 \in Msgs : d.msg = m0
    BY JobFacts
  <2>2. /\ OthersWait(w) /\ job'[w].pc = "putBack" /\ job'[w].msg = m0
        /\ job'[w].batch = job[w].batch
    BY <1>16, <1>t, <2>1, JobEffect DEF Nack
  <2>3. job[w].pc = "nack" /\ ReleaseDelivery(d) /\ lost' = lost
    BY <1>16 DEF Nack
  <2> QED BY <2>1, <2>2, <2>3, LeaseToHand
<1>17. ASSUME NEW d \in deliveries, LeaseElapses(d)
       PROVE  Good
  <2>1. /\ queues' = queues /\ deliveries' = deliveries /\ records' = records
        /\ lost' = lost /\ job' = job
    BY <1>17 DEF LeaseElapses
  <2>2. \A m \in Msgs : Custody(m)' = Custody(m)
    BY <2>1 DEF Custody, InQueue, InHand, InBatch, OnLease, QueuedCopies
  <2> QED BY <2>1, <2>2 DEF Stays, Live, Exists
<1>18. ASSUME NEW gone \in Removals, RemoveAgents(gone)
       PROVE  Good
  BY <1>18, PurgePlaces DEF RemoveAgents
<1>19. CASE UNCHANGED vars
  <2>1. /\ queues' = queues /\ deliveries' = deliveries /\ records' = records
        /\ lost' = lost /\ job' = job
    BY <1>19 DEF vars, storeVars
  <2>2. \A m \in Msgs : Custody(m)' = Custody(m)
    BY <2>1 DEF Custody, InQueue, InHand, InBatch, OnLease, QueuedCopies
  <2> QED BY <2>1, <2>2 DEF Stays, Live, Exists
<1> QED
  BY <1>1, <1>2, <1>3, <1>4, <1>5, <1>6, <1>7, <1>8, <1>9, <1>10, <1>11,
     <1>12, <1>13, <1>14, <1>15, <1>16, <1>17, <1>18, <1>19 DEF Next, Step

-----------------------------------------------------------------------------
(* Records and leases. *)

LeaseFits(d, r, to) ==
  r.status = "leased" /\ r.attempts = d.attempt /\ to = d.agent

Balanced(r) ==
  r.attempts =
    r.requeues + (IF r.status \in {"leased", "acked"} THEN 1 ELSE 0)

LEMMA RecordsNow ==
  LeaseMatchesRecord <=>
    /\ \A d \in deliveries : LeaseFits(d, records[d.msg], env[d.msg].to)
    /\ \A m \in Msgs : records[m] # NoRecord =>
         /\ records[m].status = "leased" => \E d \in deliveries : d.msg = m
         /\ Balanced(records[m])
BY DEF LeaseMatchesRecord, LeaseFits, Balanced, OnLease, Exists

LEMMA RecordsAfter ==
  LeaseMatchesRecord' <=>
    /\ \A d \in deliveries' : LeaseFits(d, records'[d.msg], env'[d.msg].to)
    /\ \A m \in Msgs : records'[m] # NoRecord =>
         /\ records'[m].status = "leased" => \E d \in deliveries' : d.msg = m
         /\ Balanced(records'[m])
BY DEF LeaseMatchesRecord, LeaseFits, Balanced, OnLease, Exists

(* A message with a lease out is not in any hand, and has no other lease. *)
LEMMA LeaseIsOnly ==
  ASSUME CustodyInv, NEW d \in deliveries
  PROVE  /\ d.msg \in Msgs
         /\ \A w \in Workers : job[w].pc \in HandPC => job[w].msg # d.msg
         /\ \A e \in deliveries : e.msg = d.msg => e = d
<1>1. d.msg \in Msgs
  BY DEF CustodyInv, TypeInv, TypeOK, StoreTypeOK, Delivery
<1>2. Custody(d.msg) = {<<"lease", d>>}
  BY <1>1, Places, OnlyPlace DEF CustodyInv
<1>3. ASSUME NEW w \in Workers, job[w].pc \in HandPC, job[w].msg = d.msg
      PROVE  FALSE
  <2>1. <<"hand", w>> \in Custody(d.msg)
    BY <1>3, Places
  <2> QED BY <1>2, <2>1
<1>4. ASSUME NEW e \in deliveries, e.msg = d.msg
      PROVE  e = d
  <2>1. <<"lease", e>> \in Custody(d.msg)
    BY <1>4, Places
  <2> QED BY <1>2, <2>1
<1> QED BY <1>1, <1>3, <1>4

LEMMA RecordTypeOf ==
  ASSUME TypeInv, NEW m \in Msgs
  PROVE  /\ records[m] # NoRecord => records[m] \in Record
         /\ records[m].status \in Status => records[m] \in Record
         /\ \A r : [records EXCEPT ![m] = r][m] = r
         /\ \A r, n : n \in Msgs /\ n # m => [records EXCEPT ![m] = r][n] = records[n]
BY DEF TypeInv, TypeOK, StoreTypeOK, NoRecord, Status

LEMMA RecordsKept ==
  ASSUME CustodyInv, [Next]_vars
  PROVE  LeaseMatchesRecord'
<1>i. TypeInv /\ LeaseMatchesRecord /\ RegisterIsFresh
  BY DEF CustodyInv
<1>r. /\ \A d \in deliveries : LeaseFits(d, records[d.msg], env[d.msg].to)
      /\ \A m \in Msgs : records[m] # NoRecord =>
           /\ records[m].status = "leased" => \E d \in deliveries : d.msg = m
           /\ Balanced(records[m])
  BY <1>i, RecordsNow
<1> USE DEF At, HandPC, Carries, Publishing
<1>1. ASSUME records' = records, deliveries' = deliveries,
             \A d \in deliveries : env'[d.msg].to = env[d.msg].to
      PROVE  LeaseMatchesRecord'
  BY <1>1, <1>r, RecordsAfter
<1>2. ASSUME NEW w \in Workers, NEW m \in Msgs, NEW to \in Agents,
             NEW key \in Keys \cup {Nil}, Authorize(w, m, to, key)
      PROVE  LeaseMatchesRecord'
  <2>1. records[m] = NoRecord
    BY <1>2, <1>i DEF Authorize, IsNextId, RegisterIsFresh, Fresh, Exists
  <2>2. \A d \in deliveries : d.msg # m
    BY <1>r, <2>1 DEF LeaseFits, NoRecord
  <2>3. \A n \in Msgs \ {m} : env'[n] = env[n]
    BY <1>2, <1>i DEF Authorize, TypeInv, TypeOK, StoreTypeOK
  <2>4. \A d \in deliveries : env'[d.msg] = env[d.msg]
    BY <2>2, <2>3, LeaseIsOnly
  <2> QED BY <1>1, <1>2, <2>4 DEF Authorize
<1>3. ASSUME NEW w \in Workers, RegisterReplay(w)
      PROVE  LeaseMatchesRecord'
  <2>1. ASSUME NEW m \in Msgs
        PROVE  /\ (records'[m] = NoRecord) <=> (records[m] = NoRecord)
               /\ records'[m].status = records[m].status
               /\ records'[m].attempts = records[m].attempts
               /\ records'[m].requeues = records[m].requeues
    <3>1. CASE m # ReplayOf(job[w].msg)
      BY <1>3, <1>i, <3>1 DEF RegisterReplay, CountReplay, TypeInv, TypeOK, StoreTypeOK
    <3>2. CASE m = ReplayOf(job[w].msg)
      <4>1. records[m] # NoRecord
        BY <1>3, <3>2 DEF RegisterReplay, ReplayOf, Exists
      <4>2. records[m] \in Record
        BY <1>i, <4>1 DEF TypeInv, TypeOK, StoreTypeOK
      <4>3. records'[m] = [records[m] EXCEPT !.replays = @ + 1]
        BY <1>3, <1>i, <3>2 DEF RegisterReplay, CountReplay, TypeInv, TypeOK, StoreTypeOK
      <4> QED BY <4>1, <4>2, <4>3 DEF Record, NoRecord, Status
    <3> QED BY <3>1, <3>2
  <2>2. deliveries' = deliveries /\ env' = env
    BY <1>3 DEF RegisterReplay, CountReplay
  <2>3. \A d \in deliveries : LeaseFits(d, records'[d.msg], env'[d.msg].to)
    BY <1>r, <2>1, <2>2, LeaseIsOnly DEF LeaseFits
  <2>4. \A m \in Msgs : records'[m] # NoRecord => Balanced(records'[m])
    BY <1>r, <2>1 DEF Balanced
  <2> QED BY <1>r, <2>1, <2>2, <2>3, <2>4, RecordsAfter
<1>4. ASSUME NEW w \in Workers, Register(w)
      PROVE  LeaseMatchesRecord'
  <2>0. PICK m0 \in Msgs : job[w].msg = m0
    BY <1>4, JobFacts DEF Register
  <2>1. records[m0] = NoRecord /\ records' = [records EXCEPT ![m0] = NewRecord]
        /\ deliveries' = deliveries /\ env' = env
    BY <1>4, <1>i, <2>0 DEF Register, CreateRecord, RegisterIsFresh, Fresh, Exists
  <2>2. \A d \in deliveries : d.msg # m0
    BY <1>r, <2>1 DEF LeaseFits, NoRecord
  <2>3. records'[m0] = NewRecord /\ \A m \in Msgs \ {m0} : records'[m] = records[m]
    BY <1>i, <2>1, RecordTypeOf
  <2>4. \A d \in deliveries : LeaseFits(d, records'[d.msg], env'[d.msg].to)
    BY <1>r, <2>1, <2>2, <2>3, LeaseIsOnly
  <2>5. Balanced(NewRecord) /\ NewRecord.status # "leased"
    BY DEF Balanced, NewRecord, NoRecord
  <2> QED BY <1>r, <2>1, <2>3, <2>4, <2>5, RecordsAfter
<1>5. ASSUME NEW w \in Workers, Abort(w)
      PROVE  LeaseMatchesRecord'
  <2>0. PICK m0 \in Msgs : job[w].msg = m0
    BY <1>5, JobFacts DEF Abort
  <2>1. records' = [records EXCEPT ![m0] = NoRecord]
        /\ deliveries' = deliveries /\ env' = env
    BY <1>5, <2>0 DEF Abort, AbortRecord
  <2>2. \A d \in deliveries : d.msg # m0
    BY <1>5, <2>0, LeaseIsOnly DEF Abort
  <2>3. records'[m0] = NoRecord /\ \A m \in Msgs \ {m0} : records'[m] = records[m]
    BY <1>i, <2>1, RecordTypeOf
  <2>4. \A d \in deliveries : LeaseFits(d, records'[d.msg], env'[d.msg].to)
    BY <1>r, <2>1, <2>2, <2>3, LeaseIsOnly
  <2> QED BY <1>r, <2>1, <2>3, <2>4, RecordsAfter
<1>6. ASSUME NEW w \in Workers, Sweep(w)
      PROVE  LeaseMatchesRecord'
  <2>1. /\ \A m \in Msgs : records'[m] = IF \E d \in overdue : d.msg = m
                                         THEN Requeued(records[m]) ELSE records[m]
        /\ deliveries' = deliveries \ overdue /\ env' = env
        /\ overdue \subseteq deliveries
    BY <1>6, JobFacts DEF Sweep, ExpireLeases
  <2>2. ASSUME NEW d \in deliveries \ overdue
        PROVE  LeaseFits(d, records'[d.msg], env'[d.msg].to)
    <3>1. d.msg \in Msgs /\ \A e \in overdue : e.msg # d.msg
      BY <2>1, LeaseIsOnly
    <3> QED BY <1>r, <2>1, <3>1
  <2>3. ASSUME NEW m \in Msgs, records'[m] # NoRecord
        PROVE  /\ records'[m].status = "leased" =>
                    \E d \in deliveries \ overdue : d.msg = m
               /\ Balanced(records'[m])
    <3>1. CASE \E d \in overdue : d.msg = m
      <4>1. records[m].status = "leased"
        BY <1>r, <2>1, <3>1 DEF LeaseFits
      <4>2. records[m] \in Record /\ Balanced(records[m])
        BY <1>i, <1>r, <4>1, RecordTypeOf DEF Status, NoRecord
      <4>3. records'[m] = Requeued(records[m])
        BY <2>1, <3>1
      <4> QED BY <4>1, <4>2, <4>3 DEF Requeued, Balanced, Record
    <3>2. CASE ~ \E d \in overdue : d.msg = m
      BY <1>r, <2>1, <2>3, <3>2
    <3> QED BY <3>1, <3>2
  <2> QED BY <2>1, <2>2, <2>3, RecordsAfter
<1>7. ASSUME NEW w \in Workers, Claim(w)
      PROVE  LeaseMatchesRecord'
  <2>0. PICK m0 \in Msgs : job[w].msg = m0
    BY <1>7, JobFacts DEF Claim
  <2> DEFINE d0 == NextDelivery(m0, job[w].agent)
  <2>1. /\ records[m0] # NoRecord /\ env[m0].to = job[w].agent
        /\ deliveries' = deliveries \cup {d0} /\ env' = env
        /\ LeaseMessage(m0, job[w].agent)
    BY <1>7, <2>0 DEF Claim, CanLease, Exists, LeaseMessage
  <2>2. \A d \in deliveries : d.msg # m0
    BY <1>7, <2>0, LeaseIsOnly DEF Claim
  <2>3. records[m0] \in Record /\ records[m0].status = "queued"
    <3>1. <<"hand", w>> \in Custody(m0)
      BY <1>7, <2>0, Places DEF Claim
    <3>2. Live(m0)
      BY <3>1, OnlyPlace DEF CustodyInv
    <3> QED BY <1>i, <2>1, <2>2, <3>2, OffLease, RecordTypeOf DEF OnLease
  <2>4. \A m \in Msgs \ {m0} : records'[m] = records[m]
    BY <1>i, <2>1 DEF LeaseMessage, TypeInv, TypeOK, StoreTypeOK
  <2>5. /\ records'[m0].status = "leased"
        /\ records'[m0].attempts = records[m0].attempts + 1
        /\ records'[m0].requeues = records[m0].requeues
    BY <1>i, <2>1, <2>3 DEF LeaseMessage, TypeInv, TypeOK, StoreTypeOK, Record
  <2>6. d0.msg = m0 /\ LeaseFits(d0, records'[m0], env'[m0].to)
    BY <2>1, <2>5 DEF LeaseFits, NextDelivery
  <2>7. ASSUME NEW d \in deliveries
        PROVE  LeaseFits(d, records'[d.msg], env'[d.msg].to)
    BY <1>r, <2>1, <2>2, <2>4, LeaseIsOnly
  <2>8. Balanced(records[m0])
    BY <1>r, <2>1
  <2>9. Balanced(records'[m0])
    BY <2>3, <2>5, <2>8 DEF Balanced, Record
  <2> HIDE DEF d0
  <2>10. \A d \in deliveries' : LeaseFits(d, records'[d.msg], env'[d.msg].to)
    BY <2>1, <2>6, <2>7
  <2>11. ASSUME NEW m \in Msgs, records'[m] # NoRecord
         PROVE  /\ records'[m].status = "leased" => \E d \in deliveries' : d.msg = m
                /\ Balanced(records'[m])
    <3>1. CASE m = m0
      BY <2>1, <2>6, <2>9, <3>1
    <3>2. CASE m # m0
      BY <1>r, <2>1, <2>4, <2>11, <3>2
    <3> QED BY <3>1, <3>2
  <2> QED BY <2>10, <2>11, RecordsAfter
<1>8. ASSUME NEW w \in Workers, NEW d \in deliveries, Ack(w, d) \/ Nack(w, d)
      PROVE  LeaseMatchesRecord'
  <2>0. PICK m0 \in Msgs : d.msg = m0
    BY JobFacts
  <2>1. /\ deliveries' = deliveries \ {d} /\ env' = env
        /\ \/ records' = [records EXCEPT ![m0].status = "acked"]
           \/ records' = [records EXCEPT ![m0] = Requeued(@)]
    BY <1>8, <2>0 DEF Ack, Nack, AckDelivery, ReleaseDelivery
  <2>2. \A e \in deliveries \ {d} : e.msg \in Msgs \ {m0}
    BY <2>0, LeaseIsOnly
  <2>3. \A m \in Msgs \ {m0} : records'[m] = records[m]
    BY <1>i, <2>1 DEF TypeInv, TypeOK, StoreTypeOK
  <2>4. records[m0].status = "leased" /\ records[m0] # NoRecord
    BY <1>r, <2>0 DEF LeaseFits, NoRecord
  <2>5. records[m0] \in Record /\ Balanced(records[m0])
    BY <1>i, <1>r, <2>4, RecordTypeOf
  <2>6. \/ records'[m0] = [records[m0] EXCEPT !.status = "acked"]
        \/ records'[m0] = Requeued(records[m0])
    BY <1>i, <2>1 DEF TypeInv, TypeOK, StoreTypeOK
  <2>7. Balanced(records'[m0]) /\ records'[m0].status # "leased"
    BY <2>4, <2>5, <2>6 DEF Balanced, Record, Requeued
  <2>8. \A e \in deliveries' : LeaseFits(e, records'[e.msg], env'[e.msg].to)
    BY <1>r, <2>1, <2>2, <2>3
  <2>9. ASSUME NEW m \in Msgs, records'[m] # NoRecord
        PROVE  /\ records'[m].status = "leased" => \E e \in deliveries' : e.msg = m
               /\ Balanced(records'[m])
    <3>1. CASE m = m0
      BY <2>7, <3>1
    <3>2. CASE m # m0
      BY <1>r, <2>0, <2>1, <2>3, <2>9, <3>2
    <3> QED BY <3>1, <3>2
  <2> QED BY <2>8, <2>9, RecordsAfter
<1>9. ASSUME NEW w \in Workers,
             \/ \E a \in Agents, call \in Calls : Authenticate(w, a, call)
             \/ Refuse(w) \/ GiveUp(w) \/ PublishEnqueue(w) \/ PublishEnqueueFails(w)
             \/ CountQueued(w) \/ PutBack(w) \/ PutBackFails(w)
             \/ \E d \in job[w].batch : Requeue(w, d) \/ RequeueFails(w, d)
             \/ \E e : Dequeue(w, e)
      PROVE  LeaseMatchesRecord'
  <2>1. records' = records /\ deliveries' = deliveries /\ env' = env
    BY <1>9 DEF Authenticate, Refuse, GiveUp, PublishEnqueue, PublishEnqueueFails,
                CountQueued, PutBack, PutBackFails, Requeue, RequeueFails, Dequeue,
                Enqueue, DequeueEntry, storeVars
  <2> QED BY <1>1, <2>1
<1>10. ASSUME \/ \E d \in deliveries : LeaseElapses(d)
              \/ \E gone \in Removals : RemoveAgents(gone)
              \/ UNCHANGED vars
       PROVE  LeaseMatchesRecord'
  <2>1. records' = records /\ deliveries' = deliveries /\ env' = env
    BY <1>10 DEF LeaseElapses, RemoveAgents, PurgeAgents, vars, storeVars
  <2> QED BY <1>1, <2>1
<1> QED
  BY <1>2, <1>3, <1>4, <1>5, <1>6, <1>7, <1>8, <1>9, <1>10 DEF Next, Step

-----------------------------------------------------------------------------
(* Addresses, batches and registrations. *)

(* Every queued message has been built, and so is every one in a request. *)
LEMMA AddressedKept ==
  ASSUME CustodyInv, [Next]_vars
  PROVE  Addressed'
<1>i. TypeInv /\ Addressed /\ RegisterIsFresh /\ NothingForgotten
  BY DEF CustodyInv
<1> USE DEF At, Carries, Publishing, HandPC
<1> DEFINE Queues == \A a \in Agents : \A e \in queues[a].entries : env[e.msg].to = a
           Hands  == \A w \in Workers :
                       job[w].pc = "lease" => env[job[w].msg].to = job[w].agent
<1>q. Queues /\ Hands
  BY <1>i DEF Addressed
<1>p. Queues' /\ Hands' => Addressed'
  BY DEF Addressed
<1>1. ASSUME queues' = queues, env' = env
      PROVE  Queues'
  BY <1>1, <1>q
<1>2. ASSUME NEW w \in Workers, OthersWait(w), env' = env, job'[w].pc # "lease"
      PROVE  Hands'
  BY <1>2, <1>q DEF OthersWait
<1>3. ASSUME NEW m \in Msgs, CanEnqueue(m), Enqueue(m), env' = env
      PROVE  Queues'
  BY <1>3, <1>i, <1>q, EnqueueEntry
<1>4. ASSUME NEW w \in Workers, NEW a \in Agents, NEW call \in Calls,
             Authenticate(w, a, call)
      PROVE  Addressed'
  <2>1. OthersWait(w) /\ job'[w].pc # "lease"
    BY <1>4, <1>i DEF Authenticate, OthersWait, IdleJob, TypeInv, TypeOK, Calls
  <2> QED BY <1>1, <1>2, <1>4, <1>p, <2>1 DEF Authenticate, storeVars
<1>5. ASSUME NEW w \in Workers,
             \/ Refuse(w) \/ GiveUp(w) \/ RegisterReplay(w) \/ Register(w)
             \/ PublishEnqueueFails(w) \/ Abort(w) \/ CountQueued(w) \/ Claim(w)
             \/ PutBackFails(w)
             \/ \E d \in deliveries : Ack(w, d) \/ Nack(w, d)
      PROVE  Addressed'
  <2>1. OthersWait(w) /\ job'[w].pc # "lease"
    BY <1>5, <1>i, JobEffect
       DEF Refuse, GiveUp, RegisterReplay, Register, PublishEnqueueFails, Abort,
           CountQueued, Claim, PutBackFails, Ack, Nack
  <2>2. queues' = queues /\ env' = env
    BY <1>5 DEF Refuse, GiveUp, RegisterReplay, Register, PublishEnqueueFails,
           Abort, CountQueued, Claim, PutBackFails, Ack, Nack, CountReplay,
           CreateRecord, AbortRecord, LeaseMessage, AckDelivery, ReleaseDelivery,
           storeVars
  <2> QED BY <1>1, <1>2, <1>p, <2>1, <2>2
<1>6. ASSUME NEW w \in Workers, NEW m \in Msgs, NEW to \in Agents,
             NEW key \in Keys \cup {Nil}, Authorize(w, m, to, key)
      PROVE  Addressed'
  <2>1. Custody(m) = {}
    BY <1>6, <1>i DEF Authorize, IsNextId, RegisterIsFresh, Fresh, Live, NothingForgotten
  <2>2. \A n : n # m => env'[n] = env[n]
    BY <1>6, <1>i DEF Authorize, TypeInv, TypeOK, StoreTypeOK
  <2>3. Queues'
    <3>1. ASSUME NEW a \in Agents, NEW e \in queues[a].entries, e.msg = m
          PROVE  FALSE
      <4>1. <<"queue", <<a, e>>>> \in Custody(m)
        BY <3>1, Places
      <4> QED BY <2>1, <4>1
    <3> QED BY <1>6, <1>q, <2>2, <3>1 DEF Authorize
  <2>4. Hands'
    <3>1. OthersWait(w) /\ job'[w].pc # "lease"
      BY <1>6, <1>i, JobEffect DEF Authorize
    <3>2. \A v \in Workers : job[v].pc = "lease" => job[v].msg # m
      BY <2>1, Places
    <3> QED BY <1>q, <2>2, <3>1, <3>2 DEF OthersWait
  <2> QED BY <1>p, <2>3, <2>4
<1>7. ASSUME NEW w \in Workers, PublishEnqueue(w) \/ PutBack(w)
      PROVE  Addressed'
  <2>1. OthersWait(w) /\ job'[w].pc # "lease"
    BY <1>7, <1>i, JobEffect DEF PublishEnqueue, PutBack
  <2>2. PICK m \in Msgs : job[w].msg = m
    BY <1>7, JobFacts DEF PublishEnqueue, PutBack
  <2>3. CanEnqueue(m) /\ Enqueue(m) /\ env' = env
    BY <1>7, <2>2 DEF PublishEnqueue, PutBack
  <2> QED BY <1>2, <1>3, <1>p, <2>1, <2>3
<1>8. ASSUME NEW w \in Workers, Sweep(w)
      PROVE  Addressed'
  <2>1. OthersWait(w) /\ job'[w].pc # "lease" /\ queues' = queues /\ env' = env
    BY <1>8, <1>i DEF Sweep, ExpireLeases, OthersWait, TypeInv, TypeOK, Job
  <2> QED BY <1>1, <1>2, <1>p, <2>1
<1>9. ASSUME NEW w \in Workers, NEW d \in job[w].batch, Requeue(w, d)
      PROVE  Addressed'
  <2>1. OthersWait(w) /\ job'[w].pc # "lease"
    BY <1>9, <1>i DEF Requeue, OthersWait, TypeInv, TypeOK, Job
  <2>2. CanEnqueue(d.msg) /\ Enqueue(d.msg) /\ env' = env /\ d.msg \in Msgs
    BY <1>9, JobFacts DEF Requeue
  <2> QED BY <1>2, <1>3, <1>p, <2>1, <2>2
<1>10. ASSUME NEW w \in Workers, NEW d \in job[w].batch, RequeueFails(w, d)
       PROVE  Addressed'
  <2>1. OthersWait(w) /\ job'[w].pc # "lease" /\ queues' = queues /\ env' = env
    BY <1>10, <1>i DEF RequeueFails, OthersWait, TypeInv, TypeOK, Job, storeVars
  <2> QED BY <1>1, <1>2, <1>p, <2>1
<1>11. ASSUME NEW w \in Workers, NEW e, Dequeue(w, e)
       PROVE  Addressed'
  <2>1. /\ OthersWait(w) /\ job'[w].pc = "lease" /\ job'[w].msg = e.msg
        /\ job'[w].agent = job[w].agent /\ env' = env /\ job[w].agent \in Agents
    BY <1>11, <1>i, JobEffect, JobFacts DEF Dequeue
  <2>2. /\ e \in queues[job[w].agent].entries
        /\ \A a \in Agents : queues'[a].entries \subseteq queues[a].entries
    BY <1>11, <1>i DEF Dequeue, DequeueEntry, IsHead, Keep, TypeInv, TypeOK, StoreTypeOK
  <2>3. Queues'
    BY <1>q, <2>1, <2>2
  <2>4. Hands'
    BY <1>q, <2>1, <2>2 DEF OthersWait
  <2> QED BY <1>p, <2>3, <2>4
<1>12. ASSUME \/ \E d \in deliveries : LeaseElapses(d)
              \/ UNCHANGED vars
       PROVE  Addressed'
  <2>1. queues' = queues /\ env' = env /\ job' = job
    BY <1>12 DEF LeaseElapses, vars, storeVars
  <2> QED BY <1>1, <1>p, <1>q, <2>1
<1>13. ASSUME NEW gone \in Removals, RemoveAgents(gone)
       PROVE  Addressed'
  <2>1. env' = env /\ job' = job
    BY <1>13 DEF RemoveAgents, PurgeAgents
  <2>2. \A a \in Agents : queues'[a].entries \subseteq queues[a].entries
    BY <1>13 DEF RemoveAgents, PurgeAgents, Keep, Kept
  <2> QED BY <1>p, <1>q, <2>1, <2>2
<1> QED
  BY <1>4, <1>5, <1>6, <1>7, <1>8, <1>9, <1>10, <1>11, <1>12, <1>13 DEF Next, Step

LEMMA BatchKept ==
  ASSUME CustodyInv, [Next]_vars
  PROVE  BatchOnlyInRequeue'
<1>i. TypeInv /\ BatchOnlyInRequeue
  BY DEF CustodyInv
<1> USE DEF At
<1>1. ASSUME NEW w \in Workers, OthersWait(w),
             job'[w].batch = {} \/ job'[w].pc = "requeue"
      PROVE  BatchOnlyInRequeue'
  BY <1>1, <1>i DEF BatchOnlyInRequeue, OthersWait
<1>2. ASSUME NEW w \in Workers, NEW a \in Agents, NEW call \in Calls,
             Authenticate(w, a, call)
      PROVE  BatchOnlyInRequeue'
  <2>1. OthersWait(w) /\ job'[w].batch = {}
    BY <1>2, <1>i DEF Authenticate, OthersWait, IdleJob, TypeInv, TypeOK
  <2> QED BY <1>1, <2>1
<1>3. ASSUME NEW w \in Workers,
             \/ Refuse(w) \/ GiveUp(w) \/ RegisterReplay(w) \/ Register(w)
             \/ PublishEnqueue(w) \/ PublishEnqueueFails(w) \/ Abort(w)
             \/ CountQueued(w) \/ Claim(w) \/ PutBack(w) \/ PutBackFails(w)
             \/ \E m, to, key : Authorize(w, m, to, key)
             \/ \E e : Dequeue(w, e)
             \/ \E d \in deliveries : Ack(w, d) \/ Nack(w, d)
      PROVE  BatchOnlyInRequeue'
  <2>1. job[w].pc # "requeue"
    BY <1>3 DEF Refuse, GiveUp, RegisterReplay, Register, PublishEnqueue,
           PublishEnqueueFails, Abort, CountQueued, Claim, PutBack, PutBackFails,
           Authorize, MayAddress, Dequeue, Ack, Nack
  <2>2. job[w].batch = {}
    BY <2>1, JobFacts
  <2>3. (\E pc : Go(w, pc)) \/ (\E pc, m : Hold(w, pc, m)) \/ Finish(w)
    BY <1>3 DEF Refuse, GiveUp, RegisterReplay, Register, PublishEnqueue,
           PublishEnqueueFails, Abort, CountQueued, Claim, PutBack, PutBackFails,
           Authorize, Dequeue, Ack, Nack
  <2>4. OthersWait(w) /\ job'[w].batch = {}
    BY <1>i, <2>2, <2>3, JobEffect
  <2> QED BY <1>1, <2>4
<1>4. ASSUME NEW w \in Workers, Sweep(w)
      PROVE  BatchOnlyInRequeue'
  <2>1. OthersWait(w) /\ (job'[w].batch = {} \/ job'[w].pc = "requeue")
    BY <1>4, <1>i DEF Sweep, OthersWait, TypeInv, TypeOK, Job
  <2> QED BY <1>1, <2>1
<1>5. ASSUME NEW w \in Workers, NEW d \in job[w].batch,
             Requeue(w, d) \/ RequeueFails(w, d)
      PROVE  BatchOnlyInRequeue'
  <2>1. CASE Requeue(w, d)
    <3>1. OthersWait(w) /\ (job'[w].batch = {} \/ job'[w].pc = "requeue")
      BY <2>1, <1>i DEF Requeue, OthersWait, TypeInv, TypeOK, Job
    <3> QED BY <1>1, <3>1
  <2>2. CASE RequeueFails(w, d)
    <3>1. OthersWait(w) /\ job'[w].batch = {}
      BY <2>2, <1>i DEF RequeueFails, OthersWait, TypeInv, TypeOK, Job
    <3> QED BY <1>1, <3>1
  <2> QED BY <1>5, <2>1, <2>2
<1>6. ASSUME \/ \E d \in deliveries : LeaseElapses(d)
             \/ \E gone \in Removals : RemoveAgents(gone)
             \/ UNCHANGED vars
      PROVE  BatchOnlyInRequeue'
  <2>1. job' = job
    BY <1>6 DEF LeaseElapses, RemoveAgents, vars
  <2> QED BY <1>i, <2>1 DEF BatchOnlyInRequeue
<1> QED BY <1>2, <1>3, <1>4, <1>5, <1>6 DEF Next, Step

(* What a step of w that builds no message and enters no registration has  *)
(* to leave alone for registrations to stay fresh.                         *)
LEMMA RegisterKept ==
  ASSUME CustodyInv, [Next]_vars
  PROVE  RegisterIsFresh'
<1>i. TypeInv /\ RegisterIsFresh /\ NothingForgotten
  BY DEF CustodyInv
<1> USE DEF At, Carries, Publishing, HandPC
<1>a. ASSUME env' = env,
             \A m \in Msgs : Fresh(m) =>
               \/ Fresh(m)'
               \/ env[m] # NoEnvelope /\ \A v \in Workers :
                    job'[v].pc = "register" => job'[v].msg # m,
             \A v \in Workers : job'[v].pc = "register" =>
               job[v].pc = "register" /\ job'[v].msg = job[v].msg
      PROVE  RegisterIsFresh'
  <2>1. \A v \in Workers : job'[v].pc = "register" => job'[v].msg \in Msgs
    BY <1>a, JobFacts
  <2>2. \A m \in Msgs : env'[m] = NoEnvelope => Fresh(m)'
    BY <1>a, <1>i DEF RegisterIsFresh
  <2>3. \A v \in Workers : job'[v].pc = "register" => Fresh(job'[v].msg)
    BY <1>a, <1>i DEF RegisterIsFresh
  <2>4. ASSUME NEW v \in Workers, job'[v].pc = "register"
        PROVE  records'[job'[v].msg] = NoRecord /\ job'[v].msg \notin lost'
    BY <1>a, <2>1, <2>3, <2>4 DEF Fresh, Exists
  <2>5. \A u, v \in Workers :
          job'[u].pc = "register" /\ job'[v].pc = "register"
          /\ job'[u].msg = job'[v].msg => u = v
    BY <1>a, <1>i DEF RegisterIsFresh
  <2> QED BY <2>2, <2>4, <2>5 DEF RegisterIsFresh, Fresh, Exists
<1>1. ASSUME NEW w \in Workers, OthersWait(w), job'[w].pc # "register",
             env' = env, records' = records, lost' = lost
      PROVE  RegisterIsFresh'
  BY <1>1, <1>a DEF OthersWait, Fresh, Exists
(* A message that is not live but has a place, or a record, is not fresh.  *)
<1>2. ASSUME NEW w \in Workers, OthersWait(w), job'[w].pc # "register",
             env' = env,
             \A m \in Msgs : records[m] = NoRecord => records'[m] = NoRecord,
             \A m \in lost' \ lost : m \in Msgs => records[m] # NoRecord
      PROVE  RegisterIsFresh'
  BY <1>2, <1>a DEF OthersWait, Fresh, Exists
<1>3. ASSUME NEW w \in Workers, NEW a \in Agents, NEW call \in Calls,
             Authenticate(w, a, call)
      PROVE  RegisterIsFresh'
  <2>1. OthersWait(w) /\ job'[w].pc # "register"
    BY <1>3, <1>i DEF Authenticate, OthersWait, IdleJob, TypeInv, TypeOK, Calls
  <2> QED BY <1>1, <1>3, <2>1 DEF Authenticate, storeVars
<1>4. ASSUME NEW w \in Workers,
             \/ Refuse(w) \/ GiveUp(w) \/ PublishEnqueue(w)
             \/ PublishEnqueueFails(w) \/ CountQueued(w) \/ PutBack(w)
             \/ \E e : Dequeue(w, e)
      PROVE  RegisterIsFresh'
  <2>1. OthersWait(w) /\ job'[w].pc # "register"
    BY <1>4, <1>i, JobEffect DEF Refuse, GiveUp, PublishEnqueue,
       PublishEnqueueFails, CountQueued, PutBack, Dequeue
  <2>2. records' = records /\ lost' = lost /\ env' = env
    BY <1>4 DEF Refuse, GiveUp, PublishEnqueue, PublishEnqueueFails,
       CountQueued, PutBack, Dequeue, Enqueue, DequeueEntry, storeVars
  <2> QED BY <1>1, <2>1, <2>2
<1>5. ASSUME NEW w \in Workers, NEW m \in Msgs, NEW to \in Agents,
             NEW key \in Keys \cup {Nil}, Authorize(w, m, to, key)
      PROVE  RegisterIsFresh'
  <2>1. OthersWait(w) /\ job'[w].pc = "register" /\ job'[w].msg = m
    BY <1>5, <1>i, JobEffect DEF Authorize
  <2>2. /\ env'[m] # NoEnvelope /\ \A n \in Msgs \ {m} : env'[n] = env[n]
        /\ env[m] = NoEnvelope /\ records' = records /\ lost' = lost
    BY <1>5, <1>i, NilAssumption
       DEF Authorize, IsNextId, TypeInv, TypeOK, StoreTypeOK, NoEnvelope
  <2>3. \A v \in Workers : job[v].pc = "register" => job[v].msg # m
    BY <1>i, <2>2, NilAssumption
       DEF TypeInv, JobShape, Envelope, NoEnvelope
  <2>4. Fresh(m)
    BY <1>i, <2>2 DEF RegisterIsFresh
  <2>5. \A n \in Msgs : env'[n] = NoEnvelope => Fresh(n)'
    BY <1>i, <2>2 DEF RegisterIsFresh, Fresh, Exists
  <2>6. \A v \in Workers : job'[v].pc = "register" =>
          records'[job'[v].msg] = NoRecord /\ job'[v].msg \notin lost'
    BY <1>i, <2>1, <2>2, <2>4 DEF RegisterIsFresh, OthersWait, Fresh, Exists
  <2>7. \A u, v \in Workers :
          job'[u].pc = "register" /\ job'[v].pc = "register"
          /\ job'[u].msg = job'[v].msg => u = v
    BY <1>i, <2>1, <2>3 DEF RegisterIsFresh, OthersWait
  <2> QED BY <2>5, <2>6, <2>7 DEF RegisterIsFresh, Fresh, Exists
<1>6. ASSUME NEW w \in Workers, RegisterReplay(w)
      PROVE  RegisterIsFresh'
  <2>1. OthersWait(w) /\ job'[w].pc # "register"
    BY <1>6, <1>i, JobEffect DEF RegisterReplay
  <2>2. \A m \in Msgs : records[m] = NoRecord => records'[m] = NoRecord
    BY <1>6, <1>i
       DEF RegisterReplay, CountReplay, ReplayOf, Exists, TypeInv, TypeOK, StoreTypeOK
  <2> QED BY <1>2, <1>6, <2>1, <2>2 DEF RegisterReplay
<1>7. ASSUME NEW w \in Workers, Register(w)
      PROVE  RegisterIsFresh'
  <2>0. PICK m0 \in Msgs : job[w].msg = m0
    BY <1>7, JobFacts DEF Register
  <2>1. OthersWait(w) /\ job'[w].pc # "register" /\ job[w].pc = "register"
    BY <1>7, <1>i, JobEffect DEF Register
  <2>2. /\ \A m \in Msgs \ {m0} : records'[m] = records[m]
        /\ lost' = lost /\ env' = env
    BY <1>7, <1>i, <2>0 DEF Register, CreateRecord, TypeInv, TypeOK, StoreTypeOK
  <2>3. env[m0] # NoEnvelope
    BY <1>i, <2>0, <2>1, NilAssumption DEF TypeInv, JobShape, Envelope, NoEnvelope
  <2>4. \A v \in Workers : job'[v].pc = "register" => job'[v].msg # m0
    BY <1>i, <2>0, <2>1 DEF OthersWait, RegisterIsFresh
  <2> QED BY <1>a, <2>1, <2>2, <2>3, <2>4 DEF OthersWait, Fresh, Exists
<1>8. ASSUME NEW w \in Workers, Abort(w) \/ PutBackFails(w)
      PROVE  RegisterIsFresh'
  <2>0. PICK m0 \in Msgs : job[w].msg = m0
    BY <1>8, JobFacts DEF Abort, PutBackFails
  <2>1. OthersWait(w) /\ job'[w].pc # "register"
    BY <1>8, <1>i, JobEffect DEF Abort, PutBackFails
  <2>2. records[m0] # NoRecord
    <3>1. <<"hand", w>> \in Custody(m0)
      BY <1>8, <2>0, Places DEF Abort, PutBackFails
    <3> QED BY <3>1, OnlyPlace DEF CustodyInv, Live, Exists
  <2>3. /\ \A m \in Msgs : records[m] = NoRecord => records'[m] = NoRecord
        /\ lost' = lost \cup {m0} /\ env' = env
    BY <1>8, <1>i, <2>0 DEF Abort, PutBackFails, AbortRecord, storeVars, TypeInv,
       TypeOK, StoreTypeOK
  <2> QED BY <1>2, <2>1, <2>2, <2>3
<1>9. ASSUME NEW w \in Workers, Sweep(w)
      PROVE  RegisterIsFresh'
  <2>1. OthersWait(w) /\ job'[w].pc # "register" /\ env' = env /\ lost' = lost
    BY <1>9, <1>i DEF Sweep, OthersWait, TypeInv, TypeOK, Job
  <2>2. ASSUME NEW m \in Msgs, records[m] = NoRecord
        PROVE  records'[m] = NoRecord
    <3>1. \A d \in overdue : records[d.msg].status = "leased"
      BY JobFacts DEF CustodyInv, LeaseMatchesRecord
    <3>2. ~ \E d \in overdue : d.msg = m
      BY <2>2, <3>1 DEF NoRecord
    <3> QED BY <1>9, <2>2, <3>2 DEF Sweep, ExpireLeases
  <2> QED BY <1>2, <2>1, <2>2
<1>10. ASSUME NEW w \in Workers, NEW d \in job[w].batch,
              Requeue(w, d) \/ RequeueFails(w, d)
       PROVE  RegisterIsFresh'
  <2>1. OthersWait(w) /\ job'[w].pc # "register" /\ env' = env /\ records' = records
    BY <1>10, <1>i DEF Requeue, RequeueFails, OthersWait, TypeInv, TypeOK, Job,
       Enqueue, storeVars
  <2>2. ASSUME NEW b \in job[w].batch
        PROVE  records[b.msg] # NoRecord
    <3>1. b.msg \in Msgs
      BY JobFacts
    <3>2. <<"batch", <<w, b>>>> \in Custody(b.msg)
      BY Places
    <3> QED BY <3>1, <3>2, OnlyPlace DEF CustodyInv, Live, Exists
  <2>3. lost' \subseteq lost \cup {b.msg : b \in job[w].batch}
    BY <1>10 DEF Requeue, RequeueFails
  <2> QED BY <1>2, <2>1, <2>2, <2>3
<1>11. ASSUME NEW w \in Workers, Claim(w)
       PROVE  RegisterIsFresh'
  <2>1. OthersWait(w) /\ job'[w].pc # "register"
    BY <1>11, <1>i, JobEffect DEF Claim
  <2>2. \A m \in Msgs : records[m] = NoRecord => records'[m] = NoRecord
    BY <1>11, <1>i DEF Claim, CanLease, Exists, LeaseMessage, TypeInv, TypeOK, StoreTypeOK
  <2> QED BY <1>2, <1>11, <2>1, <2>2 DEF Claim
<1>12. ASSUME NEW w \in Workers, NEW d \in deliveries, Ack(w, d) \/ Nack(w, d)
       PROVE  RegisterIsFresh'
  <2>1. OthersWait(w) /\ job'[w].pc # "register"
    BY <1>12, <1>i, JobEffect DEF Ack, Nack
  <2>2. records[d.msg] # NoRecord
    BY DEF CustodyInv, LeaseMatchesRecord, NoRecord
  <2>3. \A m \in Msgs : records[m] = NoRecord => records'[m] = NoRecord
    BY <1>12, <1>i, <2>2 DEF Ack, Nack, AckDelivery, ReleaseDelivery, TypeInv,
       TypeOK, StoreTypeOK
  <2> QED BY <1>2, <1>12, <2>1, <2>3 DEF Ack, Nack
<1>13. ASSUME \/ \E d \in deliveries : LeaseElapses(d)
              \/ UNCHANGED vars
       PROVE  RegisterIsFresh'
  <2>1. job' = job /\ env' = env /\ records' = records /\ lost' = lost
    BY <1>13 DEF LeaseElapses, vars, storeVars
  <2> QED BY <1>a, <2>1 DEF Fresh, Exists
<1>14. ASSUME NEW gone \in Removals, RemoveAgents(gone)
       PROVE  RegisterIsFresh'
  <2>1. /\ job' = job /\ env' = env /\ records' = records
        /\ lost' = lost \cup Purged(gone)
    BY <1>14 DEF RemoveAgents, PurgeAgents
  <2>2. ASSUME NEW m \in Purged(gone), m \in Msgs
        PROVE  records[m] # NoRecord
    <3>1. PICK a \in Agents : \E e \in queues[a].entries : e.msg = m
      BY DEF Purged, QueuedMsgs
    <3>2. PICK e \in queues[a].entries : e.msg = m
      BY <3>1
    <3>3. <<"queue", <<a, e>>>> \in Custody(m)
      BY <3>2, Places
    <3> QED BY <2>2, <3>3, OnlyPlace DEF CustodyInv, Live, Exists
  <2> QED BY <1>a, <2>1, <2>2 DEF Fresh, Exists
<1> QED
  BY <1>3, <1>4, <1>5, <1>6, <1>7, <1>8, <1>9, <1>10, <1>11, <1>12, <1>13,
     <1>14 DEF Next, Step

-----------------------------------------------------------------------------
(* The theorems. *)

(* The inductive invariant behind them. *)
LEMMA CustodyIsInvariant == Spec => []CustodyInv
<1>1. Init => CustodyInv
  <2> SUFFICES ASSUME Init PROVE CustodyInv
    OBVIOUS
  <2>1. TypeInv
    BY TypeInit
  <2>2. \A m \in Msgs : Custody(m) = {} /\ records[m] = NoRecord
    BY DEF Init, StoreInit, Custody, InQueue, InHand, InBatch, OnLease,
           QueuedCopies, EmptyQueue, IdleJob, HandPC
  <2>3. SingleCustody /\ NothingForgotten
    BY <2>2 DEF SingleCustody, NothingForgotten, Live, Exists
  <2>4. LeaseMatchesRecord
    BY <2>2 DEF Init, StoreInit, LeaseMatchesRecord, Exists
  <2>5. Addressed /\ BatchOnlyInRequeue /\ RegisterIsFresh
    BY <2>2 DEF Init, StoreInit, EmptyQueue, IdleJob, Addressed, At,
                BatchOnlyInRequeue, RegisterIsFresh, Fresh, Exists
  <2> QED BY <2>1, <2>3, <2>4, <2>5 DEF CustodyInv
<1>2. CustodyInv /\ [Next]_vars => CustodyInv'
  <2> SUFFICES ASSUME CustodyInv, [Next]_vars PROVE CustodyInv'
    OBVIOUS
  <2>1. TypeInv'
    BY TypeStep DEF CustodyInv
  <2> QED BY <2>1, CustodyKept, RecordsKept, AddressedKept, BatchKept,
             RegisterKept DEF CustodyInv
<1> QED BY <1>1, <1>2, PTL DEF Spec

(* A message is never in two places at once: publish, pull, nack and the   *)
(* requeue of expired leases never leave a second deliverable copy.        *)
THEOREM OneCopy == Spec => []SingleCustody
<1>1. CustodyInv => SingleCustody
  BY DEF CustodyInv
<1> QED BY <1>1, CustodyIsInvariant, PTL

(* A registered message is in some queue, request or lease exactly until   *)
(* it is acked or lost to the removal of an agent.                         *)
THEOREM CustodyUntilTheEnd == Spec => []NothingForgotten
<1>1. CustodyInv => NothingForgotten
  BY DEF CustodyInv
<1> QED BY <1>1, CustodyIsInvariant, PTL

(* messageDeliveries and messageRecords agree in every reachable state.    *)
THEOREM LeasesAgree == Spec => []LeaseMatchesRecord
<1>1. CustodyInv => LeaseMatchesRecord
  BY DEF CustodyInv
<1> QED BY <1>1, CustodyIsInvariant, PTL

(* LeaseMessage succeeds for every message a pull has dequeued.            *)
THEOREM ClaimSucceeds == Spec => []ClaimNeverFails
<1>1. CustodyInv => ClaimNeverFails
  <2> SUFFICES ASSUME CustodyInv, NEW w \in Workers, At(w, "lease")
               PROVE  CanLease(job[w].msg, job[w].agent)
    BY DEF ClaimNeverFails
  <2>1. PICK m \in Msgs : job[w].msg = m
    BY JobFacts DEF At, Carries
  <2>2. <<"hand", w>> \in Custody(m)
    BY <2>1, Places DEF At, HandPC
  <2>3. Exists(m)
    BY <2>2, OnlyPlace DEF CustodyInv, Live
  <2> QED BY <2>1, <2>3 DEF CanLease, CustodyInv, Addressed
<1> QED BY <1>1, CustodyIsInvariant, PTL

-----------------------------------------------------------------------------
(* Idempotency keys. *)

(* A message that has a record has been built. *)
LEMMA RecordedIsBuilt ==
  ASSUME CustodyInv, NEW m \in Msgs, records[m] # NoRecord
  PROVE  env[m] \in Envelope
BY DEF CustodyInv, RegisterIsFresh, Fresh, Exists, TypeInv, TypeOK, StoreTypeOK

(* Only Register makes a record, and none changes an envelope that has one.*)
LEMMA NoOtherRecords ==
  ASSUME CustodyInv, [Next]_vars, \A w \in Workers : ~Register(w), NEW m \in Msgs,
         records'[m] # NoRecord
  PROVE  records[m] # NoRecord /\ env'[m] = env[m]
<1>i. TypeInv /\ LeaseMatchesRecord /\ RegisterIsFresh
  BY DEF CustodyInv
<1>r. \A d \in deliveries : records[d.msg] # NoRecord
  BY <1>i DEF LeaseMatchesRecord, NoRecord
<1>1. ASSUME NEW w \in Workers, NEW n \in Msgs, NEW to \in Agents,
             NEW key \in Keys \cup {Nil}, Authorize(w, n, to, key)
      PROVE  records[m] # NoRecord /\ env'[m] = env[m]
  <2>1. records[n] = NoRecord /\ records' = records
    BY <1>1, <1>i DEF Authorize, IsNextId, RegisterIsFresh, Fresh, Exists
  <2> QED BY <1>1, <1>i, <2>1 DEF Authorize, TypeInv, TypeOK, StoreTypeOK
<1>2. ASSUME NEW w \in Workers, RegisterReplay(w)
      PROVE  records[m] # NoRecord /\ env'[m] = env[m]
  BY <1>2, <1>i DEF RegisterReplay, CountReplay, ReplayOf, Exists, TypeInv, TypeOK, StoreTypeOK
<1>3. ASSUME NEW w \in Workers, Abort(w)
      PROVE  records[m] # NoRecord /\ env'[m] = env[m]
  BY <1>3, <1>i DEF Abort, AbortRecord, TypeInv, TypeOK, StoreTypeOK
<1>4. ASSUME NEW w \in Workers, Sweep(w)
      PROVE  records[m] # NoRecord /\ env'[m] = env[m]
  BY <1>4, <1>r, JobFacts DEF Sweep, ExpireLeases
<1>5. ASSUME NEW w \in Workers, Claim(w)
      PROVE  records[m] # NoRecord /\ env'[m] = env[m]
  BY <1>5, <1>i DEF Claim, CanLease, Exists, LeaseMessage, TypeInv, TypeOK, StoreTypeOK
<1>6. ASSUME NEW w \in Workers, NEW d \in deliveries, Ack(w, d) \/ Nack(w, d)
      PROVE  records[m] # NoRecord /\ env'[m] = env[m]
  <2>1. d.msg \in Msgs /\ records[d.msg] # NoRecord
    BY <1>r, JobFacts
  <2>2. \A n \in Msgs \ {d.msg} : records'[n] = records[n]
    BY <1>6, <1>i DEF Ack, Nack, AckDelivery, ReleaseDelivery, TypeInv, TypeOK, StoreTypeOK
  <2> QED BY <1>6, <2>1, <2>2 DEF Ack, Nack
<1>7. ASSUME NEW w \in Workers,
             \/ \E a \in Agents, call \in Calls : Authenticate(w, a, call)
             \/ Refuse(w) \/ GiveUp(w) \/ PublishEnqueue(w) \/ PublishEnqueueFails(w)
             \/ CountQueued(w) \/ PutBack(w) \/ PutBackFails(w)
             \/ \E d \in job[w].batch : Requeue(w, d) \/ RequeueFails(w, d)
             \/ \E e : Dequeue(w, e)
      PROVE  records[m] # NoRecord /\ env'[m] = env[m]
  BY <1>7 DEF Authenticate, Refuse, GiveUp, PublishEnqueue, PublishEnqueueFails,
              CountQueued, PutBack, PutBackFails, Requeue, RequeueFails, Dequeue,
              Enqueue, DequeueEntry, storeVars
<1>8. ASSUME \/ \E d \in deliveries : LeaseElapses(d)
             \/ \E gone \in Removals : RemoveAgents(gone)
             \/ UNCHANGED vars
      PROVE  records[m] # NoRecord /\ env'[m] = env[m]
  BY <1>8 DEF LeaseElapses, RemoveAgents, PurgeAgents, vars, storeVars
<1> QED
  BY <1>1, <1>2, <1>3, <1>4, <1>5, <1>6, <1>7, <1>8 DEF Next, Step

(* What the index of keys depends on: whether a message has a record.      *)
LEMMA KeysKept ==
  ASSUME CustodyInv, OneRecordPerKey, [Next]_vars
  PROVE  OneRecordPerKey'
<1>i. TypeInv /\ RegisterIsFresh /\ NothingForgotten
  BY DEF CustodyInv
<1>1. ASSUME NEW w \in Workers, Register(w)
      PROVE  OneRecordPerKey'
  <2>1. PICK n \in Msgs : n = job[w].msg
    BY <1>1, JobFacts DEF Register, At, Carries, Publishing
  <2>2. /\ env' = env /\ env[n] \in Envelope /\ ReplayOf(n) = Nil
        /\ records' = [records EXCEPT ![n] = NewRecord]
        /\ byClient' = IF env[n].key = Nil THEN byClient
                       ELSE [byClient EXCEPT ![<<env[n].from, env[n].key>>] = n]
    BY <1>1, <1>i, <2>1 DEF Register, CreateRecord, At, TypeInv, JobShape, Publishing
  <2>3. ASSUME NEW m \in Msgs, records'[m] # NoRecord, env[m].key # Nil
        PROVE  byClient'[<<env[m].from, env[m].key>>] = m
    <3>1. CASE m = n
      BY <1>i, <2>2, <2>3, <3>1 DEF TypeInv, TypeOK, StoreTypeOK, Envelope
    <3>2. CASE m # n
      <4>1. records[m] # NoRecord
        BY <1>i, <2>2, <2>3, <3>2 DEF TypeInv, TypeOK, StoreTypeOK
      <4>2. byClient[<<env[m].from, env[m].key>>] = m
        BY <2>3, <4>1 DEF OneRecordPerKey, Exists
      <4>3. m # Nil
        BY MsgsAssumption, NilAssumption
      <4>4. env[n].key # Nil => <<env[n].from, env[n].key>> # <<env[m].from, env[m].key>>
        BY <2>2, <4>1, <4>2, <4>3 DEF ReplayOf, Exists
      <4>5. env[m] \in Envelope
        BY <4>1, RecordedIsBuilt
      <4> QED BY <1>i, <2>2, <2>3, <4>2, <4>4, <4>5
                 DEF TypeInv, TypeOK, StoreTypeOK, Envelope
    <3> QED BY <3>1, <3>2
  <2> QED BY <2>2, <2>3 DEF OneRecordPerKey, Exists
<1>2. ASSUME NEW w \in Workers, Abort(w)
      PROVE  OneRecordPerKey'
  <2>1. PICK n \in Msgs : n = job[w].msg
    BY <1>2, JobFacts DEF Abort, At, Carries, Publishing
  <2>2. /\ env' = env
        /\ records' = [records EXCEPT ![n] = NoRecord]
        /\ byClient' = IF env[n].key = Nil THEN byClient
                       ELSE [byClient EXCEPT ![<<env[n].from, env[n].key>>] = Nil]
    BY <1>2, <2>1 DEF Abort, AbortRecord
  <2>3. records[n] # NoRecord
    <3>1. <<"hand", w>> \in Custody(n)
      BY <1>2, <2>1, Places DEF Abort, At, HandPC
    <3> QED BY <1>i, <3>1 DEF NothingForgotten, Live, Exists
  <2>4. ASSUME NEW m \in Msgs, records'[m] # NoRecord, env[m].key # Nil
        PROVE  byClient'[<<env[m].from, env[m].key>>] = m
    <3>1. m # n /\ records[m] # NoRecord
      BY <1>i, <2>2, <2>4 DEF TypeInv, TypeOK, StoreTypeOK
    <3>2. /\ byClient[<<env[m].from, env[m].key>>] = m
          /\ env[n].key # Nil => byClient[<<env[n].from, env[n].key>>] = n
      BY <2>3, <2>4, <3>1 DEF OneRecordPerKey, Exists
    <3>3. env[m] \in Envelope
      BY <3>1, RecordedIsBuilt
    <3> QED BY <1>i, <2>2, <2>4, <3>1, <3>2, <3>3
               DEF TypeInv, TypeOK, StoreTypeOK, Envelope
  <2> QED BY <2>2, <2>4 DEF OneRecordPerKey, Exists
<1>3. CASE \A w \in Workers : ~Register(w) /\ ~Abort(w)
  <2>1. byClient' = byClient
    BY <1>3 DEF Next, Step, Authenticate, Authorize, Refuse, RegisterReplay, CountReplay,
         PublishEnqueue, PublishEnqueueFails, CountQueued, Sweep, ExpireLeases,
         Requeue, RequeueFails, Enqueue, Dequeue, DequeueEntry, GiveUp, Claim,
         LeaseMessage, Ack, AckDelivery, Nack, ReleaseDelivery, PutBack, PutBackFails,
         LeaseElapses, RemoveAgents, PurgeAgents, vars, storeVars
  <2> QED BY <1>3, <2>1, NoOtherRecords DEF OneRecordPerKey, Exists
<1> QED BY <1>1, <1>2, <1>3

-----------------------------------------------------------------------------
(* Losses. *)

(* A publish is aborted because its receiver has been removed.             *)
AbortNeedsRemoval == \A w \in Workers : At(w, "abort") => active # Agents

LossInv == LossNeedsRemoval /\ AbortNeedsRemoval

(* A message that cannot be queued has lost its receiver.                  *)
LEMMA CannotEnqueue ==
  ASSUME CustodyInv, NEW m \in Msgs, NEW p \in Custody(m), ~CanEnqueue(m)
  PROVE  active # Agents
<1>1. records[m] # NoRecord
  BY OnlyPlace DEF CustodyInv, Live, Exists
<1>2. env[m].to \in Agents
  BY <1>1, RecordedIsBuilt DEF Envelope
<1> QED BY <1>2 DEF CanEnqueue

LEMMA LossKept ==
  ASSUME CustodyInv, LossInv, [Next]_vars
  PROVE  LossInv'
<1>i. TypeInv /\ active \subseteq Agents
  BY DEF CustodyInv, TypeInv, TypeOK, StoreTypeOK
<1> USE DEF At, HandPC, Carries, Publishing
<1>1. ASSUME active' = active, lost' # {} => lost # {} \/ active # Agents,
             \A w \in Workers : job'[w].pc = "abort" => job[w].pc = "abort" \/ active # Agents
      PROVE  LossInv'
  BY <1>1 DEF LossInv, LossNeedsRemoval, AbortNeedsRemoval
<1>2. ASSUME NEW w \in Workers, OthersWait(w), job'[w].pc # "abort", active' = active,
             lost' = lost
      PROVE  LossInv'
  BY <1>1, <1>2 DEF OthersWait
<1>3. ASSUME NEW w \in Workers,
             \/ \E a \in Agents, call \in Calls : Authenticate(w, a, call)
             \/ Refuse(w) \/ GiveUp(w) \/ RegisterReplay(w) \/ Register(w)
             \/ PublishEnqueue(w) \/ CountQueued(w) \/ PutBack(w) \/ Claim(w)
             \/ \E m \in Msgs, to \in Agents, key \in Keys \cup {Nil} : Authorize(w, m, to, key)
             \/ \E d \in deliveries : Ack(w, d) \/ Nack(w, d)
             \/ \E e : Dequeue(w, e)
      PROVE  LossInv'
  <2>1. OthersWait(w) /\ job'[w].pc # "abort"
    <3>1. CASE \E a \in Agents, call \in Calls : Authenticate(w, a, call)
      BY <1>i, <3>1 DEF Authenticate, OthersWait, IdleJob, Calls, TypeInv, TypeOK
    <3>2. CASE ~ \E a \in Agents, call \in Calls : Authenticate(w, a, call)
      BY <1>3, <1>i, <3>2, JobEffect DEF Refuse, GiveUp, RegisterReplay, Register,
         PublishEnqueue, CountQueued, PutBack, Claim, Authorize, Ack, Nack, Dequeue
    <3> QED BY <3>1, <3>2
  <2>2. active' = active /\ lost' = lost
    BY <1>3 DEF Authenticate, Refuse, GiveUp, RegisterReplay, Register,
         PublishEnqueue, CountQueued, PutBack, Claim, Authorize, Ack, Nack, Dequeue, storeVars
  <2> QED BY <1>2, <2>1, <2>2
<1>4. ASSUME NEW w \in Workers, PublishEnqueueFails(w)
      PROVE  LossInv'
  <2>1. job[w].msg \in Msgs /\ <<"hand", w>> \in Custody(job[w].msg)
    BY <1>4, JobFacts, Places DEF PublishEnqueueFails
  <2>2. active # Agents
    BY <1>4, <2>1, CannotEnqueue DEF PublishEnqueueFails
  <2> QED BY <1>1, <1>4, <2>2 DEF PublishEnqueueFails, storeVars
<1>5. ASSUME NEW w \in Workers, Abort(w)
      PROVE  LossInv'
  <2>1. active # Agents /\ active' = active
    BY <1>5 DEF Abort, LossInv, AbortNeedsRemoval
  <2> QED BY <1>1, <2>1
<1>6. ASSUME NEW w \in Workers, Sweep(w) \/ \E d \in job[w].batch : Requeue(w, d)
      PROVE  LossInv'
  <2>1. OthersWait(w) /\ job'[w].pc # "abort"
    BY <1>6, <1>i DEF Sweep, Requeue, OthersWait, TypeInv, TypeOK, Job
  <2> QED BY <1>2, <1>6, <2>1 DEF Sweep, Requeue
<1>7. ASSUME NEW w \in Workers, NEW d \in job[w].batch, RequeueFails(w, d)
      PROVE  LossInv'
  <2>1. d.msg \in Msgs /\ <<"batch", <<w, d>>>> \in Custody(d.msg)
    BY JobFacts, Places
  <2>2. active # Agents
    BY <1>7, <2>1, CannotEnqueue DEF RequeueFails
  <2> QED BY <1>1, <1>7, <2>2 DEF RequeueFails, storeVars
<1>8. ASSUME NEW w \in Workers, PutBackFails(w)
      PROVE  LossInv'
  <2>1. job[w].msg \in Msgs /\ <<"hand", w>> \in Custody(job[w].msg)
    BY <1>8, JobFacts, Places DEF PutBackFails
  <2>2. active # Agents
    BY <1>8, <2>1, CannotEnqueue DEF PutBackFails
  <2> QED BY <1>1, <1>8, <2>2 DEF PutBackFails, storeVars
<1>9. ASSUME NEW gone \in Removals, RemoveAgents(gone)
      PROVE  LossInv'
  BY <1>i, <1>9 DEF RemoveAgents, PurgeAgents, LossInv, LossNeedsRemoval, AbortNeedsRemoval
<1>10. ASSUME (\E d \in deliveries : LeaseElapses(d)) \/ UNCHANGED vars
       PROVE  LossInv'
  BY <1>1, <1>10 DEF LeaseElapses, vars, storeVars
<1> QED
  BY <1>3, <1>4, <1>5, <1>6, <1>7, <1>8, <1>9, <1>10 DEF Next, Step

-----------------------------------------------------------------------------
(* The lifecycle of a message. *)

(* What a step may leave of a message for its phase to stay.               *)
Same(m) ==
  /\ records'[m].status = records[m].status
  /\ records'[m] = NoRecord <=> records[m] = NoRecord
  /\ m \in lost' <=> m \in lost

(* The messages of S, and no other, go from one phase to another.          *)
Moves(S, from, to) ==
  \A m \in Msgs : IF m \in S THEN PhaseOf(m) = from /\ PhaseOf(m)' = to
                             ELSE PhaseOf(m)' = PhaseOf(m)

AttemptsStay == \A m \in Msgs : records'[m].attempts = records[m].attempts

LEMMA SamePhase ==
  ASSUME NEW m \in Msgs, Same(m)
  PROVE  PhaseOf(m)' = PhaseOf(m)
BY DEF Same, PhaseOf, Exists

(* What the phase of a message is.                                         *)
LEMMA PhaseIs ==
  ASSUME NEW m \in Msgs
  PROVE  /\ m \in lost => PhaseOf(m) = "withdrawn"
         /\ m \notin lost /\ records[m] = NoRecord => PhaseOf(m) = "none"
         /\ m \notin lost /\ records[m] # NoRecord =>
              /\ records[m].status = "queued" => PhaseOf(m) = "waiting"
              /\ records[m].status = "leased" => PhaseOf(m) = "out"
              /\ records[m].status = "acked"  => PhaseOf(m) = "acked"
BY DEF PhaseOf, Exists

LEMMA PhaseBecomes ==
  ASSUME NEW m \in Msgs
  PROVE  /\ m \in lost' => PhaseOf(m)' = "withdrawn"
         /\ m \notin lost' /\ records'[m] # NoRecord =>
              /\ records'[m].status = "queued" => PhaseOf(m)' = "waiting"
              /\ records'[m].status = "leased" => PhaseOf(m)' = "out"
              /\ records'[m].status = "acked"  => PhaseOf(m)' = "acked"
BY DEF PhaseOf, Exists

(* A message waits in a queue, in a hand or in a batch, and is out on a    *)
(* lease.                                                                  *)
LEMMA PhaseOfPlace ==
  ASSUME CustodyInv, NEW m \in Msgs, NEW p \in Custody(m)
  PROVE  /\ m \notin lost /\ records[m] # NoRecord
         /\ p[1] # "lease" => PhaseOf(m) = "waiting" /\ records[m].status = "queued"
         /\ p[1] = "lease" => PhaseOf(m) = "out" /\ records[m].status = "leased"
<1>1. Live(m) /\ Custody(m) = {p}
  BY OnlyPlace DEF CustodyInv
<1>2. m \notin lost /\ records[m] # NoRecord
  BY <1>1 DEF Live, Exists
<1>3. CASE p[1] # "lease"
  <2>1. OnLease(m) = {}
    <3> SUFFICES ASSUME NEW d \in deliveries, d.msg = m PROVE FALSE
      BY DEF OnLease
    <3>1. <<"lease", d>> \in Custody(m)
      BY Places
    <3> QED BY <1>1, <1>3, <3>1
  <2> QED BY <1>1, <1>2, <1>3, <2>1, OffLease, PhaseIs
<1>4. CASE p[1] = "lease"
  <2>1. PICK d \in deliveries : d.msg = m
    BY <1>4, Places
  <2>2. records[m].status = "leased"
    BY <2>1 DEF CustodyInv, LeaseMatchesRecord
  <2> QED BY <1>2, <1>4, <2>2, PhaseIs
<1> QED BY <1>2, <1>3, <1>4

(* Nobody has been handed a message whose publish is not over.             *)
Unhanded ==
  \A w \in Workers :
    job[w].pc \in {"enqueue", "abort"} => records[job[w].msg].attempts = 0

LEMMA RegisterMoves ==
  ASSUME CustodyInv, NEW w \in Workers, Register(w)
  PROVE  \E m \in Msgs : /\ m = job[w].msg /\ Moves({m}, "none", "waiting")
                         /\ AttemptsStay /\ records'[m].attempts = 0
<1>1. PICK m \in Msgs : m = job[w].msg
  BY JobFacts DEF Register, At, Carries, Publishing
<1>2. /\ records[m] = NoRecord /\ m \notin lost /\ lost' = lost
      /\ records' = [records EXCEPT ![m] = NewRecord]
  BY <1>1 DEF Register, CreateRecord, CustodyInv, RegisterIsFresh, Fresh, Exists
<1>3. records'[m] = NewRecord /\ \A n \in Msgs \ {m} : records'[n] = records[n]
  BY <1>2 DEF CustodyInv, TypeInv, TypeOK, StoreTypeOK
<1>4. PhaseOf(m) = "none" /\ PhaseOf(m)' = "waiting" /\ NewRecord.attempts = 0
      /\ NoRecord.attempts = 0
  BY <1>2, <1>3, PhaseIs, PhaseBecomes DEF NewRecord, NoRecord
<1>5. \A n \in Msgs \ {m} : PhaseOf(n)' = PhaseOf(n)
  BY <1>2, <1>3, SamePhase DEF Same
<1> QED BY <1>1, <1>2, <1>3, <1>4, <1>5 DEF Moves, AttemptsStay

LEMMA ClaimMoves ==
  ASSUME CustodyInv, NEW w \in Workers, Claim(w)
  PROVE  \E m \in Msgs : /\ m = job[w].msg /\ Moves({m}, "waiting", "out")
                         /\ records'[m].attempts = records[m].attempts + 1
                         /\ \A n \in Msgs \ {m} : records'[n].attempts = records[n].attempts
<1>1. PICK m \in Msgs : m = job[w].msg
  BY JobFacts DEF Claim, At, Carries
<1>2. <<"hand", w>> \in Custody(m)
  BY <1>1, Places DEF Claim, At, HandPC
<1>3. m \notin lost /\ records[m] # NoRecord /\ PhaseOf(m) = "waiting"
  BY <1>2, PhaseOfPlace
<1>4. records' = [records EXCEPT ![m].status = "leased", ![m].attempts = @ + 1] /\ lost' = lost
  BY <1>1 DEF Claim, LeaseMessage
<1>5. \A n \in Msgs \ {m} : records'[n] = records[n]
  BY <1>4 DEF CustodyInv, TypeInv, TypeOK, StoreTypeOK
<1>6. records[m] \in Record
  BY <1>3 DEF CustodyInv, TypeInv, TypeOK, StoreTypeOK
<1>7. records'[m].status = "leased" /\ records'[m].attempts = records[m].attempts + 1
  BY <1>4, <1>6 DEF CustodyInv, TypeInv, TypeOK, StoreTypeOK, Record
<1>8. PhaseOf(m)' = "out"
  <2>1. records'[m] # NoRecord
    BY <1>7 DEF NoRecord
  <2> QED BY <1>3, <1>4, <1>7, <2>1, PhaseBecomes
<1>9. \A n \in Msgs \ {m} : PhaseOf(n)' = PhaseOf(n)
  BY <1>4, <1>5, SamePhase DEF Same
<1> QED BY <1>1, <1>3, <1>5, <1>7, <1>8, <1>9 DEF Moves

LEMMA SettleMoves ==
  ASSUME CustodyInv, NEW w \in Workers, NEW d \in deliveries, Ack(w, d) \/ Nack(w, d)
  PROVE  /\ d.msg \in Msgs /\ AttemptsStay
         /\ Moves({d.msg}, "out", IF Ack(w, d) THEN "acked" ELSE "waiting")
<1>1. PICK m \in Msgs : m = d.msg
  BY JobFacts
<1>2. <<"lease", d>> \in Custody(m)
  BY <1>1, Places
<1>3. /\ m \notin lost /\ records[m] # NoRecord /\ PhaseOf(m) = "out"
      /\ records[m] \in Record
  BY <1>2, PhaseOfPlace DEF CustodyInv, TypeInv, TypeOK, StoreTypeOK
<1>4. lost' = lost
  BY DEF Ack, Nack
<1>5. /\ Ack(w, d) => records' = [records EXCEPT ![m].status = "acked"]
      /\ Nack(w, d) => records' = [records EXCEPT ![m] = Requeued(@)]
  BY <1>1 DEF Ack, Nack, AckDelivery, ReleaseDelivery
<1>6. \A n \in Msgs \ {m} : records'[n] = records[n]
  BY <1>5 DEF CustodyInv, TypeInv, TypeOK, StoreTypeOK
<1>7. /\ Ack(w, d) => records'[m] = [records[m] EXCEPT !.status = "acked"]
      /\ Nack(w, d) => records'[m] = Requeued(records[m])
  BY <1>5 DEF CustodyInv, TypeInv, TypeOK, StoreTypeOK
<1>8. /\ records'[m].attempts = records[m].attempts
      /\ Ack(w, d) => records'[m].status = "acked"
      /\ Nack(w, d) => records'[m].status = "queued"
  BY <1>3, <1>7 DEF Record, Requeued
<1>9. PhaseOf(m)' = IF Ack(w, d) THEN "acked" ELSE "waiting"
  BY <1>3, <1>4, <1>8, PhaseBecomes DEF NoRecord
<1>10. \A n \in Msgs \ {m} : PhaseOf(n)' = PhaseOf(n)
  BY <1>4, <1>6, SamePhase DEF Same
<1> QED BY <1>1, <1>3, <1>6, <1>8, <1>9, <1>10 DEF Moves, AttemptsStay

LEMMA SweepMoves ==
  ASSUME CustodyInv, NEW w \in Workers, Sweep(w)
  PROVE  /\ {d.msg : d \in overdue} \in SUBSET Msgs /\ AttemptsStay
         /\ Moves({d.msg : d \in overdue}, "out", "waiting")
<1>1. /\ \A m \in Msgs : records'[m] = IF \E d \in overdue : d.msg = m
                                       THEN Requeued(records[m]) ELSE records[m]
      /\ lost' = lost /\ overdue \subseteq deliveries
  BY JobFacts DEF Sweep, ExpireLeases
<1>2. ASSUME NEW m \in Msgs, NEW d \in overdue, d.msg = m
      PROVE  /\ PhaseOf(m) = "out" /\ PhaseOf(m)' = "waiting"
             /\ records'[m].attempts = records[m].attempts
  <2>1. <<"lease", d>> \in Custody(m)
    BY <1>1, <1>2, Places
  <2>2. m \notin lost /\ records[m] # NoRecord /\ PhaseOf(m) = "out"
    BY <2>1, PhaseOfPlace
  <2>3. records'[m].status = "queued" /\ records'[m].attempts = records[m].attempts
    <3>1. records'[m] = Requeued(records[m])
      BY <1>1, <1>2
    <3> QED BY <3>1 DEF Requeued
  <2> QED BY <1>1, <2>2, <2>3, PhaseBecomes DEF NoRecord
<1>3. ASSUME NEW m \in Msgs, ~ \E d \in overdue : d.msg = m
      PROVE  PhaseOf(m)' = PhaseOf(m) /\ records'[m] = records[m]
  BY <1>1, <1>3, SamePhase DEF Same
<1>4. {d.msg : d \in overdue} \in SUBSET Msgs
  BY <1>1, JobFacts
<1> QED BY <1>2, <1>3, <1>4 DEF Moves, AttemptsStay

(* Messages of S that are waiting are lost, whatever becomes of their      *)
(* records.                                                                *)
LEMMA LossMoves ==
  ASSUME NEW S \in SUBSET Msgs, \A m \in S : PhaseOf(m) = "waiting",
         lost' = lost \cup S, \A m \in Msgs \ S : records'[m] = records[m]
  PROVE  Moves(S, "waiting", "withdrawn")
<1>1. \A m \in S : PhaseOf(m)' = "withdrawn"
  BY PhaseBecomes
<1>2. \A m \in Msgs \ S : PhaseOf(m)' = PhaseOf(m)
  BY SamePhase DEF Same
<1> QED BY <1>1, <1>2 DEF Moves

(* What any step does to the phases and to the hand-outs counted.          *)
LifecycleEffect ==
  \/ \E m \in Msgs : Moves({m}, "none", "waiting") /\ AttemptsStay
  \/ \E w \in Workers, m \in Msgs :
       /\ Claim(w) /\ m = job[w].msg /\ Moves({m}, "waiting", "out")
       /\ records'[m].attempts = records[m].attempts + 1
       /\ \A n \in Msgs \ {m} : records'[n].attempts = records[n].attempts
  \/ \E m \in Msgs : Moves({m}, "out", "acked") /\ AttemptsStay
  \/ \E S \in SUBSET Msgs :
       (Moves(S, "out", "waiting") \/ Moves(S, "waiting", "withdrawn")) /\ AttemptsStay

LEMMA NoEffect ==
  ASSUME \A m \in Msgs : Same(m), AttemptsStay
  PROVE  LifecycleEffect
<1>1. Moves({}, "out", "waiting")
  BY SamePhase DEF Moves
<1> QED BY <1>1 DEF LifecycleEffect

LEMMA StepEffect ==
  ASSUME CustodyInv, Unhanded, [Next]_vars
  PROVE  LifecycleEffect
<1>i. TypeInv
  BY DEF CustodyInv
<1>h. ASSUME NEW w \in Workers, job[w].pc \in HandPC
      PROVE  job[w].msg \in Msgs /\ PhaseOf(job[w].msg) = "waiting"
  <2>1. PICK m \in Msgs : m = job[w].msg
    BY <1>h, JobFacts DEF HandPC, Carries, Publishing
  <2>2. <<"hand", w>> \in Custody(m)
    BY <1>h, <2>1, Places
  <2> QED BY <2>1, <2>2, PhaseOfPlace
<1>1. ASSUME NEW w \in Workers, Register(w)
      PROVE  LifecycleEffect
  BY <1>1, RegisterMoves DEF LifecycleEffect
<1>2. ASSUME NEW w \in Workers, Claim(w)
      PROVE  LifecycleEffect
  BY <1>2, ClaimMoves DEF LifecycleEffect
<1>3. ASSUME NEW w \in Workers, NEW d \in deliveries, Ack(w, d)
      PROVE  LifecycleEffect
  BY <1>3, SettleMoves DEF LifecycleEffect
<1>4. ASSUME NEW w \in Workers, NEW d \in deliveries, Nack(w, d)
      PROVE  LifecycleEffect
  <2>1. ~Ack(w, d)
    BY <1>4 DEF Ack, Nack, At
  <2>2. d.msg \in Msgs /\ AttemptsStay /\ Moves({d.msg}, "out", "waiting")
    BY <1>4, <2>1, SettleMoves
  <2>3. {d.msg} \in SUBSET Msgs
    BY <2>2
  <2> QED BY <2>2, <2>3 DEF LifecycleEffect
<1>5. ASSUME NEW w \in Workers, Sweep(w)
      PROVE  LifecycleEffect
  BY <1>5, SweepMoves DEF LifecycleEffect
<1>6. ASSUME NEW w \in Workers, Abort(w)
      PROVE  LifecycleEffect
  <2>1. PICK m \in Msgs : m = job[w].msg
    BY <1>6, JobFacts DEF Abort, At, Carries, Publishing
  <2>2. PhaseOf(m) = "waiting" /\ records[m].attempts = 0
    BY <1>6, <1>h, <2>1 DEF Abort, At, HandPC, Unhanded
  <2>3. records' = [records EXCEPT ![m] = NoRecord] /\ lost' = lost \cup {m}
    BY <1>6, <2>1 DEF Abort, AbortRecord
  <2>4. records'[m] = NoRecord /\ \A n \in Msgs \ {m} : records'[n] = records[n]
    BY <1>i, <2>3 DEF TypeInv, TypeOK, StoreTypeOK
  <2>5. AttemptsStay
    BY <2>2, <2>4 DEF AttemptsStay, NoRecord
  <2>6. {m} \in SUBSET Msgs /\ Moves({m}, "waiting", "withdrawn")
    BY <2>2, <2>3, <2>4, LossMoves
  <2> QED BY <2>5, <2>6 DEF LifecycleEffect
<1>7. ASSUME NEW S \in SUBSET Msgs, \A m \in S : PhaseOf(m) = "waiting",
             lost' = lost \cup S, records' = records
      PROVE  LifecycleEffect
  <2>1. Moves(S, "waiting", "withdrawn") /\ AttemptsStay
    BY <1>7, LossMoves DEF AttemptsStay
  <2> QED BY <2>1 DEF LifecycleEffect
<1>8. ASSUME NEW w \in Workers, NEW d \in job[w].batch, RequeueFails(w, d)
      PROVE  LifecycleEffect
  <2> DEFINE S == {e.msg : e \in job[w].batch}
  <2>1. ASSUME NEW e \in job[w].batch
        PROVE  e.msg \in Msgs /\ PhaseOf(e.msg) = "waiting"
    <3>1. e.msg \in Msgs /\ <<"batch", <<w, e>>>> \in Custody(e.msg)
      BY JobFacts, Places
    <3> QED BY <3>1, PhaseOfPlace
  <2>2. S \in SUBSET Msgs /\ \A m \in S : PhaseOf(m) = "waiting"
    BY <2>1
  <2>3. lost' = lost \cup S /\ records' = records
    BY <1>8 DEF RequeueFails, storeVars
  <2> HIDE DEF S
  <2> QED BY <1>7, <2>2, <2>3
<1>9. ASSUME NEW w \in Workers, PutBackFails(w)
      PROVE  LifecycleEffect
  <2>1. {job[w].msg} \in SUBSET Msgs /\ PhaseOf(job[w].msg) = "waiting"
    BY <1>9, <1>h DEF PutBackFails, At, HandPC
  <2> QED BY <1>7, <1>9, <2>1 DEF PutBackFails, storeVars
<1>10. ASSUME NEW gone \in Removals, RemoveAgents(gone)
       PROVE  LifecycleEffect
  <2>1. ASSUME NEW m \in Purged(gone)
        PROVE  m \in Msgs /\ PhaseOf(m) = "waiting"
    <3>1. PICK a \in Agents : \E e \in queues[a].entries : e.msg = m
      BY DEF Purged, QueuedMsgs
    <3>2. PICK e \in queues[a].entries : e.msg = m
      BY <3>1
    <3>3. m \in Msgs
      BY <1>i, <3>2 DEF TypeInv, TypeOK, StoreTypeOK, Queue, Entry
    <3>4. <<"queue", <<a, e>>>> \in Custody(m)
      BY <3>2, Places
    <3> QED BY <3>3, <3>4, PhaseOfPlace
  <2> QED BY <1>7, <1>10, <2>1 DEF RemoveAgents, PurgeAgents
<1>11. ASSUME NEW w \in Workers, RegisterReplay(w)
       PROVE  LifecycleEffect
  <2>1. PICK n \in Msgs : n = ReplayOf(job[w].msg) /\ records[n] # NoRecord
    BY <1>11, <1>i DEF RegisterReplay, ReplayOf, Exists, TypeInv, TypeOK, StoreTypeOK,
       JobShape, At, Publishing, Envelope
  <2>2. records' = [records EXCEPT ![n].replays = @ + 1] /\ lost' = lost
    BY <1>11, <2>1 DEF RegisterReplay, CountReplay
  <2>3. \A m \in Msgs \ {n} : records'[m] = records[m]
    BY <1>i, <2>2 DEF TypeInv, TypeOK, StoreTypeOK
  <2>4. records[n] \in Record /\ records'[n] = [records[n] EXCEPT !.replays = @ + 1]
    BY <1>i, <2>1, <2>2 DEF TypeInv, TypeOK, StoreTypeOK
  <2>5. records'[n].status = records[n].status /\ records'[n].attempts = records[n].attempts
        /\ records[n].status # "none"
    BY <2>4 DEF Record, Status
  <2>6. \A m \in Msgs : Same(m)
    BY <2>1, <2>2, <2>3, <2>5 DEF Same, NoRecord
  <2> QED BY <2>3, <2>5, <2>6, NoEffect DEF AttemptsStay
<1>12. ASSUME records' = records, lost' = lost
       PROVE  LifecycleEffect
  BY <1>12, NoEffect DEF Same, AttemptsStay
<1>13. ASSUME NEW w \in Workers,
             \/ \E a \in Agents, call \in Calls : Authenticate(w, a, call)
             \/ \E m \in Msgs, to \in Agents, key \in Keys \cup {Nil} : Authorize(w, m, to, key)
             \/ Refuse(w) \/ GiveUp(w) \/ PublishEnqueue(w) \/ PublishEnqueueFails(w)
             \/ CountQueued(w) \/ PutBack(w)
             \/ \E d \in job[w].batch : Requeue(w, d)
             \/ \E e : Dequeue(w, e)
      PROVE  LifecycleEffect
  BY <1>12, <1>13 DEF Authenticate, Authorize, Refuse, GiveUp, PublishEnqueue,
     PublishEnqueueFails, CountQueued, PutBack, Requeue, Dequeue, Enqueue,
     DequeueEntry, storeVars
<1>14. ASSUME (\E d \in deliveries : LeaseElapses(d)) \/ UNCHANGED vars
       PROVE  LifecycleEffect
  BY <1>12, <1>14 DEF LeaseElapses, vars, storeVars
<1> QED
  BY <1>1, <1>2, <1>3, <1>4, <1>5, <1>6, <1>8, <1>9, <1>10, <1>11, <1>13, <1>14
     DEF Next, Step

LEMMA UnhandedKept ==
  ASSUME CustodyInv, Unhanded, [Next]_vars
  PROVE  Unhanded'
<1>i. TypeInv
  BY DEF CustodyInv
<1> DEFINE InPublish(r) == r.pc \in {"enqueue", "abort"}
<1>1. ASSUME AttemptsStay,
             \A w \in Workers : InPublish(job'[w]) =>
               \/ InPublish(job[w]) /\ job'[w].msg = job[w].msg
               \/ job'[w].msg \in Msgs /\ records'[job'[w].msg].attempts = 0
      PROVE  Unhanded'
  BY <1>1, JobFacts DEF Unhanded, AttemptsStay, Carries, Publishing
<1>2. ASSUME NEW w \in Workers, Register(w)
      PROVE  Unhanded'
  <2>1. PICK m \in Msgs : m = job[w].msg /\ AttemptsStay /\ records'[m].attempts = 0
    BY <1>2, RegisterMoves
  <2>2. OthersWait(w) /\ job'[w].msg = m
    BY <1>2, <1>i, <2>1, JobEffect DEF Register
  <2> QED BY <1>1, <2>1, <2>2 DEF OthersWait
<1>3. ASSUME NEW w \in Workers, Claim(w)
      PROVE  Unhanded'
  <2>1. PICK m \in Msgs : /\ m = job[w].msg
                          /\ \A n \in Msgs \ {m} : records'[n].attempts = records[n].attempts
    BY <1>3, ClaimMoves
  <2>2. OthersWait(w) /\ job'[w].pc = "idle"
    BY <1>3, <1>i, JobEffect DEF Claim
  <2>3. Custody(m) = {<<"hand", w>>}
    <3>1. <<"hand", w>> \in Custody(m)
      BY <1>3, <2>1, Places DEF Claim, At, HandPC
    <3> QED BY <3>1, OnlyPlace DEF CustodyInv
  <2>4. ASSUME NEW v \in Workers, InPublish(job'[v])
        PROVE  records'[job'[v].msg].attempts = 0
    <3>1. v # w /\ job'[v] = job[v]
      BY <2>2, <2>4 DEF OthersWait
    <3>2. PICK n \in Msgs : n = job[v].msg /\ records[n].attempts = 0
      BY <2>4, <3>1, JobFacts DEF Unhanded, Carries, Publishing
    <3>3. <<"hand", v>> \in Custody(n)
      BY <2>4, <3>1, <3>2, Places DEF HandPC
    <3>4. n # m
      BY <2>3, <3>1, <3>3
    <3> QED BY <2>1, <3>1, <3>2, <3>4
  <2> QED BY <2>4 DEF Unhanded
<1>4. CASE \A w \in Workers : ~Register(w) /\ ~Claim(w)
  <2>1. AttemptsStay
    BY <1>4, StepEffect DEF LifecycleEffect
  <2>2. ASSUME NEW w \in Workers,
               \/ \E a \in Agents, call \in Calls : Authenticate(w, a, call)
               \/ Refuse(w) \/ GiveUp(w) \/ RegisterReplay(w) \/ Abort(w)
               \/ PublishEnqueue(w) \/ CountQueued(w) \/ PutBack(w) \/ PutBackFails(w)
               \/ \E m \in Msgs, to \in Agents, key \in Keys \cup {Nil} : Authorize(w, m, to, key)
               \/ \E d \in deliveries : Ack(w, d) \/ Nack(w, d)
               \/ \E e : Dequeue(w, e)
               \/ Sweep(w) \/ \E d \in job[w].batch : Requeue(w, d) \/ RequeueFails(w, d)
        PROVE  OthersWait(w) /\ ~InPublish(job'[w])
    <3>1. CASE \/ \E a \in Agents, call \in Calls : Authenticate(w, a, call)
               \/ Sweep(w) \/ \E d \in job[w].batch : Requeue(w, d) \/ RequeueFails(w, d)
      BY <1>i, <3>1 DEF Authenticate, Sweep, Requeue, RequeueFails, OthersWait, IdleJob,
         Calls, TypeInv, TypeOK, Job
    <3>2. CASE ~(\/ \E a \in Agents, call \in Calls : Authenticate(w, a, call)
                 \/ Sweep(w) \/ \E d \in job[w].batch : Requeue(w, d) \/ RequeueFails(w, d))
      BY <1>i, <2>2, <3>2, JobEffect DEF Refuse, GiveUp, RegisterReplay, Abort,
         PublishEnqueue, CountQueued, PutBack, PutBackFails, Authorize, Ack, Nack, Dequeue
    <3> QED BY <3>1, <3>2
  <2>3. ASSUME NEW w \in Workers, PublishEnqueueFails(w)
        PROVE  Unhanded'
    <3>1. OthersWait(w) /\ job'[w].msg = job[w].msg /\ InPublish(job[w])
      BY <1>i, <2>3, JobEffect DEF PublishEnqueueFails, At
    <3> QED BY <1>1, <2>1, <3>1 DEF OthersWait
  <2>4. ASSUME NEW w \in Workers, OthersWait(w), ~InPublish(job'[w])
        PROVE  Unhanded'
    BY <1>1, <2>1, <2>4 DEF OthersWait
  <2>5. ASSUME \/ \E d \in deliveries : LeaseElapses(d)
               \/ \E gone \in Removals : RemoveAgents(gone)
               \/ UNCHANGED vars
        PROVE  Unhanded'
    <3>1. job' = job
      BY <2>5 DEF LeaseElapses, RemoveAgents, vars
    <3> QED BY <1>1, <2>1, <3>1
  <2> QED BY <1>4, <2>2, <2>3, <2>4, <2>5 DEF Next, Step
<1> QED BY <1>2, <1>3, <1>4

-----------------------------------------------------------------------------
(* What the hub promises about a message. *)

LifecycleInv == CustodyInv /\ Unhanded

LEMMA LifecycleInvariant == Spec => []LifecycleInv
<1>1. Init => Unhanded
  BY DEF Init, Unhanded, IdleJob
<1>2. CustodyInv /\ Unhanded /\ [Next]_vars => Unhanded'
  BY UnhandedKept
<1> QED BY <1>1, <1>2, CustodyIsInvariant, PTL DEF Spec, LifecycleInv

(* Every effect on the phases is a step of the lifecycle.                  *)
LEMMA EffectImplements ==
  ASSUME LifecycleEffect, LifecycleInv
  PROVE  Lifecycle!LifecycleNext
<1> DEFINE ph == [m \in Msgs |-> PhaseOf(m)]
           ha == [m \in Msgs |-> records[m].attempts]
<1>1. ASSUME NEW S \in SUBSET Msgs, NEW from, NEW to, Moves(S, from, to)
      PROVE  Lifecycle!Move(S, from, to)
  BY <1>1 DEF Moves, Lifecycle!Move
<1>2. AttemptsStay => ha' = ha
  BY DEF AttemptsStay
<1>3. CASE \E m \in Msgs : Moves({m}, "none", "waiting") /\ AttemptsStay
  BY <1>1, <1>2, <1>3 DEF Lifecycle!LifecycleNext, Lifecycle!Accept
<1>4. ASSUME NEW m \in Msgs, Moves({m}, "waiting", "out"),
             records'[m].attempts = records[m].attempts + 1,
             \A n \in Msgs \ {m} : records'[n].attempts = records[n].attempts
      PROVE  Lifecycle!LifecycleNext
  <2>1. ha' = [ha EXCEPT ![m] = @ + 1]
    BY <1>4
  <2> QED BY <1>1, <1>4, <2>1 DEF Lifecycle!LifecycleNext, Lifecycle!HandOut
<1>5. CASE \E m \in Msgs : Moves({m}, "out", "acked") /\ AttemptsStay
  BY <1>1, <1>2, <1>5 DEF Lifecycle!LifecycleNext, Lifecycle!Settle
<1>6. CASE \E S \in SUBSET Msgs :
             (Moves(S, "out", "waiting") \/ Moves(S, "waiting", "withdrawn")) /\ AttemptsStay
  BY <1>1, <1>2, <1>6 DEF Lifecycle!LifecycleNext, Lifecycle!TakeBack, Lifecycle!Withdraw
<1> QED BY <1>3, <1>4, <1>5, <1>6 DEF LifecycleEffect

(* Publish, pull, ack, nack, expiry and removal implement the lifecycle of *)
(* a message: it is accepted, waits, is out with its receiver and comes    *)
(* back or is settled, and ends for good, in no other order.               *)
THEOREM LifecycleIsKept == Spec => ImplementsLifecycle
<1>1. Init => Lifecycle!LifecycleInit
  BY DEF Init, StoreInit, Lifecycle!LifecycleInit, PhaseOf, Exists, NoRecord
<1>2. LifecycleInv /\ [Next]_vars => [Lifecycle!LifecycleNext]_(Lifecycle!lifecycleVars)
  BY StepEffect, EffectImplements DEF LifecycleInv
<1> QED BY <1>1, <1>2, LifecycleInvariant, PTL
        DEF Spec, ImplementsLifecycle, Lifecycle!LifecycleSpec

(* Whatever two publishes under one client_msg_id do, one record at most   *)
(* is made for it, and the index finds it.                                 *)
THEOREM KeysAreIdempotent == Spec => []OneRecordPerKey
<1>1. Init => OneRecordPerKey
  BY DEF Init, StoreInit, OneRecordPerKey, Exists
<1>2. CustodyInv /\ OneRecordPerKey /\ [Next]_vars => OneRecordPerKey'
  BY KeysKept
<1> QED BY <1>1, <1>2, CustodyIsInvariant, PTL DEF Spec

(* No failure of a queue call loses a message but after a removal.         *)
THEOREM LossesFollowRemovals == Spec => []LossNeedsRemoval
<1>1. Init => LossInv
  BY DEF Init, StoreInit, LossInv, LossNeedsRemoval, AbortNeedsRemoval, At, IdleJob
<1>2. CustodyInv /\ LossInv /\ [Next]_vars => LossInv'
  BY LossKept
<1>3. LossInv => LossNeedsRemoval
  BY DEF LossInv
<1> QED BY <1>1, <1>2, <1>3, CustodyIsInvariant, PTL DEF Spec

-----------------------------------------------------------------------------
(* The queue metrics, kept call by call, and their recomputation. *)

(* Every slot of a queue lies below the one the next append writes to.     *)
SlotsBelowNext ==
  \A a \in Agents : \A e \in queues[a].entries : e.at < queues[a].next

MetricsInv == MetricsExact /\ SlotsBelowNext

LEMMA MetricsNow ==
  ASSUME metrics \in Metrics
  PROVE  MetricsExact <=>
           /\ metrics.available = Cardinality(QueuedCopies(queues))
           /\ metrics.leased = Cardinality(deliveries)
           /\ metrics.oldest = Oldest(queues)
BY DEF Metrics, MetricsExact, ComputeMetrics

LEMMA MetricsAfter ==
  ASSUME metrics' \in Metrics
  PROVE  MetricsExact' <=>
           /\ metrics'.available = Cardinality(QueuedCopies(queues'))
           /\ metrics'.leased = Cardinality(deliveries')
           /\ metrics'.oldest = Oldest(queues')
BY DEF Metrics, MetricsExact, ComputeMetrics

(* The oldest of some queued messages, by what it is.                      *)
LEMMA OldestIs ==
  ASSUME NEW qs, QueuedMsgs(qs) \subseteq Msgs, NEW m \in QueuedMsgs(qs),
         \A n \in QueuedMsgs(qs) : m <= n
  PROVE  Oldest(qs) = m
<1>1. QueuedMsgs(qs) \subseteq Nat
  BY MsgsAssumption
<1>2. \A k \in QueuedMsgs(qs) : (\A n \in QueuedMsgs(qs) : k <= n) => k = m
  BY <1>1
<1> QED BY <1>2 DEF Oldest

LEMMA OldestIsLeast ==
  ASSUME NEW qs, QueuedMsgs(qs) \subseteq Msgs, QueuedMsgs(qs) # {}
  PROVE  Oldest(qs) \in QueuedMsgs(qs) /\ \A n \in QueuedMsgs(qs) : Oldest(qs) <= n
<1>1. \E m \in QueuedMsgs(qs) : \A n \in QueuedMsgs(qs) : m <= n
  BY LeastExists, MsgsAssumption
<1> QED BY <1>1 DEF Oldest

(* The messages in the queues, now and after a step.                       *)
LEMMA QueuedMsgsAre ==
  ASSUME TypeInv
  PROVE  /\ QueuedMsgs(queues) \subseteq Msgs
         /\ \A m : m \in QueuedMsgs(queues) <=>
              \E a \in Agents : \E e \in queues[a].entries : m = e.msg
BY DEF QueuedMsgs, TypeInv, TypeOK, StoreTypeOK, Queue, Entry

LEMMA QueuedMsgsBecome ==
  ASSUME TypeInv'
  PROVE  /\ QueuedMsgs(queues') \subseteq Msgs
         /\ \A m : m \in QueuedMsgs(queues') <=>
              \E a \in Agents : \E e \in queues'[a].entries : m = e.msg
BY DEF QueuedMsgs, TypeInv, TypeOK, StoreTypeOK, Queue, Entry

LEMMA EnqueueMetrics ==
  ASSUME TypeInv, TypeInv', MetricsInv, NEW m \in Msgs, CanEnqueue(m), Enqueue(m)
  PROVE  MetricsInv'
<1> DEFINE a0 == env[m].to
           e0 == [at |-> queues[a0].next, msg |-> m]
<1>t. /\ metrics \in Metrics /\ metrics' \in Metrics /\ queues \in [Agents -> Queue]
      /\ IsFiniteSet(QueuedCopies(queues))
  BY DEF TypeInv, TypeOK, StoreTypeOK, Finite
<1>1. /\ a0 \in Agents
      /\ \A a \in Agents : \A f : f \in queues'[a].entries <=>
           f \in queues[a].entries \/ (a = a0 /\ f = e0)
  BY EnqueueEntry
<1>2. QueuedCopies(queues') = QueuedCopies(queues) \cup {<<a0, e0>>}
  <2>1. ASSUME NEW c PROVE c \in QueuedCopies(queues') <=>
                           c \in QueuedCopies(queues) \/ c = <<a0, e0>>
    BY <1>1, CopiesAre
  <2> QED BY <2>1
<1>3. e0 \notin queues[a0].entries
  BY <1>t, <1>1 DEF MetricsInv, SlotsBelowNext, Queue
<1>4. <<a0, e0>> \notin QueuedCopies(queues)
  <2> HIDE DEF e0
  <2> QED BY <1>3, CopiesAre
<1>5. Cardinality(QueuedCopies(queues')) = Cardinality(QueuedCopies(queues)) + 1
  BY <1>t, <1>2, <1>4, FS_AddElement
<1>6. \A n : n \in QueuedMsgs(queues') <=> n \in QueuedMsgs(queues) \/ n = m
  <2>0. e0.msg = m
    OBVIOUS
  <2> HIDE DEF a0, e0
  <2>1. ASSUME NEW n, n \in QueuedMsgs(queues')
        PROVE  n \in QueuedMsgs(queues) \/ n = m
    <3>1. PICK a \in Agents : \E f \in queues'[a].entries : n = f.msg
      BY <2>1, QueuedMsgsBecome
    <3>2. PICK f \in queues'[a].entries : n = f.msg
      BY <3>1
    <3>3. CASE f \in queues[a].entries
      BY <3>2, <3>3, QueuedMsgsAre
    <3>4. CASE f = e0
      BY <2>0, <3>2, <3>4
    <3> QED BY <1>1, <3>3, <3>4
  <2>2. ASSUME NEW n, n \in QueuedMsgs(queues)
        PROVE  n \in QueuedMsgs(queues')
    <3>1. PICK a \in Agents : \E f \in queues[a].entries : n = f.msg
      BY <2>2, QueuedMsgsAre
    <3> QED BY <1>1, <3>1, QueuedMsgsBecome
  <2>3. m \in QueuedMsgs(queues')
    <3>1. e0 \in queues'[a0].entries
      BY <1>1
    <3> QED BY <1>1, <2>0, <3>1, QueuedMsgsBecome
  <2> QED BY <2>1, <2>2, <2>3
<1>7. Oldest(queues') = IF metrics.oldest = Nil \/ m < metrics.oldest
                        THEN m ELSE metrics.oldest
  <2>0. QueuedMsgs(queues) \subseteq Msgs /\ QueuedMsgs(queues') \subseteq Msgs
        /\ Msgs \subseteq Nat /\ Nil \notin Nat
    BY QueuedMsgsAre, QueuedMsgsBecome, MsgsAssumption, NilAssumption
  <2>1. metrics.oldest = Oldest(queues)
    BY <1>t, MetricsNow DEF MetricsInv
  <2>2. CASE QueuedMsgs(queues) = {}
    <3>1. metrics.oldest = Nil
      BY <2>1, <2>2 DEF Oldest
    <3>2. Oldest(queues') = m
      BY <1>6, <2>0, <2>2, OldestIs
    <3> QED BY <3>1, <3>2
  <2>3. CASE QueuedMsgs(queues) # {}
    <3>1. /\ metrics.oldest \in QueuedMsgs(queues)
          /\ \A n \in QueuedMsgs(queues) : metrics.oldest <= n
      BY <2>0, <2>1, <2>3, OldestIsLeast
    <3>2. CASE m < metrics.oldest
      <4>0. m \in Nat /\ metrics.oldest \in Nat
        BY <2>0, <3>1
      <4>2. ASSUME NEW n \in QueuedMsgs(queues') PROVE m <= n
        <5>1. n \in Nat /\ (n = m \/ metrics.oldest <= n)
          BY <1>6, <2>0, <3>1
        <5> HIDE DEF a0, e0
        <5> QED BY <3>2, <4>0, <5>1
      <4>1. m \in QueuedMsgs(queues') /\ \A n \in QueuedMsgs(queues') : m <= n
        BY <1>6, <4>2
      <4> QED BY <2>0, <3>2, <4>1, OldestIs
    <3>3. CASE ~(m < metrics.oldest)
      <4>3. m \in Nat /\ metrics.oldest \in Nat
        BY <2>0, <3>1
      <4>0. metrics.oldest <= m
        <5> HIDE DEF a0, e0
        <5> QED BY <4>3, <3>3
      <4>1. /\ metrics.oldest \in QueuedMsgs(queues')
            /\ \A n \in QueuedMsgs(queues') : metrics.oldest <= n
        BY <1>6, <3>1, <4>0
      <4>2. metrics.oldest # Nil
        BY <2>0, <3>1
      <4> QED BY <2>0, <3>3, <4>1, <4>2, OldestIs
    <3> QED BY <3>2, <3>3
  <2> QED BY <2>2, <2>3
<1>8. metrics' = [metrics EXCEPT !.available = @ + 1,
                    !.oldest = IF @ = Nil \/ m < @ THEN m ELSE @]
      /\ deliveries' = deliveries
  BY DEF Enqueue, NoteQueuedAdded
<1>9. MetricsExact'
  <2>1. /\ metrics.available = Cardinality(QueuedCopies(queues))
        /\ metrics.leased = Cardinality(deliveries)
    BY <1>t, MetricsNow DEF MetricsInv
  <2>2. /\ metrics'.available = metrics.available + 1 /\ metrics'.leased = metrics.leased
        /\ metrics'.oldest = IF metrics.oldest = Nil \/ m < metrics.oldest
                             THEN m ELSE metrics.oldest
    BY <1>t, <1>8 DEF Metrics
  <2> QED BY <1>t, <1>5, <1>7, <1>8, <2>1, <2>2, MetricsAfter
<1>10. SlotsBelowNext'
  <2>1. queues'[a0].next = queues[a0].next + 1
        /\ \A a \in Agents \ {a0} : queues'[a] = queues[a]
    BY <1>t, <1>1 DEF Enqueue, Append1
  <2>2. ASSUME NEW a \in Agents, NEW f \in queues'[a].entries
        PROVE  f.at < queues'[a].next
    BY <1>t, <1>1, <2>1, <2>2 DEF MetricsInv, SlotsBelowNext, Queue, Entry
  <2> QED BY <2>2 DEF SlotsBelowNext
<1> QED BY <1>9, <1>10 DEF MetricsInv

LEMMA DequeueMetrics ==
  ASSUME TypeInv, TypeInv', MetricsInv, NEW a0 \in Agents, NEW e, DequeueEntry(a0, e)
  PROVE  MetricsInv'
<1>t. /\ metrics \in Metrics /\ metrics' \in Metrics /\ queues \in [Agents -> Queue]
      /\ IsFiniteSet(QueuedCopies(queues))
  BY DEF TypeInv, TypeOK, StoreTypeOK, Finite
<1>1. /\ e \in queues[a0].entries
      /\ \A a \in Agents : \A f : f \in queues'[a].entries <=>
           f \in queues[a].entries /\ ~(a = a0 /\ f = e)
  BY <1>t DEF DequeueEntry, IsHead, Keep
<1>2. QueuedCopies(queues') = QueuedCopies(queues) \ {<<a0, e>>}
  <2>1. ASSUME NEW c PROVE c \in QueuedCopies(queues') <=>
                           c \in QueuedCopies(queues) /\ c # <<a0, e>>
    BY <1>1, CopiesAre
  <2> QED BY <2>1
<1>3. <<a0, e>> \in QueuedCopies(queues)
  BY <1>1, CopiesAre
<1>4. /\ Cardinality(QueuedCopies(queues')) = Cardinality(QueuedCopies(queues)) - 1
      /\ Cardinality(QueuedCopies(queues')) \in Nat /\ Cardinality(QueuedCopies(queues)) \in Nat
  BY <1>t, <1>2, <1>3, FS_RemoveElement, FS_CardinalityType
<1>5. QueuedMsgs(queues) \subseteq Msgs /\ QueuedMsgs(queues') \subseteq Msgs
      /\ e.msg \in QueuedMsgs(queues)
  BY <1>1, QueuedMsgsAre, QueuedMsgsBecome
<1>6. metrics' = [metrics EXCEPT !.available = Decrement(@),
                    !.oldest = IF @ = e.msg THEN Oldest(queues') ELSE @]
      /\ deliveries' = deliveries
  BY DEF DequeueEntry, NoteQueuedRemoved
<1>7. /\ metrics.available = Cardinality(QueuedCopies(queues))
      /\ metrics.leased = Cardinality(deliveries)
      /\ metrics.oldest = Oldest(queues)
  BY <1>t, MetricsNow DEF MetricsInv
<1>8. metrics.oldest # e.msg => Oldest(queues') = metrics.oldest
  <2> SUFFICES ASSUME metrics.oldest # e.msg PROVE Oldest(queues') = metrics.oldest
    OBVIOUS
  <2>1. /\ metrics.oldest \in QueuedMsgs(queues)
        /\ \A n \in QueuedMsgs(queues) : metrics.oldest <= n
    BY <1>5, <1>7, OldestIsLeast
  <2>2. metrics.oldest \in QueuedMsgs(queues')
    <3>1. PICK a \in Agents : \E f \in queues[a].entries : metrics.oldest = f.msg
      BY <2>1, QueuedMsgsAre
    <3>2. PICK f \in queues[a].entries : metrics.oldest = f.msg
      BY <3>1
    <3>3. f \in queues'[a].entries
      BY <1>1, <3>2
    <3> QED BY <3>2, <3>3, QueuedMsgsBecome
  <2>3. QueuedMsgs(queues') \subseteq QueuedMsgs(queues)
    BY <1>1, QueuedMsgsAre, QueuedMsgsBecome
  <2> QED BY <1>5, <2>1, <2>2, <2>3, OldestIs
<1>9. /\ metrics'.available = Decrement(metrics.available) /\ metrics'.leased = metrics.leased
      /\ metrics'.oldest = IF metrics.oldest = e.msg THEN Oldest(queues') ELSE metrics.oldest
  BY <1>t, <1>6 DEF Metrics
<1>10. Decrement(metrics.available) = Cardinality(QueuedCopies(queues'))
  BY <1>4, <1>7 DEF Decrement
<1>11. MetricsExact'
  BY <1>t, <1>6, <1>7, <1>8, <1>9, <1>10, MetricsAfter
<1>12. SlotsBelowNext'
  <2>1. \A a \in Agents : queues'[a].entries # {} => queues'[a].next = queues[a].next
    BY <1>t DEF DequeueEntry, Keep
  <2>2. \A a \in Agents : \A f \in queues'[a].entries : f \in queues[a].entries
    BY <1>1
  <2>3. ASSUME NEW a \in Agents, NEW f \in queues'[a].entries
        PROVE  f.at < queues'[a].next
    BY <2>1, <2>2, <2>3 DEF MetricsInv, SlotsBelowNext
  <2> QED BY <2>3 DEF SlotsBelowNext
<1> QED BY <1>11, <1>12 DEF MetricsInv

(* A lease is made for a message that has none out.                        *)
LEMMA ClaimMetrics ==
  ASSUME CustodyInv, TypeInv', MetricsInv, NEW w \in Workers, Claim(w)
  PROVE  MetricsInv'
<1> DEFINE d0 == NextDelivery(job[w].msg, job[w].agent)
<1>t. /\ metrics \in Metrics /\ metrics' \in Metrics /\ IsFiniteSet(deliveries)
  BY DEF CustodyInv, TypeInv, TypeOK, StoreTypeOK, Finite
<1>1. /\ queues' = queues /\ deliveries' = deliveries \cup {d0}
      /\ metrics' = [metrics EXCEPT !.leased = @ + 1]
      /\ job[w].pc \in HandPC /\ d0.msg = job[w].msg
  BY DEF Claim, LeaseMessage, NoteDeliveryAdded, At, HandPC, NextDelivery
<1>2. d0 \notin deliveries
  <2> HIDE DEF d0
  <2> QED BY <1>1, LeaseIsOnly
<1> HIDE DEF d0
<1>3. Cardinality(deliveries') = Cardinality(deliveries) + 1
  BY <1>t, <1>1, <1>2, FS_AddElement
<1>4. /\ metrics.available = Cardinality(QueuedCopies(queues))
      /\ metrics.leased = Cardinality(deliveries)
      /\ metrics.oldest = Oldest(queues)
  BY <1>t, MetricsNow DEF MetricsInv
<1>5. /\ metrics'.available = metrics.available /\ metrics'.leased = metrics.leased + 1
      /\ metrics'.oldest = metrics.oldest
  BY <1>t, <1>1 DEF Metrics
<1>6. MetricsExact'
  BY <1>t, <1>1, <1>3, <1>4, <1>5, MetricsAfter
<1>7. SlotsBelowNext'
  BY <1>1 DEF MetricsInv, SlotsBelowNext
<1> QED BY <1>6, <1>7 DEF MetricsInv

(* An ack and a nack end one lease.                                        *)
LEMMA SettleMetrics ==
  ASSUME TypeInv, TypeInv', MetricsInv, NEW d \in deliveries,
         queues' = queues, deliveries' = deliveries \ {d},
         metrics' = NoteDeliveryRemoved
  PROVE  MetricsInv'
<1>t. /\ metrics \in Metrics /\ metrics' \in Metrics /\ IsFiniteSet(deliveries)
  BY DEF TypeInv, TypeOK, StoreTypeOK, Finite
<1>1. /\ Cardinality(deliveries') = Cardinality(deliveries) - 1
      /\ Cardinality(deliveries') \in Nat /\ Cardinality(deliveries) \in Nat
  BY <1>t, FS_RemoveElement, FS_CardinalityType
<1>2. /\ metrics.available = Cardinality(QueuedCopies(queues))
      /\ metrics.leased = Cardinality(deliveries)
      /\ metrics.oldest = Oldest(queues)
  BY <1>t, MetricsNow DEF MetricsInv
<1>3. /\ metrics'.available = metrics.available
      /\ metrics'.leased = Decrement(metrics.leased)
      /\ metrics'.oldest = metrics.oldest
  BY <1>t DEF Metrics, NoteDeliveryRemoved
<1>4. Decrement(metrics.leased) = Cardinality(deliveries')
  BY <1>1, <1>2 DEF Decrement
<1>5. MetricsExact'
  BY <1>t, <1>2, <1>3, <1>4, MetricsAfter
<1>6. SlotsBelowNext'
  BY DEF MetricsInv, SlotsBelowNext
<1> QED BY <1>5, <1>6 DEF MetricsInv

(* The sweep ends as many leases as it subtracts.                          *)
LEMMA SweepMetrics ==
  ASSUME TypeInv, TypeInv', MetricsInv, ExpireLeases
  PROVE  MetricsInv'
<1>t. /\ metrics \in Metrics /\ metrics' \in Metrics /\ IsFiniteSet(deliveries)
      /\ overdue \subseteq deliveries
  BY DEF TypeInv, TypeOK, StoreTypeOK, Finite
<1>0. /\ queues' = queues /\ deliveries' = deliveries \ overdue
      /\ metrics' = NoteExpired(Cardinality(overdue))
  BY DEF ExpireLeases
<1>1. /\ Cardinality(deliveries') = Cardinality(deliveries) - Cardinality(overdue)
      /\ Cardinality(deliveries') \in Nat /\ Cardinality(deliveries) \in Nat
      /\ Cardinality(overdue) \in Nat
  <2>1. deliveries \cap overdue = overdue /\ IsFiniteSet(overdue) /\ IsFiniteSet(deliveries')
    BY <1>t, <1>0, FS_Subset
  <2>2. Cardinality(deliveries \ overdue)
          = Cardinality(deliveries) - Cardinality(deliveries \cap overdue)
    BY <1>t, <2>1, FS_Difference
  <2>3. /\ Cardinality(deliveries') \in Nat /\ Cardinality(deliveries) \in Nat
        /\ Cardinality(overdue) \in Nat
    BY <1>t, <2>1, FS_CardinalityType
  <2> QED BY <1>0, <2>1, <2>2, <2>3
<1>2. /\ metrics.available = Cardinality(QueuedCopies(queues))
      /\ metrics.leased = Cardinality(deliveries)
      /\ metrics.oldest = Oldest(queues)
  BY <1>t, MetricsNow DEF MetricsInv
<1>3. /\ metrics'.available = metrics.available
      /\ metrics'.leased = IF metrics.leased > Cardinality(overdue)
                           THEN metrics.leased - Cardinality(overdue) ELSE 0
      /\ metrics'.oldest = metrics.oldest
  BY <1>t, <1>0 DEF Metrics, NoteExpired
<1>4. metrics'.leased = Cardinality(deliveries')
  BY <1>1, <1>2, <1>3
<1>5. MetricsExact'
  BY <1>t, <1>0, <1>2, <1>3, <1>4, MetricsAfter
<1>6. SlotsBelowNext'
  BY <1>0 DEF MetricsInv, SlotsBelowNext
<1> QED BY <1>5, <1>6 DEF MetricsInv

LEMMA PurgeMetrics ==
  ASSUME TypeInv, MetricsInv, NEW gone, PurgeAgents(gone)
  PROVE  MetricsInv'
<1>1. deliveries' = deliveries /\ MetricsExact'
  BY DEF PurgeAgents, MetricsExact
<1>2. \A a \in Agents : /\ queues'[a].entries \subseteq queues[a].entries
                        /\ queues'[a].entries # {} => queues'[a].next = queues[a].next
  BY DEF PurgeAgents, Keep, Kept
<1>3. SlotsBelowNext'
  <2>1. ASSUME NEW a \in Agents, NEW e \in queues'[a].entries
        PROVE  e.at < queues'[a].next
    BY <1>2, <2>1 DEF MetricsInv, SlotsBelowNext
  <2> QED BY <2>1 DEF SlotsBelowNext
<1> QED BY <1>1, <1>3 DEF MetricsInv

LEMMA MetricsUnmoved ==
  ASSUME MetricsInv, UNCHANGED <<queues, deliveries, metrics>>
  PROVE  MetricsInv'
BY DEF MetricsInv, MetricsExact, SlotsBelowNext

LEMMA MetricsKept ==
  ASSUME CustodyInv, MetricsInv, [Next]_vars
  PROVE  MetricsInv'
<1>t. TypeInv /\ TypeInv'
  BY TypeStep DEF CustodyInv
<1>1. ASSUME NEW w \in Workers,
             \/ \E a \in Agents, call \in Calls : Authenticate(w, a, call)
             \/ \E m \in Msgs, to \in Agents, key \in Keys \cup {Nil} :
                  Authorize(w, m, to, key)
             \/ Refuse(w) \/ RegisterReplay(w) \/ Register(w) \/ PublishEnqueueFails(w)
             \/ Abort(w) \/ CountQueued(w) \/ GiveUp(w) \/ PutBackFails(w)
             \/ \E d \in job[w].batch : RequeueFails(w, d)
      PROVE  MetricsInv'
  <2>1. UNCHANGED <<queues, deliveries, metrics>>
    BY <1>1 DEF Authenticate, Authorize, Refuse, RegisterReplay, CountReplay, Register,
       CreateRecord, PublishEnqueueFails, Abort, AbortRecord, CountQueued, GiveUp,
       PutBackFails, RequeueFails, storeVars
  <2> QED BY <2>1, MetricsUnmoved
<1>2. ASSUME NEW w \in Workers, PublishEnqueue(w) \/ PutBack(w)
      PROVE  MetricsInv'
  <2>1. job[w].msg \in Msgs /\ CanEnqueue(job[w].msg) /\ Enqueue(job[w].msg)
    BY <1>2, JobFacts DEF PublishEnqueue, PutBack, At, Carries, Publishing, HandPC
  <2> QED BY <1>t, <2>1, EnqueueMetrics
<1>3. ASSUME NEW w \in Workers, NEW d \in job[w].batch, Requeue(w, d)
      PROVE  MetricsInv'
  <2>1. d.msg \in Msgs /\ CanEnqueue(d.msg) /\ Enqueue(d.msg)
    BY <1>3, JobFacts DEF Requeue
  <2> QED BY <1>t, <2>1, EnqueueMetrics
<1>4. ASSUME NEW w \in Workers, NEW e, Dequeue(w, e)
      PROVE  MetricsInv'
  <2>1. job[w].agent \in Agents /\ DequeueEntry(job[w].agent, e)
    BY <1>4, JobFacts DEF Dequeue, At
  <2> QED BY <1>t, <2>1, DequeueMetrics
<1>5. ASSUME NEW w \in Workers, Claim(w)
      PROVE  MetricsInv'
  BY <1>t, <1>5, ClaimMetrics
<1>6. ASSUME NEW w \in Workers, NEW d \in deliveries, Ack(w, d) \/ Nack(w, d)
      PROVE  MetricsInv'
  BY <1>t, <1>6, SettleMetrics DEF Ack, Nack, AckDelivery, ReleaseDelivery
<1>7. ASSUME NEW w \in Workers, Sweep(w)
      PROVE  MetricsInv'
  BY <1>t, <1>7, SweepMetrics DEF Sweep
<1>8. ASSUME NEW gone, RemoveAgents(gone)
      PROVE  MetricsInv'
  BY <1>t, <1>8, PurgeMetrics DEF RemoveAgents
<1>9. CASE (\E d \in deliveries : LeaseElapses(d)) \/ UNCHANGED vars
  BY <1>9, MetricsUnmoved DEF LeaseElapses, vars, storeVars
<1> QED BY <1>1, <1>2, <1>3, <1>4, <1>5, <1>6, <1>7, <1>8, <1>9 DEF Next, Step

(* The queue metrics the status page reads are what counting the queues    *)
(* and the leases would give, after every call of every request.           *)
THEOREM MetricsAreExact == Spec => []MetricsExact
<1>1. Init => MetricsInv
  <2> SUFFICES ASSUME Init PROVE MetricsInv
    OBVIOUS
  <2>1. /\ queues = [a \in Agents |-> EmptyQueue] /\ deliveries = {}
        /\ metrics = [available |-> 0, leased |-> 0, oldest |-> Nil]
    BY DEF Init, StoreInit
  <2>2. QueuedCopies(queues) = {} /\ QueuedMsgs(queues) = {} /\ SlotsBelowNext
    BY <2>1 DEF QueuedCopies, QueuedMsgs, SlotsBelowNext, EmptyQueue
  <2>3. Cardinality({}) = 0
    BY FS_EmptySet
  <2> QED BY <2>1, <2>2, <2>3 DEF MetricsInv, MetricsExact, ComputeMetrics, Oldest
<1>2. CustodyInv /\ MetricsInv /\ [Next]_vars => MetricsInv'
  BY MetricsKept
<1>3. MetricsInv => MetricsExact
  BY DEF MetricsInv
<1> QED BY <1>1, <1>2, <1>3, CustodyIsInvariant, PTL DEF Spec

=============================================================================
