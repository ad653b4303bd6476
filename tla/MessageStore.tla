---------------------------- MODULE MessageStore ----------------------------
(***************************************************************************)
(* The message half of the hub's state: store.MemoryStore's message        *)
(* records, client-message-id index, per-agent queues, active deliveries   *)
(* (leases), queue metrics and message counters, with one operator per     *)
(* store call.  Every call runs under MemoryStore.mu, so each is a single  *)
(* atomic step; the handlers that string the calls together are in         *)
(* MessageDelivery.                                                        *)
(*                                                                         *)
(* Data abstractions.                                                      *)
(*  - A message id is a number, and ids are allotted in increasing order:  *)
(*    the id also stands for Message.CreatedAt.                            *)
(*  - A delivery id names the lease it was made for: the message and the   *)
(*    attempt.  The code draws a fresh random id for every lease.          *)
(*  - A Go slice used as a queue is the set of its (index, message) pairs  *)
(*    with the index the next append writes to; the index starts again     *)
(*    from 0 once the queue is empty.                                      *)
(*  - Time is the set of leases whose expiry has passed.                   *)
(***************************************************************************)
EXTENDS Integers, FiniteSets

CONSTANTS
  Agents,    \* agent UUIDs
  Msgs,      \* message ids, in the order they are created
  Keys,      \* client_msg_id values
  Nil        \* a nil pointer or an empty id: no key, no message, no agent

ASSUME MsgsAssumption == Msgs \subseteq Nat
ASSUME NilAssumption  == Nil \notin Nat /\ Nil \notin Keys /\ Nil \notin Agents

VARIABLES
  active,      \* agents that exist and are not revoked
  env,         \* message id -> the model.Message built for it
  records,     \* messageRecords
  byClient,    \* messageByClientMsg: sender and client_msg_id -> message id
  queues,      \* queues, per receiving agent
  deliveries,  \* messageDeliveries: the leases that are out
  overdue,     \* the leases among them whose expiry has passed
  metrics,     \* queueMetrics, kept up to date call by call
  stats        \* the message counters of stats/statsDaily, summed over orgs

storeVars == <<active, env, records, byClient, queues, deliveries, overdue,
               metrics, stats>>

Envelope   == [from : Agents, to : Agents, key : Keys \cup {Nil}]
NoEnvelope == [from |-> Nil, to |-> Nil, key |-> Nil]

Status   == {"queued", "leased", "acked"}
Record   == [status : Status, attempts : Nat, requeues : Nat, replays : Nat]
NoRecord == [status |-> "none", attempts |-> 0, requeues |-> 0, replays |-> 0]
NewRecord == [NoRecord EXCEPT !.status = "queued"]

Delivery == [msg : Msgs, attempt : Nat, agent : Agents]
Entry    == [at : Nat, msg : Msgs]
Queue    == [next : Nat, entries : SUBSET Entry]
EmptyQueue == [next |-> 0, entries |-> {}]

Metrics == [available : Nat, leased : Nat, oldest : Msgs \cup {Nil}]
Stats   == [queued : Nat, acked : Nat, expired : Nat, redelivered : Nat,
            duplicate : Nat]

(* Every variable of the store has the shape of the Go value it models. *)
StoreTypeOK ==
  /\ active \subseteq Agents
  /\ env \in [Msgs -> Envelope \cup {NoEnvelope}]
  /\ records \in [Msgs -> Record \cup {NoRecord}]
  /\ byClient \in [Agents \X Keys -> Msgs \cup {Nil}]
  /\ queues \in [Agents -> Queue]
  /\ deliveries \subseteq Delivery
  /\ overdue \subseteq deliveries
  /\ metrics \in Metrics
  /\ stats \in Stats

StoreInit ==
  /\ active = Agents
  /\ env = [m \in Msgs |-> NoEnvelope]
  /\ records = [m \in Msgs |-> NoRecord]
  /\ byClient = [k \in Agents \X Keys |-> Nil]
  /\ queues = [a \in Agents |-> EmptyQueue]
  /\ deliveries = {}
  /\ overdue = {}
  /\ metrics = [available |-> 0, leased |-> 0, oldest |-> Nil]
  /\ stats = [queued |-> 0, acked |-> 0, expired |-> 0, redelivered |-> 0,
              duplicate |-> 0]

-----------------------------------------------------------------------------
(* Queues as slices. *)

Append1_Overwrites(q, m) ==   \* mutant: the new slice has the new message only
  [next |-> q.next + 1, entries |-> {[at |-> q.next, msg |-> m]}]

Append1(q, m) == [next    |-> q.next + 1,
                  entries |-> q.entries \cup {[at |-> q.next, msg |-> m]}]

Keep(q, S) == [next    |-> IF S = {} THEN 0 ELSE q.next,
               entries |-> S]

IsHead(q, e) == e \in q.entries /\ \A f \in q.entries : e.at <= f.at

QueuedMsgs(qs) == UNION {{e.msg : e \in qs[a].entries} : a \in Agents}

QueuedCopies(qs) == UNION {{<<a, e>> : e \in qs[a].entries} : a \in Agents}

-----------------------------------------------------------------------------
(* Queue metrics: the incremental bookkeeping and the full recomputation. *)

Oldest(qs) ==
  IF QueuedMsgs(qs) = {} THEN Nil
  ELSE CHOOSE m \in QueuedMsgs(qs) : \A n \in QueuedMsgs(qs) : m <= n

ComputeMetrics(qs, ds) ==
  [available |-> Cardinality(QueuedCopies(qs)),
   leased    |-> Cardinality(ds),
   oldest    |-> Oldest(qs)]

Decrement(n) == IF n > 0 THEN n - 1 ELSE n

NoteQueuedAdded(m) ==
  [metrics EXCEPT !.available = @ + 1,
                  !.oldest = IF @ = Nil \/ m < @ THEN m ELSE @]

NoteQueuedRemoved_StaleOldest(m, qs) ==   \* mutant: oldest not recomputed
  [metrics EXCEPT !.available = Decrement(@)]

NoteQueuedRemoved(m, qs) ==
  [metrics EXCEPT !.available = Decrement(@),
                  !.oldest = IF @ = m THEN Oldest(qs) ELSE @]

NoteDeliveryAdded   == [metrics EXCEPT !.leased = @ + 1]
NoteDeliveryRemoved == [metrics EXCEPT !.leased = Decrement(@)]
NoteExpired(n)      == [metrics EXCEPT !.leased = IF @ > n THEN @ - n ELSE 0]

-----------------------------------------------------------------------------
(* Message records. *)

Exists(m) == records[m] # NoRecord

ReplayOf_Never(m) == Nil   \* mutant: the client_msg_id is not looked up

(* The record a publish of m is an idempotent replay of, if there is one:  *)
(* the one its sender already made under the same client_msg_id.           *)
ReplayOf(m) ==
  IF env[m].key = Nil THEN Nil
  ELSE LET k == byClient[<<env[m].from, env[m].key>>]
       IN  IF k # Nil /\ Exists(k) THEN k ELSE Nil

CountReplay(m) ==
  /\ records' = [records EXCEPT ![ReplayOf(m)].replays = @ + 1]
  /\ stats' = [stats EXCEPT !.duplicate = @ + 1]
  /\ UNCHANGED <<byClient, queues, deliveries, overdue, metrics>>

CreateRecord(m) ==
  /\ records' = [records EXCEPT ![m] = NewRecord]
  /\ byClient' = IF env[m].key = Nil THEN byClient
                 ELSE [byClient EXCEPT ![<<env[m].from, env[m].key>>] = m]
  /\ UNCHANGED <<queues, deliveries, overdue, metrics, stats>>

AbortRecord(m) ==
  /\ records' = [records EXCEPT ![m] = NoRecord]
  /\ byClient' = IF env[m].key = Nil THEN byClient
                 ELSE [byClient EXCEPT ![<<env[m].from, env[m].key>>] = Nil]
  /\ UNCHANGED <<queues, deliveries, overdue, metrics, stats>>

-----------------------------------------------------------------------------
(* Queue calls. *)

CanEnqueue(m) == env[m].to \in active

Enqueue_ToSender(m) ==   \* mutant: from and to swapped
  /\ queues' = [queues EXCEPT ![env[m].from] = Append1(@, m)]
  /\ metrics' = NoteQueuedAdded(m)
  /\ UNCHANGED <<records, byClient, deliveries, overdue, stats>>

Enqueue(m) ==
  /\ queues' = [queues EXCEPT ![env[m].to] = Append1(@, m)]
  /\ metrics' = NoteQueuedAdded(m)
  /\ UNCHANGED <<records, byClient, deliveries, overdue, stats>>

DequeueEntry(a, e) ==
  /\ IsHead(queues[a], e)
  /\ queues' = [queues EXCEPT ![a] = Keep(@, @.entries \ {e})]
  /\ metrics' = NoteQueuedRemoved(e.msg, queues')
  /\ UNCHANGED <<records, byClient, deliveries, overdue, stats>>

-----------------------------------------------------------------------------
(* Leases. *)

CanLease(m, a) == Exists(m) /\ env[m].to = a

NextDelivery(m, a) ==
  [msg |-> m, attempt |-> records[m].attempts + 1, agent |-> a]

LeaseMessage(m, a) ==
  /\ records' = [records EXCEPT ![m].status = "leased",
                                ![m].attempts = @ + 1]
  /\ deliveries' = deliveries \cup {NextDelivery(m, a)}
  /\ metrics' = NoteDeliveryAdded
  /\ stats' = IF records[m].attempts > 0
              THEN [stats EXCEPT !.redelivered = @ + 1] ELSE stats
  /\ UNCHANGED <<byClient, queues, overdue>>

AckDelivery_KeepsLease(d) ==   \* mutant: the delivery is not deleted
  /\ records' = [records EXCEPT ![d.msg].status = "acked"]
  /\ metrics' = NoteDeliveryRemoved
  /\ stats' = [stats EXCEPT !.acked = @ + 1]
  /\ UNCHANGED <<byClient, queues, deliveries, overdue>>

AckDelivery(d) ==
  /\ records' = [records EXCEPT ![d.msg].status = "acked"]
  /\ deliveries' = deliveries \ {d}
  /\ overdue' = overdue \ {d}
  /\ metrics' = NoteDeliveryRemoved
  /\ stats' = [stats EXCEPT !.acked = @ + 1]
  /\ UNCHANGED <<byClient, queues>>

Requeued(r) == [status   |-> "queued",       attempts |-> r.attempts,
                requeues |-> r.requeues + 1, replays  |-> r.replays]

ReleaseDelivery_KeepsLease(d) ==   \* mutant: the delivery is not deleted
  /\ records' = [records EXCEPT ![d.msg] = Requeued(@)]
  /\ metrics' = NoteDeliveryRemoved
  /\ UNCHANGED <<byClient, queues, deliveries, overdue, stats>>

ReleaseDelivery(d) ==
  /\ records' = [records EXCEPT ![d.msg] = Requeued(@)]
  /\ deliveries' = deliveries \ {d}
  /\ overdue' = overdue \ {d}
  /\ metrics' = NoteDeliveryRemoved
  /\ UNCHANGED <<byClient, queues, stats>>

(* Every overdue lease is taken back in one call; the caller gets the      *)
(* messages of those leases to put back in the queue.                      *)
ExpireLeases ==
  /\ records' = [m \in Msgs |->
                   IF \E d \in overdue : d.msg = m
                   THEN Requeued(records[m]) ELSE records[m]]
  /\ deliveries' = deliveries \ overdue
  /\ overdue' = {}
  /\ metrics' = NoteExpired(Cardinality(overdue))
  /\ stats' = [stats EXCEPT !.expired = @ + Cardinality(overdue)]
  /\ UNCHANGED <<byClient, queues>>

-----------------------------------------------------------------------------
(* RevokeAgent and DeleteAgent take one agent, DeleteOrg those of an org.  *)
(* The queued messages a removed agent sent or was to receive are purged,  *)
(* in every queue, and nothing else of the message state is touched.       *)

Involves(m, gone) == env[m].from \in gone \/ env[m].to \in gone

Kept(q, gone) == {e \in q.entries : ~Involves(e.msg, gone)}

PurgeAgents(gone) ==
  /\ active' = active \ gone
  /\ queues' = [a \in Agents |-> Keep(queues[a], Kept(queues[a], gone))]
  /\ metrics' = ComputeMetrics(queues', deliveries)
  /\ UNCHANGED <<env, records, byClient, deliveries, overdue, stats>>

Purged(gone) == {m \in QueuedMsgs(queues) : Involves(m, gone)}

=============================================================================
