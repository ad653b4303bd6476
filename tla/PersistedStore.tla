--------------------------- MODULE PersistedStore ---------------------------
(***************************************************************************)
(* The S3 state store: a memory store, and a bucket with one object per    *)
(* entry of it.  Every call changes memory first and then saves: the       *)
(* objects that differ from what was last saved are put one by one, those  *)
(* that are gone are deleted one by one, and only when all of that went    *)
(* well is the new state the one "last saved".  A call of the bucket may   *)
(* fail, with or without its effect.  A start loads the bucket.            *)
(*                                                                         *)
(* With ObjectQueue the queues are kept by s3QueueStore, in objects that   *)
(* are put and deleted directly.                                           *)
(***************************************************************************)
EXTENDS Naturals, Sequences, FiniteSets, SequencesExt

CONSTANTS
  Msgs,          \* the message ids, numbered in the order of their creation
  Keys,          \* the client_msg_ids in use
  NoKey,
  Entries,       \* other entries of the store: organizations, peers, trusts...
  MaxDeliveries  \* deliveries made of one message (bound)

VARIABLES
  setup,    \* how the hub is configured and used; it does not change
  queue,    \* queues: the messages queued for the receiver
  record,   \* messageRecords
  leases,   \* messageDeliveries
  byKey,    \* messageByClientMsg
  entries,  \* the other maps of the memory store
  bucket,   \* the objects in the bucket
  saved,    \* persistedObjects
  save      \* the save in progress, by the call that holds persistMu

memory == <<queue, record, leases, byKey, entries>>
store  == <<memory, bucket, saved, save>>

(* Whether the queues are kept by s3QueueStore, and the client_msg_id each *)
(* message is published under, if any.                                     *)
ObjectQueue == setup.objectQueue
KeyOf(m)    == setup.keyOf[m]

Deliveries == Msgs \X (1 .. MaxDeliveries)
Statuses   == {"queued", "leased", "acked"}

(* A value is what an object holds; only records hold more than their name. *)
Value(kind, last, replays) == [status |-> kind, last |-> last, replays |-> replays]
Absent  == Value("absent", 0, 0)
Present == Value("present", 0, 0)
Records == [status : Statuses, last : 0 .. MaxDeliveries, replays : Nat]

(* Objects are put in the order of their keys, and then deleted in it:     *)
(* entries, leases ("message_leases"), records ("messages"), queues.       *)
EntryObject(e)  == <<0, e>>
LeaseObject(d)  == <<1, d>>
RecordObject(m) == <<2, m>>
QueueObject(m)  == <<3, m>>
Objects == {EntryObject(e) : e \in Entries} \cup {LeaseObject(d) : d \in Deliveries}
             \cup {RecordObject(m) : m \in Msgs} \cup {QueueObject(m) : m \in Msgs}
First(S) == {o \in S : \A p \in S : o[1] <= p[1]}

IsIn(S, x) == IF x \in S THEN Present ELSE Absent

(* buildDesiredObjects: the object of every entry in memory. *)
Desired_NoQueues(q, r, l, e) ==   \* mutant: the queues are not saved
  [o \in Objects |->
    CASE o[1] = 0 -> IsIn(e, o[2])
      [] o[1] = 1 -> IsIn(l, o[2])
      [] o[1] = 2 -> r[o[2]]
      [] o[1] = 3 -> Absent]
Desired(q, r, l, e) ==
  [o \in Objects |->
    CASE o[1] = 0 -> IsIn(e, o[2])
      [] o[1] = 1 -> IsIn(l, o[2])
      [] o[1] = 2 -> r[o[2]]
      [] o[1] = 3 -> IF ObjectQueue THEN Absent ELSE IsIn(ToSet(q), o[2])]

NoSave == [by |-> "nobody", desired |-> [o \in Objects |-> Absent],
           puts |-> {}, deletes |-> {}]

(* persistMu is free. *)
Unlocked == save.by = "nobody"

(* persistAll, up to its first call of the bucket. *)
Differs_InMemory(desired) ==   \* mutant: only objects that were never saved are put
  {o \in Objects : desired[o] # Absent /\ saved[o] = Absent}
Differs(desired) == {o \in Objects : desired[o] # Absent /\ saved[o] # desired[o]}
Gone(desired)    == {o \in Objects : desired[o] = Absent /\ saved[o] # Absent}
StartSave(w) ==
  LET desired == Desired(queue', record', leases', entries') IN
  /\ save' = [by |-> w, desired |-> desired,
              puts |-> Differs(desired), deletes |-> Gone(desired)]
  /\ UNCHANGED <<bucket, saved>>

NextCalls == IF save.puts # {} THEN First(save.puts) ELSE First(save.deletes)
Without(o) == [save EXCEPT !.puts = @ \ {o}, !.deletes = @ \ {o}]

SaveObject(w, o) ==
  /\ save.by = w /\ o \in NextCalls
  /\ bucket' = [bucket EXCEPT ![o] = save.desired[o]]
  /\ save' = Without(o)
  /\ UNCHANGED <<memory, saved>>

FinishSave(w) ==
  /\ save.by = w /\ save.puts = {} /\ save.deletes = {}
  /\ saved' = save.desired
  /\ save' = NoSave
  /\ UNCHANGED <<memory, bucket>>

(* A call of the bucket fails, before or after it took effect. *)
FailSave(w) ==
  /\ save.by = w
  /\ \E o \in NextCalls :
       bucket' \in {bucket, [bucket EXCEPT ![o] = save.desired[o]]}
  /\ save' = NoSave
  /\ UNCHANGED <<memory, saved>>

-----------------------------------------------------------------------------
(* The calls of the memory store, as they change memory. *)

Exists(m) == record[m] # Absent

ReplayOf(m) == {n \in Msgs : KeyOf(m) # NoKey /\ byKey[KeyOf(m)] = n /\ Exists(n)}

CreateRecord(m) ==
  /\ record' = [record EXCEPT ![m] = Value("queued", 0, 0)]
  /\ byKey' = [k \in Keys |-> IF k = KeyOf(m) THEN m ELSE byKey[k]]
  /\ UNCHANGED <<queue, leases, entries>>

CountReplay(m) ==
  /\ record' = [record EXCEPT ![m].replays = @ + 1]
  /\ UNCHANGED <<queue, leases, byKey, entries>>

AbortRecord(m) ==
  /\ record' = [record EXCEPT ![m] = Absent]
  /\ byKey' = [k \in Keys |-> IF k = KeyOf(m) THEN 0 ELSE byKey[k]]
  /\ UNCHANGED <<queue, leases, entries>>

AppendMessage(m) == queue' = Append(queue, m) /\ UNCHANGED <<record, leases, byKey, entries>>
TakeHead == queue' = Tail(queue) /\ UNCHANGED <<record, leases, byKey, entries>>

Lease(d) ==
  /\ record' = [record EXCEPT ![d[1]] = [@ EXCEPT !.status = "leased", !.last = d[2]]]
  /\ leases' = leases \cup {d}
  /\ UNCHANGED <<queue, byKey, entries>>

(* Leases D end; the records that are there get a new status. *)
Settle_KeepsLease(D, status) ==   \* mutant: the lease of an acked message stays
  /\ record' = [m \in Msgs |->
       IF Exists(m) /\ \E d \in D : d[1] = m THEN [record[m] EXCEPT !.status = status]
       ELSE record[m]]
  /\ leases' = IF status = "acked" THEN leases ELSE leases \ D
  /\ UNCHANGED <<queue, byKey, entries>>
Settle(D, status) ==
  /\ record' = [m \in Msgs |->
       IF Exists(m) /\ \E d \in D : d[1] = m THEN [record[m] EXCEPT !.status = status]
       ELSE record[m]]
  /\ leases' = leases \ D
  /\ UNCHANGED <<queue, byKey, entries>>

(* cacheMessageRecord: a record read from the bucket goes into memory. *)
Cache(m, value) ==
  /\ record' = [record EXCEPT ![m] = value]
  /\ byKey' = [k \in Keys |-> IF k = KeyOf(m) THEN m ELSE byKey[k]]
  /\ UNCHANGED <<queue, leases, entries>>

-----------------------------------------------------------------------------
(* loadFromS3. *)

InBucket(o)  == bucket[o] # Absent
LoadedMessages_ByStatus ==   \* mutant: every record that says queued is queued again
  {m \in Msgs : /\ ~ObjectQueue
                /\ InBucket(QueueObject(m)) \/ bucket[RecordObject(m)].status = "queued"}
LoadedMessages == {m \in Msgs : ~ObjectQueue /\ InBucket(QueueObject(m))}
LoadedLeases == {d \in Deliveries : InBucket(LeaseObject(d))}

LoadedEntries == {e \in Entries : InBucket(EntryObject(e))}

(* Only the records of queued and leased messages are read. *)
Active == LoadedMessages \cup {d[1] : d \in LoadedLeases}
LoadedRecord == [m \in Msgs |-> IF m \in Active THEN bucket[RecordObject(m)] ELSE Absent]

(* The index of client_msg_ids is rebuilt from the records read, in the    *)
(* order of a Go map.                                                      *)
RebuiltIndex(k) ==
  LET M == {m \in Msgs : KeyOf(m) = k /\ LoadedRecord[m] # Absent}
  IN IF M = {} THEN {0} ELSE M

(* The queues are sorted by the creation of their messages. *)
InOrder(S) == {q \in [1 .. Cardinality(S) -> S] :
                 ToSet(q) = S /\ \A i, j \in DOMAIN q : i < j => q[i] < q[j]}

Load ==
  /\ queue' \in InOrder(LoadedMessages)
  /\ leases' = LoadedLeases
  /\ record' = LoadedRecord
  /\ entries' = LoadedEntries
  /\ byKey' \in {f \in [Keys -> Msgs \cup {0}] : \A k \in Keys : f[k] \in RebuiltIndex(k)}
  /\ saved' = Desired(queue', record', leases', entries')
  /\ save' = NoSave
  /\ UNCHANGED bucket

StoreInit ==
  /\ queue = <<>> /\ leases = {} /\ entries = {}
  /\ record = [m \in Msgs |-> Absent] /\ byKey = [k \in Keys |-> 0]
  /\ bucket = [o \in Objects |-> Absent] /\ saved = bucket
  /\ save = NoSave
=============================================================================
