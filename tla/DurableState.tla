---------------------------- MODULE DurableState ----------------------------
(***************************************************************************)
(* The hub on the S3 stores: the message handlers and the control calls,   *)
(* the saves they wait for, S3 calls that fail, crashes and restarts.      *)
(* There is one receiver; messages are published in the order of their     *)
(* numbers.                                                                *)
(***************************************************************************)
EXTENDS PersistedStore

CONSTANTS
  Workers,      \* the request goroutines
  Setups        \* the configurations and uses of the hub to look at

(* A use of the hub is bounded by the requests served at a time, the       *)
(* messages published, the deliveries made of each, whether the status of  *)
(* messages is asked for, the entries made, the crashes and the failures.  *)
Setup == [objectQueue : BOOLEAN, keyOf : [Msgs -> Keys \cup {NoKey}],
          workers : SUBSET Workers, messages : Nat, deliveries : 0 .. MaxDeliveries,
          queries : BOOLEAN, entries : SUBSET Entries, crashes : Nat, failures : Nat]

ASSUME MsgsAssumption  == Msgs \subseteq Nat \ {0} /\ IsFiniteSet(Msgs)
ASSUME KeysAssumption  == NoKey \notin Keys
ASSUME BoundAssumption == MaxDeliveries \in Nat
ASSUME WorkersAssumption == "nobody" \notin Workers
ASSUME SetupsAssumption == Setups \subseteq Setup

VARIABLES
  job,        \* what each worker is doing
  due,        \* the deliveries whose lease has expired, by the clock
  made,       \* how many delivery ids were made for each message
  begun,      \* the entries whose creation was begun: ids are not used again
  published,  \* how many messages were published
  crashes, failures,
  handed,     \* the deliveries given to the receiver
  accepted, acked, created, removed,  \* what callers were told (history)
  lost        \* messages in the hands of a request when it crashed (history)

env   == <<due, made, begun, published, setup>>
count == <<crashes, failures>>
told  == <<handed, accepted, acked, created, removed, lost>>
vars  == <<store, job, env, count, told>>

Idle == [pc |-> "idle", msg |-> 0, last |-> 0, batch |-> {}, read |-> Absent,
         entry |-> "none"]

At(w, pc) == job[w].pc = pc
Msg(w)    == job[w].msg
Become(w, pc) == job' = [job EXCEPT ![w] = IF pc = "idle" THEN Idle ELSE [@ EXCEPT !.pc = pc]]
Hold(w, pc, m) == job' = [job EXCEPT ![w] = [@ EXCEPT !.pc = pc, !.msg = m]]

Init ==
  /\ setup \in Setups
  /\ StoreInit
  /\ job = [w \in Workers |-> Idle]
  /\ due = {} /\ made = [m \in Msgs |-> 0] /\ begun = {} /\ published = 0
  /\ crashes = 0 /\ failures = 0
  /\ handed = {} /\ accepted = {} /\ acked = {} /\ created = {} /\ removed = {}
  /\ lost = {}

(* A call of the state store: it waits for persistMu, changes memory, and  *)
(* saves; its caller goes on when the save is over.                        *)
Call(w) == Unlocked /\ StartSave(w)

-----------------------------------------------------------------------------
(* Control calls: something is created or removed. *)

CreateEntry(w, e) ==
  /\ At(w, "idle") /\ e \notin begun
  /\ begun' = begun \cup {e}
  /\ entries' = entries \cup {e}
  /\ job' = [job EXCEPT ![w] = [@ EXCEPT !.pc = "creating", !.entry = e]]
  /\ UNCHANGED <<queue, record, leases, byKey>> /\ Call(w)
  /\ UNCHANGED <<due, made, published, setup, count, told>>

RemoveEntry(w, e) ==
  /\ At(w, "idle") /\ e \in entries
  /\ entries' = entries \ {e}
  /\ job' = [job EXCEPT ![w] = [@ EXCEPT !.pc = "removing", !.entry = e]]
  /\ UNCHANGED <<queue, record, leases, byKey>> /\ Call(w)
  /\ UNCHANGED <<env, count, told>>

ControlCall(w) == \E e \in setup.entries : CreateEntry(w, e) \/ RemoveEntry(w, e)

-----------------------------------------------------------------------------
(* Enqueue, of s3StateStore (a save) and of s3QueueStore (one put). *)

AppendAndSave(w, saving) ==
  /\ ~ObjectQueue
  /\ AppendMessage(Msg(w)) /\ Call(w) /\ Become(w, saving)
  /\ UNCHANGED <<env, count, told>>

PutMessage(w) == bucket' = [bucket EXCEPT ![QueueObject(Msg(w))] = Present]
PutObject(w, done) ==
  /\ ObjectQueue
  /\ PutMessage(w) /\ Become(w, done)
  /\ UNCHANGED <<memory, saved, save, env, count>>
PutFails(w, failed) ==
  /\ ObjectQueue /\ failures < setup.failures
  /\ PutMessage(w) \/ UNCHANGED bucket
  /\ failures' = failures + 1 /\ Become(w, failed)
  /\ UNCHANGED <<memory, saved, save, env, crashes, told>>

-----------------------------------------------------------------------------
(* Publish. *)

Publish(w, m) ==
  /\ At(w, "idle") /\ m = published + 1 /\ m <= setup.messages
  /\ published' = m
  /\ Hold(w, "register", m)
  /\ UNCHANGED <<store, due, made, begun, setup, count, told>>

Register(w) ==
  /\ At(w, "register") /\ ReplayOf(Msg(w)) = {}
  /\ CreateRecord(Msg(w)) /\ Call(w) /\ Become(w, "registering")
  /\ UNCHANGED <<env, count, told>>
RegisterReplay(w) ==
  /\ At(w, "register")
  /\ \E n \in ReplayOf(Msg(w)) : CountReplay(n) /\ Hold(w, "replaying", n)
  /\ Call(w)
  /\ UNCHANGED <<env, count, told>>

PublishEnqueue(w) ==
  /\ At(w, "enqueue")
  /\ \/ AppendAndSave(w, "enqueuing")
     \/ /\ PutObject(w, "idle") /\ accepted' = accepted \cup {Msg(w)}
        /\ UNCHANGED <<handed, acked, created, removed, lost>>
     \/ PutFails(w, "abort")

Abort(w) ==
  /\ At(w, "abort")
  /\ AbortRecord(Msg(w)) /\ Call(w) /\ Become(w, "aborting")
  /\ UNCHANGED <<env, count, told>>

-----------------------------------------------------------------------------
(* Pull. *)

Pull(w) ==
  /\ At(w, "idle")
  /\ Become(w, "sweep")
  /\ UNCHANGED <<store, env, count, told>>

(* Leases without a record go too; their messages are not put back. *)
Sweep(w) ==
  LET overdue == leases \cap due
      back    == {d[1] : d \in {x \in overdue : Exists(x[1])}}
  IN
  /\ At(w, "sweep") /\ Unlocked
  /\ Settle(overdue, "queued")
  /\ job' = [job EXCEPT ![w] = [@ EXCEPT
       !.pc = IF back = {} THEN "dequeue" ELSE "sweeping", !.batch = back]]
  /\ IF back = {} THEN UNCHANGED <<bucket, saved, save>> ELSE StartSave(w)
  /\ UNCHANGED <<env, count, told>>

RequeueNext(w) ==
  /\ At(w, "requeue")
  /\ \/ /\ job[w].batch = {} /\ Become(w, "dequeue")
     \/ \E m \in job[w].batch : job' = [job EXCEPT ![w] =
          [@ EXCEPT !.pc = "requeueOne", !.msg = m, !.batch = job[w].batch \ {m}]]
  /\ UNCHANGED <<store, env, count, told>>

(* The first that fails ends the requeue; the rest of the batch is dropped. *)
Requeue(w) ==
  /\ At(w, "requeueOne")
  /\ \/ AppendAndSave(w, "requeuing")
     \/ PutObject(w, "requeue") /\ UNCHANGED told
     \/ PutFails(w, "dequeue")

Oldest == {m \in Msgs : InBucket(QueueObject(m))
                          /\ \A n \in Msgs : InBucket(QueueObject(n)) => m <= n}
Dequeue(w) ==
  /\ At(w, "dequeue") /\ ~ObjectQueue /\ queue # <<>>
  /\ TakeHead /\ Call(w) /\ Hold(w, "dequeuing", Head(queue))
  /\ UNCHANGED <<env, count, told>>
(* Dequeue of s3QueueStore: list, get and delete, one dequeue at a time. *)
DequeueObject(w) ==
  /\ At(w, "dequeue") /\ ObjectQueue
  /\ \E m \in Oldest :
       /\ bucket' = [bucket EXCEPT ![QueueObject(m)] = Absent]
       /\ Hold(w, "claim", m)
  /\ UNCHANGED <<memory, saved, save, env, count, told>>
DequeueFails(w) ==
  /\ At(w, "dequeue") /\ ObjectQueue /\ failures < setup.failures
  /\ \/ UNCHANGED bucket
     \/ \E m \in Oldest : bucket' = [bucket EXCEPT ![QueueObject(m)] = Absent]
  /\ failures' = failures + 1 /\ Become(w, "idle")
  /\ UNCHANGED <<memory, saved, save, env, crashes, told>>
NothingQueued(w) ==
  /\ At(w, "dequeue")
  /\ IF ObjectQueue THEN Oldest = {} ELSE queue = <<>>
  /\ Become(w, "idle")
  /\ UNCHANGED <<store, env, count, told>>

(* LeaseMessage; a record that is not in memory is read from the bucket,   *)
(* with persistMu released meanwhile.                                      *)
Claim(w) ==
  LET m == Msg(w) IN
  /\ At(w, "claim") \/ At(w, "relock")
  /\ Exists(m) /\ made[m] < setup.deliveries
  /\ made' = [made EXCEPT ![m] = @ + 1]
  /\ Lease(<<m, made[m] + 1>>) /\ Call(w)
  /\ job' = [job EXCEPT ![w] = [@ EXCEPT !.pc = "leasing", !.last = made[m] + 1]]
  /\ UNCHANGED <<due, begun, published, setup, count, told>>
ReadRecord(w) ==
  /\ At(w, "claim") /\ Unlocked /\ ~Exists(Msg(w))
  /\ LET value == bucket[RecordObject(Msg(w))] IN
     IF value = Absent THEN Become(w, "putBack")
     ELSE job' = [job EXCEPT ![w] = [@ EXCEPT !.pc = "loaded", !.read = value]]
  /\ UNCHANGED <<store, env, count, told>>
CacheLoaded(w) ==
  /\ At(w, "loaded")
  /\ Cache(Msg(w), job[w].read) /\ Become(w, "relock")
  /\ UNCHANGED <<bucket, saved, save, env, count, told>>
ClaimFails(w) ==
  /\ \/ At(w, "relock") /\ Unlocked /\ ~Exists(Msg(w)) /\ UNCHANGED failures
     \/ /\ At(w, "claim") /\ Unlocked /\ ~Exists(Msg(w)) /\ failures < setup.failures
        /\ failures' = failures + 1
  /\ Become(w, "putBack")
  /\ UNCHANGED <<store, env, crashes, told>>

PutBack(w) ==
  /\ At(w, "putBack")
  /\ \/ AppendAndSave(w, "puttingBack")
     \/ PutObject(w, "idle") /\ UNCHANGED told
     \/ PutFails(w, "idle")

-----------------------------------------------------------------------------
(* Ack, nack, and the status of a message. *)

(* The bound on deliveries never stops a claim: messages are returned only *)
(* while there are delivery ids left, also for claims whose save fails.    *)
CanReturn(m) == made[m] + 2 * setup.failures < setup.deliveries

(* A delivery whose record is gone is dropped, and nothing saved. *)
Settles(w, d, status, pc) ==
  /\ At(w, "idle") /\ d \in handed \cap leases /\ Unlocked
  /\ Settle({d}, status)
  /\ IF Exists(d[1])
     THEN StartSave(w) /\ Hold(w, pc, d[1])
     ELSE UNCHANGED <<bucket, saved, save, job>>
  /\ UNCHANGED <<env, count, told>>
Ack(w, d)  == Settles(w, d, "acked", "acking")
Nack(w, d) == CanReturn(d[1]) /\ Settles(w, d, "queued", "nacking")

NackEnqueue(w) ==
  /\ At(w, "return")
  /\ \/ AppendAndSave(w, "returning")
     \/ PutObject(w, "idle") /\ UNCHANGED told
     \/ PutFails(w, "idle")

(* GetMessageRecord: what is not in memory is read and cached, unlocked. *)
Query(w, m) ==
  /\ setup.queries /\ At(w, "idle") /\ m \in accepted /\ ~Exists(m)
  /\ InBucket(RecordObject(m))
  /\ job' = [job EXCEPT ![w] = [@ EXCEPT !.pc = "fetched", !.msg = m,
                                         !.read = bucket[RecordObject(m)]]]
  /\ UNCHANGED <<store, env, count, told>>
CacheRecord(w) ==
  /\ At(w, "fetched")
  /\ Cache(Msg(w), job[w].read) /\ Become(w, "idle")
  /\ UNCHANGED <<bucket, saved, save, env, count, told>>

-----------------------------------------------------------------------------
(* The end of a save, and what its caller does then. *)

AfterSave(pc) ==
  CASE pc = "registering" -> "enqueue"
    [] pc \in {"sweeping", "requeuing"} -> "requeue"
    [] pc = "dequeuing" -> "claim"
    [] pc = "nacking" -> "return"
    [] OTHER -> "idle"

(* A failed save is not undone in memory.  The expiry of leases is saved   *)
(* with best effort; a failed dequeue may be tried again.                  *)
AfterFailure(pc) ==
  CASE pc = "enqueuing" -> {"abort"}
    [] pc = "sweeping" -> {"requeue"}
    [] pc = "requeuing" -> {"dequeue"}
    [] pc = "dequeuing" -> {"idle", "dequeue"}
    [] pc = "leasing" -> {"putBack"}
    [] OTHER -> {"idle"}

AddIf(S, x, test) == IF test THEN S \cup {x} ELSE S
Answer(w) ==
  /\ accepted' = AddIf(accepted, Msg(w), job[w].pc \in {"enqueuing", "replaying"})
  /\ handed'   = AddIf(handed, <<Msg(w), job[w].last>>, At(w, "leasing"))
  /\ acked'    = AddIf(acked, Msg(w), At(w, "acking"))
  /\ created'  = AddIf(created, job[w].entry, At(w, "creating"))
  /\ removed'  = AddIf(removed, job[w].entry, At(w, "removing"))
  /\ UNCHANGED lost

Save(w) ==
  /\ \E o \in NextCalls : SaveObject(w, o)
  /\ UNCHANGED <<job, env, count, told>>
Saved(w) ==
  /\ FinishSave(w)
  /\ Answer(w) /\ Become(w, AfterSave(job[w].pc))
  /\ UNCHANGED <<env, count>>
SaveFails_BestEffort(w) ==   \* mutant: the caller is not told
  /\ failures < setup.failures /\ FailSave(w)
  /\ failures' = failures + 1
  /\ Answer(w) /\ Become(w, AfterSave(job[w].pc))
  /\ UNCHANGED <<env, crashes>>
SaveFails(w) ==
  /\ failures < setup.failures /\ FailSave(w)
  /\ failures' = failures + 1
  /\ \E pc \in AfterFailure(job[w].pc) : Become(w, pc)
  /\ UNCHANGED <<env, crashes, told>>

-----------------------------------------------------------------------------
LeaseElapses(d) ==
  /\ d \in leases \ due /\ CanReturn(d[1])
  /\ due' = due \cup {d}
  /\ UNCHANGED <<store, job, made, begun, published, setup, count, told>>

(* The messages that only a request holds, and those it is still saving.   *)
Carrying == {"enqueue", "dequeuing", "claim", "loaded", "relock", "putBack",
             "nacking", "return", "requeueOne"}
Storing  == {"enqueuing", "leasing", "puttingBack", "returning", "requeuing"}
Carries(w, m) == m \in job[w].batch \/ (Msg(w) = m /\ job[w].pc \in Carrying)
InHands == {m \in Msgs : \E w \in Workers :
              Carries(w, m) \/ (Msg(w) = m /\ job[w].pc \in Storing)}

Crash ==
  /\ crashes < setup.crashes
  /\ crashes' = crashes + 1
  /\ Load
  /\ lost' = lost \cup InHands
  /\ job' = [w \in Workers |-> Idle]
  /\ UNCHANGED <<env, failures, handed, accepted, acked, created, removed>>

(* What a request does once it has begun. *)
Proceed(w) ==
  \/ Register(w) \/ RegisterReplay(w) \/ PublishEnqueue(w) \/ Abort(w)
  \/ Sweep(w) \/ RequeueNext(w) \/ Requeue(w)
  \/ Dequeue(w) \/ DequeueObject(w) \/ NothingQueued(w)
  \/ Claim(w) \/ ReadRecord(w) \/ CacheLoaded(w) \/ PutBack(w)
  \/ NackEnqueue(w) \/ CacheRecord(w) \/ Save(w) \/ Saved(w)

Next ==
  \/ \E w \in setup.workers :
       \/ Proceed(w) \/ Pull(w)
       \/ DequeueFails(w) \/ ClaimFails(w) \/ SaveFails(w)
       \/ ControlCall(w)
       \/ \E m \in Msgs : Publish(w, m) \/ Query(w, m)
       \/ \E d \in handed : Ack(w, d) \/ Nack(w, d)
  \/ \E d \in Deliveries : LeaseElapses(d)
  \/ Crash

Spec == Init /\ [][Next]_vars

(* Requests run to their end, the receiver keeps pulling, time passes. *)
LiveSpec ==
  /\ Spec
  /\ \A w \in Workers : WF_vars(w \in setup.workers /\ Proceed(w))
                         /\ WF_vars(w \in setup.workers /\ Pull(w))
  /\ \A d \in Deliveries : WF_vars(LeaseElapses(d))

-----------------------------------------------------------------------------
TypeOK ==
  /\ queue \in Seq(Msgs) /\ leases \subseteq Deliveries /\ entries \subseteq Entries
  /\ record \in [Msgs -> Records \cup {Absent}]
  /\ byKey \in [Keys -> Msgs \cup {0}]
  /\ bucket \in [Objects -> Records \cup {Absent, Present}]
  /\ saved \in [Objects -> Records \cup {Absent, Present}]
  /\ due \subseteq Deliveries /\ handed \subseteq Deliveries
  /\ accepted \subseteq Msgs /\ acked \subseteq Msgs

Copies(m) ==
  Cardinality({i \in DOMAIN queue : queue[i] = m})
    + Cardinality({d \in leases : d[1] = m})
    + Cardinality({w \in Workers : Carries(w, m)})
    + IF ObjectQueue /\ InBucket(QueueObject(m)) THEN 1 ELSE 0

(* A message is at one place only, in a queue, leased, or in the hands of  *)
(* one request, also after a restart from a half-finished save.            *)
OneCopy == failures = 0 => \A m \in Msgs : Copies(m) <= 1

(* Once the receiver has its ack answered, the message is neither queued   *)
(* nor leased again, in memory or in the bucket, whatever crashes.         *)
AckedIsSettled == failures = 0 =>
  \A m \in acked :
    /\ Copies(m) = 0 /\ ~InBucket(QueueObject(m))
    /\ \A d \in Deliveries : d[1] = m => ~InBucket(LeaseObject(d))

(* What the bucket needs to hold for a restart to find the message.        *)
Recoverable(m) ==
  /\ InBucket(RecordObject(m))
  /\ InBucket(QueueObject(m)) \/ \E d \in Deliveries : d[1] = m /\ InBucket(LeaseObject(d))

(* A message that was accepted can be recovered from the bucket until it   *)
(* is acked, unless a request held it when the hub crashed or holds it     *)
(* now: only a crash between two calls of one request loses a message.     *)
LossNeedsWindow == failures = 0 =>
  \A m \in accepted :
    \/ Recoverable(m) \/ m \in InHands \cup lost
    \/ bucket[RecordObject(m)].status = "acked"

(* Between saves the bucket holds exactly what is in memory, and records   *)
(* of messages that are no longer, or never were, queued: as long as no    *)
(* call fails, and the state store keeps the queues.  (With the queues in  *)
(* objects of their own a look at a message may cache an old record.)      *)
BucketIsMemory ==
  Unlocked /\ failures = 0 /\ ~ObjectQueue => \A o \in Objects :
    \/ bucket[o] = Desired(queue, record, leases, entries)[o]
    \/ o[1] = 2 /\ record[o[2]] = Absent

(* The record of a message whose ack was answered stays in the bucket,     *)
(* acked, though a restart does not read it and no memory holds it then;   *)
(* but for failures, and for the old records that a look may cache.        *)
HistoryIsKept == failures = 0 /\ ~(ObjectQueue /\ setup.queries) =>
  \A m \in acked : bucket[RecordObject(m)].status = "acked"

(* A delivery in the hands of the receiver is known again after a restart, *)
(* whatever calls of the bucket failed since.                              *)
HandedIsDurable == \A d \in handed \cap leases : InBucket(LeaseObject(d))

(* What a caller was told was created is found after every restart until   *)
(* its removal begins, even if saves before or after it failed.            *)
CreatedIsDurable ==
  \A e \in created : InBucket(EntryObject(e)) \/ e \notin entries

(* What the hub has answered for, a delivery or an entry, a restart finds. *)
AnswersAreDurable == HandedIsDurable /\ CreatedIsDurable

(* What a caller was told was removed does not come back. *)
RemovedStaysRemoved == \A e \in removed : e \notin entries /\ ~InBucket(EntryObject(e))

(* One client_msg_id stands for one message, but for those a crash took. *)
OneMessagePerKey ==
  \A m, n \in accepted \ lost : KeyOf(m) = KeyOf(n) /\ KeyOf(m) # NoKey => m = n

(* An accepted message is or was delivered, or is where a pull finds it. *)
AcceptedIsQueued ==
  \A m \in accepted : Copies(m) > 0 \/ m \in InHands \cup lost \cup acked

(* An acked message stays acked. *)
AckedStaysAcked ==
  \A m \in acked : record[m] # Absent => record[m].status = "acked"

(* An accepted message reaches the receiver, unless a crash took it. *)
AcceptedIsDelivered ==
  \A m \in Msgs : m \in accepted ~> (failures > 0 \/ m \in lost \/ \E d \in handed : d[1] = m)
=============================================================================
