------------------------- MODULE DurableStateProofs -------------------------
(***************************************************************************)
(* What survives crashes, proved for any number of messages, requests,     *)
(* entries and restarts.  Four inductive invariants carry it.  Two follow  *)
(* an object through saves that fail at any point: CreationInv that of an  *)
(* entry, LeasingInv that of a lease.  CustodyInv is about a hub whose     *)
(* bucket does not fail: it says where a message can be, in memory, in the *)
(* bucket, in the state last saved and in the hands of requests, and how   *)
(* far a save in progress has brought the bucket.  WindowInv says what the *)
(* bucket has of a message that somebody still has to deliver.             *)
(***************************************************************************)
EXTENDS DurableState, FiniteSetTheorems, TLAPS

-----------------------------------------------------------------------------
(* Types. *)

(* What a request waits for while its save is in progress.                 *)
Saving == {"creating", "removing", "registering", "replaying", "enqueuing", "aborting",
           "sweeping", "requeuing", "dequeuing", "leasing", "puttingBack", "acking",
           "nacking", "returning"}
(* Where a request is about a message.                                     *)
WithMessage == {"register", "registering", "replaying", "enqueue", "enqueuing", "abort",
                "aborting", "requeueOne", "requeuing", "dequeuing", "claim", "loaded",
                "relock", "leasing", "putBack", "puttingBack", "acking", "nacking",
                "return", "returning", "fetched"}
Steps == Saving \cup WithMessage \cup {"idle", "sweep", "requeue", "dequeue"}

(* What the objects of a bucket, or those of a save, may hold.             *)
Contents == {f \in [Objects -> Records \cup {Absent, Present}] :
               \A m \in Msgs : f[RecordObject(m)] # Present}

Jobs == [pc : Steps, msg : Msgs \cup {0}, last : 0 .. MaxDeliveries, batch : SUBSET Msgs,
         read : Records \cup {Absent}, entry : Entries \cup {"none"}]

MemoryOK ==
  /\ queue \in Seq(Msgs) /\ leases \subseteq Deliveries /\ entries \subseteq Entries
  /\ record \in [Msgs -> Records \cup {Absent}]
  /\ byKey \in [Keys -> Msgs \cup {0}]

SavesOK ==
  /\ bucket \in Contents /\ saved \in Contents
  /\ save \in [by : Workers \cup {"nobody"}, desired : Contents,
               puts : SUBSET Objects, deletes : SUBSET Objects]

(* A request is about a message, an entry or a delivery where it uses one, *)
(* and holds persistMu exactly while its save is in progress.              *)
Fits(j) ==
  /\ j.pc \in WithMessage => j.msg \in Msgs
  /\ j.pc \in {"creating", "removing"} => j.entry \in Entries
  /\ j.pc = "leasing" => j.last # 0

JobsOK ==
  /\ job \in [Workers -> Jobs]
  /\ \A w \in Workers : Fits(job[w]) /\ (save.by = w <=> job[w].pc \in Saving)

RestOK ==
  /\ setup \in Setups
  /\ due \subseteq Deliveries /\ made \in [Msgs -> 0 .. MaxDeliveries]
  /\ begun \subseteq Entries /\ published \in Nat /\ crashes \in Nat /\ failures \in Nat
  /\ handed \subseteq Deliveries /\ accepted \subseteq Msgs /\ acked \subseteq Msgs
  /\ created \subseteq Entries /\ removed \subseteq Entries /\ lost \subseteq Msgs

TypeInv == MemoryOK /\ SavesOK /\ JobsOK /\ RestOK

-----------------------------------------------------------------------------
(* Creation. *)

(* The object of an entry that is there is in the bucket, or about to be   *)
(* put there by the save in progress, and no save deletes it; ids are not  *)
(* used again.                                                             *)
CreatingFit == \A w \in Workers : At(w, "creating") => job[w].entry \in begun

EntryFit(e) ==
  /\ InBucket(EntryObject(e)) \/ saved[EntryObject(e)] # Absent => e \in begun
  /\ e \in entries /\ saved[EntryObject(e)] # Absent => InBucket(EntryObject(e))
  /\ ~Unlocked =>
       /\ save.desired[EntryObject(e)] = IsIn(entries, e)
       /\ EntryObject(e) \in save.deletes => e \notin entries
       /\ e \in entries => EntryObject(e) \in save.puts \/ InBucket(EntryObject(e))
  /\ e \in created /\ e \in entries => InBucket(EntryObject(e))

CreationInv == /\ entries \subseteq begun /\ created \subseteq begun
               /\ CreatingFit /\ \A e \in Entries : EntryFit(e)

(* The same of the object of a lease, once its delivery id is made.        *)
Made(d) == d[2] <= made[d[1]]
LeasingFit == \A w \in Workers : At(w, "leasing") => Made(<<Msg(w), job[w].last>>)

LeaseFit(d) ==
  /\ InBucket(LeaseObject(d)) \/ saved[LeaseObject(d)] # Absent \/ d \in leases \cup handed
       => Made(d)
  /\ d \in leases /\ saved[LeaseObject(d)] # Absent => InBucket(LeaseObject(d))
  /\ ~Unlocked =>
       /\ save.desired[LeaseObject(d)] = IsIn(leases, d)
       /\ LeaseObject(d) \in save.deletes => d \notin leases
       /\ d \in leases => LeaseObject(d) \in save.puts \/ InBucket(LeaseObject(d))
  /\ d \in handed \cap leases => InBucket(LeaseObject(d))

LeasingInv == LeasingFit /\ \A d \in Deliveries : LeaseFit(d)

-----------------------------------------------------------------------------
(* Custody. *)

(* The objects that place a message: it is leased, or it is queued.        *)
Custody == {LeaseObject(d) : d \in Deliveries} \cup {QueueObject(m) : m \in Msgs}
Of(o) == IF o[1] = 1 THEN o[2][1] ELSE o[2]

(* Whether the state store keeps the object, rather than s3QueueStore.     *)
Stored(o)   == o[1] = 1 \/ ~ObjectQueue
InMemory(o) == IF o[1] = 1 THEN o[2] \in leases ELSE ~ObjectQueue /\ o[2] \in ToSet(queue)
(* Where a pull or an ack finds a message, and where any trace of it is.   *)
Found(o)  == InMemory(o) \/ (~Stored(o) /\ InBucket(o))
Traced(o) == InMemory(o) \/ saved[o] # Absent \/ InBucket(o)

Owns(w, m) == Carries(w, m)
                \/ (Msg(w) = m /\ job[w].pc \in {"register", "registering", "acking"})
(* The request is saving that it took the message from its place.          *)
Taking(w)  == job[w].pc \in {"dequeuing", "nacking", "acking", "sweeping"}
Around(m)  == \/ \E o \in Custody : Of(o) = m /\ Traced(o)
              \/ \E w \in Workers : Owns(w, m)

(* One place, one owner, and never both.                                   *)
QueueFits == /\ \A i, j \in DOMAIN queue : queue[i] = queue[j] => i = j
             /\ ObjectQueue => queue = <<>>
OneTrace  == \A o, p \in Custody : Of(o) = Of(p) /\ Traced(o) /\ Traced(p) => o = p
OneOwner  == \A v, w \in Workers, m \in Msgs : Owns(v, m) /\ Owns(w, m) => v = w
OwnedIsTaken(w) == \A o \in Custody : Owns(w, Of(o)) =>
                     ~Found(o) /\ (Taking(w) \/ ~Traced(o))
BatchFits(j) ==
  /\ j.batch # {} => j.pc \in {"sweeping", "requeue", "requeueOne", "requeuing"}
  /\ j.pc \in {"requeueOne", "requeuing"} => j.msg \notin j.batch
OnePlace == /\ QueueFits /\ OneTrace /\ OneOwner
            /\ \A w \in Workers : OwnedIsTaken(w) /\ BatchFits(job[w])

(* The bucket and the state last saved are memory, but for what the save   *)
(* in progress has still to do.                                            *)
Synced == \A o \in Custody :
  IF ~Stored(o)
  THEN /\ ~InMemory(o) /\ saved[o] = Absent /\ o \notin save.puts \cup save.deletes
       /\ save.desired[o] = Absent
  ELSE IF Unlocked
  THEN (saved[o] # Absent <=> InMemory(o)) /\ (InBucket(o) <=> InMemory(o))
  ELSE /\ save.desired[o] # Absent <=> InMemory(o)
       /\ InBucket(o) <=> IF o \in save.puts \cup save.deletes THEN saved[o] # Absent
                                                               ELSE InMemory(o)

(* A message is around only once it is published, and not once its ack was *)
(* answered.                                                               *)
InTime ==
  /\ \A m \in Msgs : Around(m) => m <= published
  /\ \A m \in acked : m <= published /\ ~Around(m)

(* The record of a message that is around is in the bucket, and that of a  *)
(* leased message in memory; no save deletes a record.                     *)
LeasedExist == \A d \in leases : Exists(d[1])
RecordFit(m) ==
  /\ saved[RecordObject(m)] # Absent => Exists(m) /\ InBucket(RecordObject(m))
  /\ ~Unlocked /\ save.desired[RecordObject(m)] # Absent =>
       Exists(m) /\ (RecordObject(m) \in save.puts \/ InBucket(RecordObject(m)))
  /\ RecordObject(m) \notin save.deletes
  /\ RecordObject(m) \in save.puts => save.desired[RecordObject(m)] # Absent
PlacedHaveRecords == \A o \in Custody : Traced(o) => InBucket(RecordObject(Of(o)))
CarriedHaveRecords(w) ==
  /\ \A m \in Msgs : Carries(w, m) => InBucket(RecordObject(m))
  /\ At(w, "registering") => save.desired[RecordObject(Msg(w))] # Absent
  /\ job[w].pc \in {"loaded", "fetched"} => job[w].read # Absent
  /\ job[w].pc \notin {"abort", "aborting"}
RecordsKept ==
  /\ LeasedExist /\ PlacedHaveRecords
  /\ \A m \in Msgs : RecordFit(m)
  /\ \A w \in Workers : CarriedHaveRecords(w)

InCustody  == OnePlace /\ Synced /\ InTime /\ RecordsKept
CustodyInv == failures = 0 => InCustody

-----------------------------------------------------------------------------
(* What a crash may take.                                                  *)

(* Queries of messages read records that are as new as those in memory:    *)
(* a message in s3QueueStore may be asked for while its record changes.    *)
QueriesAreFresh == ~(setup.objectQueue /\ setup.queries)

(* The bucket has the records last saved, and those that the save in       *)
(* progress has put.                                                       *)
PutsAreWanted == /\ Unlocked => save.puts = {}
                 /\ \A o \in save.puts : save.desired[o] # Absent
RecordWritten(m) ==
  LET o == RecordObject(m) IN
  IF Unlocked THEN saved[o] # Absent => bucket[o] = saved[o]
  ELSE save.desired[o] # Absent => o \in save.puts \/ bucket[o] = save.desired[o]
Written == PutsAreWanted /\ \A m \in Msgs : RecordWritten(m)

(* What is in memory only, is so for the request that is saving it.        *)
StoredSoon(o) == InMemory(o) =>
  InBucket(o) \/ \E w \in Workers : job[w].pc \in Storing /\ Msg(w) = Of(o)

(* A message the hub has still to deliver: a pull or an ack finds it, or a *)
(* request has it.                                                         *)
Having == Carrying \cup {"registering"}
Has(w, m) == m \in job[w].batch \/ (Msg(w) = m /\ job[w].pc \in Having)
Kept(m) == \/ \E o \in Custody : Of(o) = m /\ Found(o)
           \/ \E w \in Workers : Has(w, m)

(* A message that is acked, in memory if it is there and in the bucket, or *)
(* about to be put there before its lease is deleted.                      *)
Over(m) ==
  LET o == RecordObject(m) IN
  /\ Exists(m) => record[m].status = "acked"
  /\ \A w \in Workers : At(w, "fetched") /\ Msg(w) = m => job[w].read.status = "acked"
  /\ ~Unlocked /\ save.desired[o] # Absent => save.desired[o].status = "acked"
  /\ \/ bucket[o].status = "acked"
     \/ o \in save.puts /\ \E p \in Custody : Of(p) = m /\ InBucket(p)

(* No message that is known is forgotten, unless a crash took it, and none *)
(* whose ack is being saved or was answered.                               *)
Known(m) == Exists(m) \/ m \in accepted
Ended(m) == m \in acked \/ \E w \in Workers : At(w, "acking") /\ Msg(w) = m
Accounted(m) == (Known(m) /\ m \notin lost) \/ Ended(m) => Kept(m) \/ Over(m)

PublishFits(w) ==
  /\ At(w, "register") => ~Exists(Msg(w))
  /\ job[w].pc \in {"register", "registering"} => Msg(w) \notin accepted
  /\ job[w].pc \in {"registering", "replaying", "enqueue", "enqueuing"} => Exists(Msg(w))
QueryFits(w) == At(w, "fetched") => Msg(w) \in accepted /\ ~Kept(Msg(w))
KeptExist == ~ObjectQueue => \A m \in Msgs : Kept(m) => Exists(m)

Traceable == /\ \A m \in Msgs : Known(m) => m <= published
             /\ \A w \in Workers : PublishFits(w) /\ QueryFits(w)
             /\ KeptExist /\ \A m \in Msgs : Accounted(m)
Secured   == Written /\ (\A o \in Custody : StoredSoon(o)) /\ Traceable
WindowInv == failures = 0 /\ QueriesAreFresh => Secured

-----------------------------------------------------------------------------
(* Values, objects and what memory asks of the bucket. *)

LEMMA ValuesDiffer ==
  Absent # Present /\ Absent \notin Records /\ Present \notin Records
<1>1. Absent.status = "absent" /\ Present.status = "present"
  BY DEF Absent, Present, Value
<1>2. \A r \in Records : r.status \in Statuses
  BY DEF Records
<1>3. "absent" # "present" /\ "absent" \notin Statuses /\ "present" \notin Statuses
  BY DEF Statuses
<1> QED BY <1>1, <1>2, <1>3

LEMMA ObjectNames ==
  /\ \A e \in Entries : EntryObject(e) \in Objects /\ EntryObject(e)[1] = 0
                                                   /\ EntryObject(e)[2] = e
  /\ \A d \in Deliveries : LeaseObject(d) \in Objects /\ LeaseObject(d)[1] = 1
                                                      /\ LeaseObject(d)[2] = d
  /\ \A m \in Msgs : RecordObject(m) \in Objects /\ RecordObject(m)[1] = 2
                                                 /\ RecordObject(m)[2] = m
  /\ \A m \in Msgs : QueueObject(m) \in Objects /\ QueueObject(m)[1] = 3
                                                /\ QueueObject(m)[2] = m
BY DEF Objects, EntryObject, LeaseObject, RecordObject, QueueObject

(* The objects D are those of memory with queue q, records r and so on.    *)
Mirrors(D, q, r, l, e) ==
  /\ D \in Contents
  /\ \A x \in Entries : D[EntryObject(x)] = IsIn(e, x)
  /\ \A d \in Deliveries : D[LeaseObject(d)] = IsIn(l, d)
  /\ \A m \in Msgs : D[RecordObject(m)] = r[m]
  /\ \A m \in Msgs : D[QueueObject(m)] = IF ObjectQueue THEN Absent ELSE IsIn(ToSet(q), m)

LEMMA DesiredIs ==
  ASSUME NEW q, NEW r \in [Msgs -> Records \cup {Absent}], NEW l, NEW e
  PROVE  Mirrors(Desired(q, r, l, e), q, r, l, e)
<1> DEFINE D == Desired(q, r, l, e)
           V(o) == CASE o[1] = 0 -> IsIn(e, o[2])
                     [] o[1] = 1 -> IsIn(l, o[2])
                     [] o[1] = 2 -> r[o[2]]
                     [] o[1] = 3 -> IF ObjectQueue THEN Absent ELSE IsIn(ToSet(q), o[2])
<1>0. D = [o \in Objects |-> V(o)]
  BY DEF Desired
<1>1. \A o :
        /\ o[1] = 0 => V(o) = IsIn(e, o[2])
        /\ o[1] = 1 => V(o) = IsIn(l, o[2])
        /\ o[1] = 2 => V(o) = r[o[2]]
        /\ o[1] = 3 => V(o) = IF ObjectQueue THEN Absent ELSE IsIn(ToSet(q), o[2])
  OBVIOUS
<1> HIDE DEF D, V
<1>2. D = [o \in Objects |-> D[o]] /\ \A o \in Objects : D[o] = V(o)
  BY <1>0
<1>3. /\ \A x \in Entries : D[EntryObject(x)] = IsIn(e, x)
      /\ \A d \in Deliveries : D[LeaseObject(d)] = IsIn(l, d)
      /\ \A m \in Msgs : D[RecordObject(m)] = r[m]
      /\ \A m \in Msgs : D[QueueObject(m)] = IF ObjectQueue THEN Absent ELSE IsIn(ToSet(q), m)
  <2>1. ASSUME NEW x \in Entries PROVE D[EntryObject(x)] = IsIn(e, x)
    BY <1>1, <1>2, ObjectNames
  <2>2. ASSUME NEW d \in Deliveries PROVE D[LeaseObject(d)] = IsIn(l, d)
    BY <1>1, <1>2, ObjectNames
  <2>3. ASSUME NEW m \in Msgs PROVE D[RecordObject(m)] = r[m]
    BY <1>1, <1>2, ObjectNames
  <2>4. ASSUME NEW m \in Msgs
        PROVE  D[QueueObject(m)] = IF ObjectQueue THEN Absent ELSE IsIn(ToSet(q), m)
    BY <1>1, <1>2, ObjectNames
  <2> QED BY <2>1, <2>2, <2>3, <2>4
<1>4. \A S, x : IsIn(S, x) \in {Absent, Present}
  BY DEF IsIn
<1>5. ASSUME NEW o \in Objects
      PROVE  D[o] \in Records \cup {Absent, Present}
  <2>1. CASE \E x \in Entries : o = EntryObject(x)
    BY <2>1, <1>3, <1>4
  <2>2. CASE \E d \in Deliveries : o = LeaseObject(d)
    BY <2>2, <1>3, <1>4
  <2>3. CASE \E m \in Msgs : o = RecordObject(m)
    BY <2>3, <1>3
  <2>4. CASE \E m \in Msgs : o = QueueObject(m)
    BY <2>4, <1>3, <1>4
  <2> QED BY <2>1, <2>2, <2>3, <2>4 DEF Objects
<1>6. \A m \in Msgs : D[RecordObject(m)] # Present
  BY <1>3, ValuesDiffer
<1>7. D \in Contents
  BY <1>2, <1>5, <1>6 DEF Contents
<1> QED BY <1>3, <1>7 DEF D, Mirrors

(* What the lists of a save say, whatever is desired.                      *)
LEMMA ListsAre ==
  ASSUME NEW D
  PROVE  /\ Differs(D) \subseteq Objects /\ Gone(D) \subseteq Objects
         /\ \A o \in Objects :
              /\ o \in Differs(D) <=> D[o] # Absent /\ saved[o] # D[o]
              /\ o \in Gone(D) <=> D[o] = Absent /\ saved[o] # Absent
BY DEF Differs, Gone

LEMMA ToSetIs ==
  ASSUME NEW q
  PROVE  \A x : x \in ToSet(q) <=> \E i \in DOMAIN q : q[i] = x
BY DEF ToSet

-----------------------------------------------------------------------------
(* What an action does to the requests. *)

OthersWait(w) == \A v \in Workers : v # w => job'[v] = job[v]

LEMMA IdleFits == Idle \in Jobs /\ Fits(Idle)
<1>1. 0 \in 0 .. MaxDeliveries
  BY BoundAssumption
<1>2. "idle" \notin WithMessage \cup Saving
  BY DEF WithMessage, Saving
<1> QED BY <1>1, <1>2 DEF Idle, Jobs, Steps, Fits

LEMMA JobIs ==
  ASSUME job \in [Workers -> Jobs], NEW w \in Workers, NEW j \in Jobs,
         job' = [job EXCEPT ![w] = j]
  PROVE  job' \in [Workers -> Jobs] /\ OthersWait(w) /\ job'[w] = j
BY DEF OthersWait

LEMMA BecomeIs ==
  ASSUME job \in [Workers -> Jobs], NEW w \in Workers, NEW pc \in Steps, Become(w, pc)
  PROVE  /\ job' \in [Workers -> Jobs] /\ OthersWait(w) /\ job'[w].pc = pc
         /\ pc = "idle" => job'[w] = Idle
         /\ pc # "idle" => /\ job'[w].msg = job[w].msg /\ job'[w].last = job[w].last
                           /\ job'[w].batch = job[w].batch /\ job'[w].read = job[w].read
                           /\ job'[w].entry = job[w].entry
<1>1. CASE pc = "idle"
  <2>1. job' = [job EXCEPT ![w] = Idle]
    BY <1>1 DEF Become
  <2>2. Idle.pc = "idle"
    BY DEF Idle
  <2> QED BY <1>1, <2>1, <2>2, IdleFits, JobIs
<1>2. CASE pc # "idle"
  <2> DEFINE j == [job[w] EXCEPT !.pc = pc]
  <2>1. job' = [job EXCEPT ![w] = j]
    BY <1>2 DEF Become
  <2>2. /\ j \in Jobs /\ j.pc = pc /\ j.msg = job[w].msg /\ j.last = job[w].last
        /\ j.batch = job[w].batch /\ j.read = job[w].read /\ j.entry = job[w].entry
    BY DEF Jobs
  <2> HIDE DEF j
  <2> QED BY <1>2, <2>1, <2>2, JobIs
<1> QED BY <1>1, <1>2

LEMMA HoldIs ==
  ASSUME job \in [Workers -> Jobs], NEW w \in Workers, NEW pc \in Steps, NEW m \in Msgs,
         Hold(w, pc, m)
  PROVE  /\ job' \in [Workers -> Jobs] /\ OthersWait(w)
         /\ job'[w].pc = pc /\ job'[w].msg = m /\ job'[w].last = job[w].last
         /\ job'[w].batch = job[w].batch /\ job'[w].read = job[w].read
         /\ job'[w].entry = job[w].entry
<1> DEFINE j == [job[w] EXCEPT !.pc = pc, !.msg = m]
<1>1. job' = [job EXCEPT ![w] = j]
  BY DEF Hold
<1>2. /\ j \in Jobs /\ j.pc = pc /\ j.msg = m /\ j.last = job[w].last
      /\ j.batch = job[w].batch /\ j.read = job[w].read /\ j.entry = job[w].entry
  BY DEF Jobs
<1> HIDE DEF j
<1> QED BY <1>1, <1>2, JobIs

(* The request waits for no save, begins one, or is done with its own.     *)
LEMMA JobsStay ==
  ASSUME JobsOK, NEW w \in Workers, job' \in [Workers -> Jobs], OthersWait(w),
         Fits(job'[w]),
         \/ save'.by = save.by /\ {job[w].pc, job'[w].pc} \cap Saving = {}
         \/ Unlocked /\ save'.by = w /\ job'[w].pc \in Saving
         \/ save.by = w /\ save'.by = "nobody" /\ job'[w].pc \notin Saving
  PROVE  JobsOK'
<1> SUFFICES ASSUME NEW v \in Workers
             PROVE  Fits(job'[v]) /\ (save'.by = v <=> job'[v].pc \in Saving)
  BY DEF JobsOK, Fits
<1>1. v # "nobody" /\ w # "nobody"
  BY WorkersAssumption
<1>2. CASE v = w
  BY <1>1, <1>2 DEF JobsOK, Unlocked
<1>3. CASE v # w
  <2>1. Fits(job'[v]) /\ job'[v] = job[v]
    BY <1>3 DEF JobsOK, OthersWait
  <2> QED BY <1>1, <1>3, <2>1 DEF JobsOK, Unlocked
<1> QED BY <1>2, <1>3

LEMMA NobodySaves ==
  ASSUME JobsOK, Unlocked
  PROVE  \A w \in Workers : job[w].pc \notin Saving
BY WorkersAssumption DEF JobsOK, Unlocked

(* No two requests save at a time.                                         *)
LEMMA OneSaves ==
  ASSUME JobsOK, NEW w \in Workers, save.by = w
  PROVE  job[w].pc \in Saving /\ \A v \in Workers : v # w => job[v].pc \notin Saving
BY DEF JobsOK

-----------------------------------------------------------------------------
(* What a save does, from its start to its end. *)

Wanted == Desired(queue, record, leases, entries)

LEMMA WantedNext ==
  ASSUME record' \in [Msgs -> Records \cup {Absent}], setup' = setup
  PROVE  /\ Wanted' \in Contents
         /\ \A e \in Entries : Wanted'[EntryObject(e)] = IsIn(entries', e)
         /\ \A d \in Deliveries : Wanted'[LeaseObject(d)] = IsIn(leases', d)
         /\ \A m \in Msgs : Wanted'[RecordObject(m)] = record'[m]
         /\ \A m \in Msgs : Wanted'[QueueObject(m)]
                               = IF ObjectQueue THEN Absent ELSE IsIn(ToSet(queue'), m)
<1>1. Wanted' = Desired(queue', record', leases', entries')
  BY DEF Wanted, Desired, ObjectQueue
<1>2. Mirrors(Desired(queue', record', leases', entries'), queue', record', leases', entries')
  BY DesiredIs
<1> HIDE DEF Wanted
<1>3. Mirrors(Wanted', queue', record', leases', entries')
  BY <1>1, <1>2
<1> QED BY <1>3 DEF Mirrors

LEMMA ContentsIs ==
  ASSUME NEW f
  PROVE  f \in Contents <=> /\ f \in [Objects -> Records \cup {Absent, Present}]
                            /\ \A m \in Msgs : f[RecordObject(m)] # Present
BY DEF Contents

LEMMA StartIs ==
  ASSUME SavesOK, NEW w \in Workers, record' \in [Msgs -> Records \cup {Absent}],
         setup' = setup, StartSave(w)
  PROVE  /\ SavesOK' /\ save'.by = w /\ save'.desired = Wanted'
         /\ save'.puts = Differs(Wanted') /\ save'.deletes = Gone(Wanted')
         /\ UNCHANGED <<bucket, saved>>
<1> DEFINE D == Desired(queue', record', leases', entries')
<1>1. D = Wanted'
  BY DEF Wanted, Desired, ObjectQueue
<1>4. D \in Contents
  BY <1>1, WantedNext
<1> HIDE DEF D
<1>2. /\ save' = [by |-> w, desired |-> D, puts |-> Differs(D), deletes |-> Gone(D)]
      /\ UNCHANGED <<bucket, saved>>
  BY DEF StartSave, D
<1>3. Differs(D) \subseteq Objects /\ Gone(D) \subseteq Objects
  BY ListsAre
<1> QED BY <1>1, <1>2, <1>3, <1>4 DEF SavesOK

LEMMA NoSaveIs ==
  /\ NoSave.by = "nobody" /\ NoSave.desired \in Contents
  /\ NoSave.puts = {} /\ NoSave.deletes = {}
<1>1. [o \in Objects |-> Absent] \in Contents
  <2>1. \A m \in Msgs : RecordObject(m) \in Objects
    BY ObjectNames
  <2> QED BY <2>1, ValuesDiffer, ContentsIs
<1> QED BY <1>1 DEF NoSave

LEMMA NextCallsAre ==
  ASSUME SavesOK, NEW o \in NextCalls
  PROVE  /\ o \in Objects /\ (o \in save.puts \/ (save.puts = {} /\ o \in save.deletes))
BY DEF NextCalls, First, SavesOK

LEMMA PutIs ==
  ASSUME NEW f \in Contents, NEW o \in Objects, NEW D \in Contents
  PROVE  /\ [f EXCEPT ![o] = D[o]] \in Contents
         /\ [f EXCEPT ![o] = D[o]][o] = D[o]
         /\ \A p \in Objects : p # o => [f EXCEPT ![o] = D[o]][p] = f[p]
<1> DEFINE g == [f EXCEPT ![o] = D[o]]
<1>1. /\ g \in [Objects -> Records \cup {Absent, Present}] /\ g[o] = D[o]
      /\ \A p \in Objects : p # o => g[p] = f[p]
  BY ContentsIs
<1>2. \A m \in Msgs : g[RecordObject(m)] # Present
  <2> SUFFICES ASSUME NEW m \in Msgs
               PROVE  g[RecordObject(m)] # Present
    OBVIOUS
  <2> HIDE DEF g
  <2>1. RecordObject(m) \in Objects
    BY ObjectNames
  <2> QED BY <1>1, <2>1, ContentsIs
<1> HIDE DEF g
<1>3. g \in Contents
  BY <1>1, <1>2, ContentsIs
<1> QED BY <1>1, <1>3 DEF g

LEMMA SaveObjectIs ==
  ASSUME SavesOK, NEW w \in Workers, NEW o \in NextCalls, SaveObject(w, o)
  PROVE  /\ SavesOK' /\ save.by = w /\ save'.by = w /\ save'.desired = save.desired
         /\ save'.puts = save.puts \ {o} /\ save'.deletes = save.deletes \ {o}
         /\ bucket'[o] = save.desired[o]
         /\ \A p \in Objects : p # o => bucket'[p] = bucket[p]
         /\ UNCHANGED <<memory, saved>>
<1>1. o \in Objects
  BY NextCallsAre
<1>2. /\ save' = [save EXCEPT !.puts = @ \ {o}, !.deletes = @ \ {o}]
      /\ save.by = w /\ bucket' = [bucket EXCEPT ![o] = save.desired[o]]
      /\ UNCHANGED <<memory, saved>>
  BY DEF SaveObject, Without
<1>3. /\ save'.by = w /\ save'.desired = save.desired
      /\ save'.puts = save.puts \ {o} /\ save'.deletes = save.deletes \ {o}
      /\ save' \in [by : Workers \cup {"nobody"}, desired : Contents,
                    puts : SUBSET Objects, deletes : SUBSET Objects]
  BY <1>2 DEF SavesOK
<1>4. save.desired \in Contents /\ bucket \in Contents
  BY DEF SavesOK
<1>5. /\ bucket' \in Contents /\ bucket'[o] = save.desired[o]
      /\ \A p \in Objects : p # o => bucket'[p] = bucket[p]
  <2>1. bucket' = [bucket EXCEPT ![o] = save.desired[o]]
    BY <1>2
  <2>2. [bucket EXCEPT ![o] = save.desired[o]] \in Contents
    BY <1>1, <1>4, PutIs
  <2>3. /\ [bucket EXCEPT ![o] = save.desired[o]][o] = save.desired[o]
        /\ \A p \in Objects : p # o => [bucket EXCEPT ![o] = save.desired[o]][p] = bucket[p]
    BY <1>1, <1>4, ContentsIs
  <2> QED BY <2>1, <2>2, <2>3
<1>6. SavesOK'
  BY <1>2, <1>3, <1>5 DEF SavesOK
<1> QED BY <1>2, <1>3, <1>5, <1>6

LEMMA FinishIs ==
  ASSUME SavesOK, NEW w \in Workers, FinishSave(w)
  PROVE  /\ SavesOK' /\ save.by = w /\ save'.by = "nobody" /\ saved' = save.desired
         /\ save.puts = {} /\ save.deletes = {} /\ save'.puts = {} /\ save'.deletes = {}
         /\ UNCHANGED <<memory, bucket>>
BY NoSaveIs DEF FinishSave, SavesOK, NoSave

LEMMA FailIs ==
  ASSUME SavesOK, NEW w \in Workers, FailSave(w)
  PROVE  /\ SavesOK' /\ save.by = w /\ save'.by = "nobody"
         /\ \E o \in NextCalls :
              /\ bucket'[o] \in {bucket[o], save.desired[o]}
              /\ \A p \in Objects : p # o => bucket'[p] = bucket[p]
         /\ UNCHANGED <<memory, saved>>
<1>1. PICK o \in NextCalls : bucket' \in {bucket, [bucket EXCEPT ![o] = save.desired[o]]}
  BY DEF FailSave
<1>2. o \in Objects /\ save.desired \in Contents /\ bucket \in Contents
  BY NextCallsAre DEF SavesOK
<1>3. save.by = w /\ save' = NoSave /\ UNCHANGED <<memory, saved>>
  BY DEF FailSave
<1>4. SavesOK'
  BY <1>1, <1>2, <1>3, PutIs, NoSaveIs DEF SavesOK, NoSave
<1>5. /\ bucket'[o] \in {bucket[o], save.desired[o]}
      /\ \A p \in Objects : p # o => bucket'[p] = bucket[p]
  BY <1>1, <1>2, PutIs
<1> QED BY <1>3, <1>4, <1>5, NoSaveIs

LEMMA InOrderIs ==
  ASSUME NEW S \in SUBSET Msgs, NEW q \in InOrder(S)
  PROVE  /\ q \in Seq(Msgs) /\ ToSet(q) = S
         /\ \A i, j \in DOMAIN q : q[i] = q[j] => i = j
<1>1. Cardinality(S) \in Nat
  BY MsgsAssumption, FS_Subset, FS_CardinalityType
<1>2. /\ q \in [1 .. Cardinality(S) -> S] /\ ToSet(q) = S
      /\ \A i, j \in DOMAIN q : i < j => q[i] < q[j]
  BY DEF InOrder
<1>3. q \in Seq(Msgs)
  BY <1>1, <1>2
<1>4. ASSUME NEW i \in DOMAIN q, NEW j \in DOMAIN q, q[i] = q[j]
      PROVE  i = j
  <2>1. i \in Nat /\ j \in Nat
    BY <1>1, <1>2
  <2>3. q[i] \in Nat /\ q[j] \in Nat
    BY <1>2, MsgsAssumption
  <2>2. ~(i < j) /\ ~(j < i)
    BY <1>2, <1>4, <2>1, <2>3
  <2> QED BY <2>1, <2>2
<1> QED BY <1>2, <1>3, <1>4

LEMMA LoadIs ==
  ASSUME SavesOK, setup' = setup, Load
  PROVE  /\ MemoryOK' /\ SavesOK' /\ Unlocked' /\ saved' = Wanted'
         /\ ToSet(queue') = LoadedMessages /\ leases' = LoadedLeases
         /\ record' = LoadedRecord /\ entries' = LoadedEntries
         /\ \A i, j \in DOMAIN queue' : queue'[i] = queue'[j] => i = j
         /\ save'.puts = {} /\ save'.deletes = {} /\ UNCHANGED bucket
<1>1. /\ queue' \in InOrder(LoadedMessages) /\ leases' = LoadedLeases
      /\ record' = LoadedRecord /\ entries' = LoadedEntries
      /\ byKey' \in [Keys -> Msgs \cup {0}]
      /\ saved' = Desired(queue', record', leases', entries')
      /\ save' = NoSave /\ UNCHANGED bucket
  BY DEF Load
<1>2. LoadedMessages \in SUBSET Msgs
  BY DEF LoadedMessages
<1>3. /\ queue' \in Seq(Msgs) /\ ToSet(queue') = LoadedMessages
      /\ \A i, j \in DOMAIN queue' : queue'[i] = queue'[j] => i = j
  BY <1>1, <1>2, InOrderIs
<1>4. record' \in [Msgs -> Records \cup {Absent}]
  <2>1. \A m \in Msgs : bucket[RecordObject(m)] \in Records \cup {Absent}
    BY ObjectNames, ContentsIs DEF SavesOK
  <2> QED BY <1>1, <2>1 DEF LoadedRecord
<1>5. MemoryOK'
  BY <1>1, <1>3, <1>4 DEF MemoryOK, LoadedLeases, LoadedEntries
<1>6. saved' = Wanted'
  BY <1>1 DEF Wanted, Desired, ObjectQueue
<1>7. saved' \in Contents
  BY <1>4, <1>6, WantedNext
<1>8. SavesOK' /\ Unlocked' /\ save'.puts = {} /\ save'.deletes = {}
  BY <1>1, <1>7, NoSaveIs DEF SavesOK, Unlocked, NoSave
<1> QED BY <1>1, <1>3, <1>5, <1>6, <1>8

-----------------------------------------------------------------------------
(* Type correctness, memory first. *)

LEMMA NewRecordOK ==
  ASSUME MemoryOK, NEW m \in Msgs, NEW r \in Records \cup {Absent},
         record' = [record EXCEPT ![m] = r]
  PROVE  record' \in [Msgs -> Records \cup {Absent}]
BY DEF MemoryOK

LEMMA IndexOK ==
  ASSUME MemoryOK, NEW m, NEW n \in Msgs \cup {0},
         byKey' = [k \in Keys |-> IF k = KeyOf(m) THEN n ELSE byKey[k]]
  PROVE  byKey' \in [Keys -> Msgs \cup {0}]
BY DEF MemoryOK

LEMMA CreateRecordOK ==
  ASSUME MemoryOK, NEW m \in Msgs, CreateRecord(m) PROVE MemoryOK'
<1>1. Value("queued", 0, 0) \in Records
  BY BoundAssumption DEF Value, Records, Statuses
<1>2. record' \in [Msgs -> Records \cup {Absent}]
  BY <1>1, NewRecordOK DEF CreateRecord
<1>3. byKey' \in [Keys -> Msgs \cup {0}]
  BY IndexOK DEF CreateRecord
<1> QED BY <1>2, <1>3 DEF CreateRecord, MemoryOK

LEMMA CountReplayOK ==
  ASSUME MemoryOK, NEW m \in Msgs, Exists(m), CountReplay(m) PROVE MemoryOK'
<1>1. record[m] \in Records
  BY DEF MemoryOK, Exists
<1> DEFINE r == [record[m] EXCEPT !.replays = record[m].replays + 1]
<1>2. r \in Records
  BY <1>1 DEF Records
<1>3. record' = [record EXCEPT ![m] = r]
  BY DEF CountReplay
<1> HIDE DEF r
<1>4. record' \in [Msgs -> Records \cup {Absent}]
  BY <1>2, <1>3, NewRecordOK
<1> QED BY <1>4 DEF CountReplay, MemoryOK

LEMMA AbortRecordOK ==
  ASSUME MemoryOK, NEW m \in Msgs, AbortRecord(m) PROVE MemoryOK'
<1>1. record' \in [Msgs -> Records \cup {Absent}]
  BY NewRecordOK DEF AbortRecord
<1>2. byKey' \in [Keys -> Msgs \cup {0}]
  BY IndexOK DEF AbortRecord
<1> QED BY <1>1, <1>2 DEF AbortRecord, MemoryOK

LEMMA LeaseOK ==
  ASSUME MemoryOK, NEW d \in Deliveries, Exists(d[1]), Lease(d) PROVE MemoryOK'
<1>1. d[1] \in Msgs /\ d[2] \in 0 .. MaxDeliveries
  BY BoundAssumption DEF Deliveries
<1>2. record[d[1]] \in Records
  BY <1>1 DEF MemoryOK, Exists
<1>3. [record[d[1]] EXCEPT !.status = "leased", !.last = d[2]] \in Records
  BY <1>1, <1>2 DEF Records, Statuses
<1>4. record' \in [Msgs -> Records \cup {Absent}]
  BY <1>1, <1>3, NewRecordOK DEF Lease
<1> QED BY <1>4 DEF Lease, MemoryOK

LEMMA SettleOK ==
  ASSUME MemoryOK, NEW D, NEW status \in Statuses, Settle(D, status) PROVE MemoryOK'
<1>1. ASSUME NEW m \in Msgs, Exists(m)
      PROVE  [record[m] EXCEPT !.status = status] \in Records
  <2>1. record[m] \in Records
    BY <1>1 DEF MemoryOK, Exists
  <2> QED BY <2>1 DEF Records
<1>2. \A m \in Msgs : record[m] \in Records \cup {Absent}
  BY DEF MemoryOK
<1>3. record' \in [Msgs -> Records \cup {Absent}]
  BY <1>1, <1>2 DEF Settle
<1> QED BY <1>3 DEF Settle, MemoryOK

LEMMA CacheOK ==
  ASSUME MemoryOK, NEW m \in Msgs, NEW r \in Records \cup {Absent}, Cache(m, r)
  PROVE  MemoryOK'
<1>1. record' \in [Msgs -> Records \cup {Absent}]
  BY NewRecordOK DEF Cache
<1>2. byKey' \in [Keys -> Msgs \cup {0}]
  BY IndexOK DEF Cache
<1> QED BY <1>1, <1>2 DEF Cache, MemoryOK

LEMMA AppendMessageOK ==
  ASSUME MemoryOK, NEW m \in Msgs, AppendMessage(m) PROVE MemoryOK'
BY DEF AppendMessage, MemoryOK

LEMMA TakeHeadOK ==
  ASSUME MemoryOK, queue # <<>>, TakeHead PROVE MemoryOK' /\ Head(queue) \in Msgs
BY DEF TakeHead, MemoryOK

(* What a call has done is well typed once its memory and its request are. *)
LEMMA CallOK ==
  ASSUME TypeInv, NEW w \in Workers, MemoryOK', setup' = setup, Call(w),
         job' \in [Workers -> Jobs], OthersWait(w), Fits(job'[w]), job'[w].pc \in Saving
  PROVE  SavesOK' /\ JobsOK'
<1>1. Unlocked /\ StartSave(w)
  BY DEF Call
<1>2. SavesOK' /\ save'.by = w
  BY <1>1, StartIs DEF TypeInv, MemoryOK
<1> QED BY <1>1, <1>2, JobsStay DEF TypeInv

(* A request that waits for no save, before or after. *)
LEMMA MoveOK ==
  ASSUME TypeInv, NEW w \in Workers, UNCHANGED save,
         job' \in [Workers -> Jobs], OthersWait(w), Fits(job'[w]),
         {job[w].pc, job'[w].pc} \cap Saving = {}
  PROVE  JobsOK'
BY JobsStay DEF TypeInv

-----------------------------------------------------------------------------
(* The actions, by what they do to the store. *)

StoreOK == MemoryOK /\ SavesOK /\ JobsOK

LEMMA JobFields ==
  ASSUME TypeInv, NEW w \in Workers
  PROVE  /\ job \in [Workers -> Jobs] /\ job[w].pc \in Steps /\ job[w].batch \subseteq Msgs
         /\ job[w].read \in Records \cup {Absent} /\ job[w].msg \in Msgs \cup {0}
         /\ job[w].pc \in WithMessage => job[w].msg \in Msgs
         /\ job[w].last \in 0 .. MaxDeliveries
BY DEF TypeInv, JobsOK, Jobs, Fits

LEMMA SetupFields ==
  ASSUME TypeInv
  PROVE  /\ setup.workers \subseteq Workers /\ setup.entries \subseteq Entries
         /\ setup.deliveries \in 0 .. MaxDeliveries /\ setup.messages \in Nat
BY SetupsAssumption DEF TypeInv, RestOK, Setup

(* The four that put a message back into, or for the first time into, its  *)
(* queue: what they have in common.                                        *)
Enqueues(w) == PublishEnqueue(w) \/ Requeue(w) \/ PutBack(w) \/ NackEnqueue(w)

LEMMA EnqueueIs ==
  ASSUME NEW w, Enqueues(w)
  PROVE  /\ job[w].pc \in {"enqueue", "requeueOne", "putBack", "return"}
         /\ \/ \E pc \in {"enqueuing", "requeuing", "puttingBack", "returning"} :
                 /\ AppendAndSave(w, pc)
                 /\ pc = "requeuing" <=> job[w].pc = "requeueOne"
            \/ \E pc \in {"idle", "requeue"} :
                 /\ PutObject(w, pc) /\ UNCHANGED <<handed, acked, created, removed, lost>>
                 /\ pc = "requeue" <=> job[w].pc = "requeueOne"
                 /\ accepted' \in {accepted, accepted \cup {Msg(w)}}
            \/ \E pc \in {"abort", "dequeue", "idle"} :
                 /\ PutFails(w, pc)
                 /\ pc = "abort" => job[w].pc = "enqueue"
<1>1. CASE PublishEnqueue(w)
  BY <1>1 DEF PublishEnqueue, At
<1>2. CASE Requeue(w)
  BY <1>2 DEF Requeue, At, told
<1>3. CASE PutBack(w)
  BY <1>3 DEF PutBack, At, told
<1>4. CASE NackEnqueue(w)
  BY <1>4 DEF NackEnqueue, At, told
<1> QED BY <1>1, <1>2, <1>3, <1>4 DEF Enqueues

LEMMA SameTypes ==
  ASSUME TypeInv
  PROVE  /\ UNCHANGED memory => MemoryOK'
         /\ UNCHANGED <<bucket, saved, save>> => SavesOK'
         /\ UNCHANGED <<job, save>> => JobsOK'
         /\ UNCHANGED <<env, count, told>> => RestOK'
BY DEF TypeInv, MemoryOK, SavesOK, JobsOK, Fits, RestOK, memory, env, count, told

(* Requests that go on without the store.                                  *)
LEMMA MovesTypes ==
  ASSUME TypeInv, NEW w \in Workers, NEW m,
         \/ Pull(w) \/ RequeueNext(w) \/ NothingQueued(w) \/ ReadRecord(w) \/ ClaimFails(w)
         \/ m \in Msgs /\ (Publish(w, m) \/ Query(w, m))
  PROVE  StoreOK'
<1> USE JobFields DEF At
<1>1. UNCHANGED store
  BY DEF Publish, Pull, RequeueNext, NothingQueued, ReadRecord, ClaimFails, Query
<1>2. ASSUME job' \in [Workers -> Jobs], OthersWait(w), Fits(job'[w]),
             {job[w].pc, job'[w].pc} \cap Saving = {}
      PROVE  StoreOK'
  BY <1>1, <1>2, MoveOK, SameTypes DEF StoreOK, store
<1>3. CASE m \in Msgs /\ Publish(w, m)
  <2>1. m \in Msgs /\ job[w].pc = "idle" /\ Hold(w, "register", m)
    BY <1>3 DEF Publish
  <2>2. "register" \in Steps
    BY DEF Steps, WithMessage
  <2>3. Fits(job'[w]) /\ {job[w].pc, job'[w].pc} \cap Saving = {}
    BY <2>1, <2>2, HoldIs DEF Fits, Saving
  <2> QED BY <2>1, <2>2, <2>3, <1>2, HoldIs
<1>4. CASE Pull(w)
  <2>1. job[w].pc = "idle" /\ Become(w, "sweep")
    BY <1>4 DEF Pull
  <2>2. "sweep" \in Steps
    BY DEF Steps
  <2>3. Fits(job'[w]) /\ {job[w].pc, job'[w].pc} \cap Saving = {}
    BY <2>1, <2>2, BecomeIs DEF Fits, Saving, WithMessage
  <2> QED BY <2>1, <2>2, <2>3, <1>2, BecomeIs
<1>5. CASE RequeueNext(w)
  <2>1. CASE job[w].pc = "requeue" /\ Become(w, "dequeue")
    <3>2. "dequeue" \in Steps
      BY DEF Steps
    <3>3. Fits(job'[w]) /\ {job[w].pc, job'[w].pc} \cap Saving = {}
      BY <2>1, <3>2, BecomeIs DEF Fits, Saving, WithMessage
    <3> QED BY <2>1, <3>2, <3>3, <1>2, BecomeIs
  <2>2. ASSUME NEW n \in job[w].batch, job[w].pc = "requeue",
               job' = [job EXCEPT ![w] = [job[w] EXCEPT !.pc = "requeueOne", !.msg = n,
                                                        !.batch = job[w].batch \ {n}]]
        PROVE  StoreOK'
    <3> DEFINE j == [job[w] EXCEPT !.pc = "requeueOne", !.msg = n, !.batch = job[w].batch \ {n}]
    <3>1. "requeueOne" \in Steps /\ n \in Msgs
      BY DEF Steps, WithMessage
    <3>2. j \in Jobs /\ j.pc = "requeueOne" /\ j.msg = n
      BY <3>1 DEF Jobs
    <3> HIDE DEF j
    <3>3. job' \in [Workers -> Jobs] /\ OthersWait(w) /\ job'[w] = j
      BY <2>2, <3>2, JobIs DEF j
    <3>4. Fits(job'[w]) /\ {job[w].pc, job'[w].pc} \cap Saving = {}
      BY <2>2, <3>1, <3>2, <3>3 DEF Fits, Saving
    <3> QED BY <3>3, <3>4, <1>2
  <2> QED BY <2>1, <2>2, <1>5 DEF RequeueNext
<1>6. CASE NothingQueued(w)
  <2>1. job[w].pc = "dequeue" /\ Become(w, "idle")
    BY <1>6 DEF NothingQueued
  <2>2. "idle" \in Steps
    BY DEF Steps
  <2>3. {job[w].pc, job'[w].pc} \cap Saving = {}
    BY <2>1, <2>2, BecomeIs DEF Saving
  <2> QED BY <2>1, <2>2, <2>3, <1>2, BecomeIs, IdleFits
<1>7. CASE ReadRecord(w)
  <2>1. CASE job[w].pc = "claim" /\ Become(w, "putBack")
    <3>2. "putBack" \in Steps /\ "claim" \in WithMessage
      BY DEF Steps, WithMessage
    <3>3. Fits(job'[w]) /\ {job[w].pc, job'[w].pc} \cap Saving = {}
      BY <2>1, <3>2, BecomeIs DEF Fits, Saving
    <3> QED BY <2>1, <3>2, <3>3, <1>2, BecomeIs
  <2>2. CASE /\ job[w].pc = "claim"
             /\ job' = [job EXCEPT ![w] = [job[w] EXCEPT !.pc = "loaded",
                                             !.read = bucket[RecordObject(Msg(w))]]]
    <3> DEFINE j == [job[w] EXCEPT !.pc = "loaded", !.read = bucket[RecordObject(Msg(w))]]
    <3>1. "loaded" \in Steps /\ job[w].msg \in Msgs
      BY <2>2 DEF Steps, WithMessage
    <3>2. bucket[RecordObject(Msg(w))] \in Records \cup {Absent}
      BY <3>1, ObjectNames, ContentsIs DEF TypeInv, SavesOK, Msg
    <3>3. j \in Jobs /\ j.pc = "loaded" /\ j.msg = job[w].msg
      BY <3>1, <3>2 DEF Jobs
    <3> HIDE DEF j
    <3>4. job' \in [Workers -> Jobs] /\ OthersWait(w) /\ job'[w] = j
      BY <2>2, <3>3, JobIs DEF j
    <3>5. Fits(job'[w]) /\ {job[w].pc, job'[w].pc} \cap Saving = {}
      BY <2>2, <3>1, <3>3, <3>4 DEF Fits, Saving
    <3> QED BY <3>4, <3>5, <1>2
  <2> QED BY <2>1, <2>2, <1>7 DEF ReadRecord
<1>8. CASE ClaimFails(w)
  <2>1. job[w].pc \in {"claim", "relock"} /\ Become(w, "putBack")
    BY <1>8 DEF ClaimFails
  <2>2. "putBack" \in Steps /\ {"claim", "relock"} \subseteq WithMessage
    BY DEF Steps, WithMessage
  <2>3. Fits(job'[w]) /\ {job[w].pc, job'[w].pc} \cap Saving = {}
    BY <2>1, <2>2, BecomeIs DEF Fits, Saving
  <2> QED BY <2>1, <2>2, <2>3, <1>2, BecomeIs
<1>9. CASE m \in Msgs /\ Query(w, m)
  <2> DEFINE j == [job[w] EXCEPT !.pc = "fetched", !.msg = m, !.read = bucket[RecordObject(m)]]
  <2>1. job[w].pc = "idle" /\ job' = [job EXCEPT ![w] = j]
    BY <1>9 DEF Query
  <2>2. "fetched" \in Steps /\ m \in Msgs /\ bucket[RecordObject(m)] \in Records \cup {Absent}
    BY <1>9, ObjectNames, ContentsIs DEF Steps, WithMessage, TypeInv, SavesOK
  <2>3. j \in Jobs /\ j.pc = "fetched" /\ j.msg = m
    BY <2>2 DEF Jobs
  <2> HIDE DEF j
  <2>4. job' \in [Workers -> Jobs] /\ OthersWait(w) /\ job'[w] = j
    BY <2>1, <2>3, JobIs
  <2>5. Fits(job'[w]) /\ {job[w].pc, job'[w].pc} \cap Saving = {}
    BY <2>1, <2>2, <2>3, <2>4 DEF Fits, Saving
  <2> QED BY <2>4, <2>5, <1>2
<1> QED BY <1>3, <1>4, <1>5, <1>6, <1>7, <1>8, <1>9

(* Calls of the state store.                                               *)
LEMMA CallTypes ==
  ASSUME TypeInv, NEW w \in Workers, MemoryOK', setup' = setup, Call(w),
         job' \in [Workers -> Jobs], OthersWait(w), Fits(job'[w]), job'[w].pc \in Saving
  PROVE  StoreOK'
BY CallOK DEF StoreOK

LEMMA EntryTypes ==
  ASSUME TypeInv, NEW w \in Workers, NEW e \in Entries, CreateEntry(w, e) \/ RemoveEntry(w, e)
  PROVE  StoreOK'
<1>1. PICK pc \in {"creating", "removing"} :
        /\ job' = [job EXCEPT ![w] = [job[w] EXCEPT !.pc = pc, !.entry = e]]
        /\ Call(w) /\ setup' = setup
        /\ UNCHANGED <<queue, record, leases, byKey>>
        /\ entries' \in {entries \cup {e}, entries \ {e}}
  BY DEF CreateEntry, RemoveEntry, env
<1> DEFINE j == [job[w] EXCEPT !.pc = pc, !.entry = e]
<1>2. pc \in Steps /\ pc \in Saving /\ pc \notin WithMessage
  BY DEF Steps, Saving, WithMessage
<1>3. j \in Jobs /\ j.pc = pc /\ j.entry = e
  BY <1>2, JobFields DEF Jobs
<1> HIDE DEF j
<1>4. job' \in [Workers -> Jobs] /\ OthersWait(w) /\ job'[w] = j
  BY <1>1, <1>3, JobIs, JobFields DEF j
<1>5. Fits(job'[w]) /\ job'[w].pc \in Saving
  BY <1>2, <1>3, <1>4 DEF Fits
<1>6. MemoryOK'
  BY <1>1 DEF TypeInv, MemoryOK
<1> QED BY <1>1, <1>4, <1>5, <1>6, CallTypes

LEMMA BecomeCall ==
  ASSUME TypeInv, NEW w \in Workers, MemoryOK', setup' = setup, Call(w),
         job[w].pc \in WithMessage,
         NEW pc \in Saving \ {"creating", "removing", "leasing"}, Become(w, pc)
  PROVE  StoreOK'
<1>1. pc \in Steps /\ pc # "idle"
  BY DEF Steps, Saving
<1>2. /\ job' \in [Workers -> Jobs] /\ OthersWait(w) /\ job'[w].pc = pc
      /\ job'[w].msg = job[w].msg
  BY <1>1, BecomeIs, JobFields
<1>3. Fits(job'[w])
  BY <1>2, JobFields DEF Fits
<1> QED BY <1>2, <1>3, CallTypes

LEMMA HoldCall ==
  ASSUME TypeInv, NEW w \in Workers, MemoryOK', setup' = setup, Call(w), NEW m \in Msgs,
         NEW pc \in Saving \ {"creating", "removing", "leasing"}, Hold(w, pc, m)
  PROVE  StoreOK'
<1>1. pc \in Steps
  BY DEF Steps
<1>2. /\ job' \in [Workers -> Jobs] /\ OthersWait(w) /\ job'[w].pc = pc /\ job'[w].msg = m
  BY <1>1, HoldIs, JobFields
<1>3. Fits(job'[w])
  BY <1>2 DEF Fits
<1> QED BY <1>2, <1>3, CallTypes

LEMMA CallsTypes ==
  ASSUME TypeInv, NEW w \in Workers,
         \/ Register(w) \/ RegisterReplay(w) \/ Abort(w) \/ Dequeue(w)
         \/ job[w].pc \in WithMessage
              /\ \E pc \in {"enqueuing", "requeuing", "puttingBack", "returning"} :
                   AppendAndSave(w, pc)
  PROVE  StoreOK'
<1> USE JobFields DEF At, Msg, env
<1>1. CASE Register(w)
  <2>1. job[w].pc \in WithMessage
    BY <1>1 DEF Register, WithMessage
  <2>2. MemoryOK'
    BY <1>1, <2>1, CreateRecordOK DEF Register, TypeInv
  <2>3. "registering" \in Saving \ {"creating", "removing", "leasing"}
    BY DEF Saving
  <2> QED BY <1>1, <2>1, <2>2, <2>3, BecomeCall DEF Register
<1>2. CASE RegisterReplay(w)
  <2>1. PICK n \in ReplayOf(Msg(w)) : CountReplay(n) /\ Hold(w, "replaying", n) /\ Call(w)
    BY <1>2 DEF RegisterReplay
  <2>2. n \in Msgs /\ Exists(n)
    BY DEF ReplayOf
  <2>3. MemoryOK'
    BY <2>1, <2>2, CountReplayOK DEF TypeInv
  <2>4. "replaying" \in Saving \ {"creating", "removing", "leasing"}
    BY DEF Saving
  <2>5. setup' = setup
    BY <1>2 DEF RegisterReplay
  <2> QED BY <2>1, <2>2, <2>3, <2>4, <2>5, HoldCall
<1>3. CASE Abort(w)
  <2>1. job[w].pc \in WithMessage
    BY <1>3 DEF Abort, WithMessage
  <2>2. MemoryOK'
    BY <1>3, <2>1, AbortRecordOK DEF Abort, TypeInv
  <2>3. "aborting" \in Saving \ {"creating", "removing", "leasing"}
    BY DEF Saving
  <2> QED BY <1>3, <2>1, <2>2, <2>3, BecomeCall DEF Abort
<1>4. CASE Dequeue(w)
  <2>1. MemoryOK' /\ Head(queue) \in Msgs
    BY <1>4, TakeHeadOK DEF Dequeue, TypeInv
  <2>2. "dequeuing" \in Saving \ {"creating", "removing", "leasing"}
    BY DEF Saving
  <2> QED BY <1>4, <2>1, <2>2, HoldCall DEF Dequeue
<1>5. ASSUME job[w].pc \in WithMessage,
             NEW pc \in {"enqueuing", "requeuing", "puttingBack", "returning"},
             AppendAndSave(w, pc)
      PROVE  StoreOK'
  <2>1. MemoryOK'
    BY <1>5, AppendMessageOK DEF AppendAndSave, TypeInv
  <2>2. pc \in Saving \ {"creating", "removing", "leasing"}
    BY DEF Saving
  <2> QED BY <1>5, <2>1, <2>2, BecomeCall DEF AppendAndSave
<1> QED BY <1>1, <1>2, <1>3, <1>4, <1>5

LEMMA SweepTypes ==
  ASSUME TypeInv, NEW w \in Workers, Sweep(w)
  PROVE  StoreOK'
<1> DEFINE overdue == leases \cap due
           back == {d[1] : d \in {x \in overdue : Exists(x[1])}}
           pc == IF back = {} THEN "dequeue" ELSE "sweeping"
           j == [job[w] EXCEPT !.pc = pc, !.batch = back]
<1>1. /\ job[w].pc = "sweep" /\ Unlocked /\ Settle(overdue, "queued")
      /\ job' = [job EXCEPT ![w] = j] /\ setup' = setup
      /\ IF back = {} THEN UNCHANGED <<bucket, saved, save>> ELSE StartSave(w)
  BY DEF Sweep, At, env
<1>2. back \subseteq Msgs
  BY DEF TypeInv, MemoryOK, Deliveries
<1>3. pc \in Steps /\ pc \notin WithMessage /\ (back # {} <=> pc \in Saving)
  BY DEF Steps, Saving, WithMessage
<1> HIDE DEF pc, back
<1>4. j \in Jobs /\ j.pc = pc
  BY <1>2, <1>3, JobFields DEF Jobs
<1> HIDE DEF j
<1>5. job' \in [Workers -> Jobs] /\ OthersWait(w) /\ job'[w] = j
  BY <1>1, <1>4, JobIs, JobFields
<1>6. pc \in {"dequeue", "sweeping"}
  BY DEF pc
<1>7. Fits(job'[w])
  BY <1>3, <1>4, <1>5, <1>6 DEF Fits
<1>8. MemoryOK'
  <2>1. "queued" \in Statuses
    BY DEF Statuses
  <2> QED BY <1>1, <2>1, SettleOK DEF TypeInv
<1>9. CASE back = {}
  <2>1. job[w].pc \notin Saving
    BY <1>1 DEF Saving
  <2>2. UNCHANGED <<bucket, saved, save>>
    BY <1>1, <1>9
  <2> QED BY <1>3, <1>4, <1>5, <1>7, <1>8, <1>9, <2>1, <2>2, MoveOK, SameTypes DEF StoreOK
<1>10. CASE back # {}
  BY <1>1, <1>3, <1>4, <1>5, <1>7, <1>8, <1>10, CallTypes DEF Call
<1> QED BY <1>9, <1>10

LEMMA ClaimTypes ==
  ASSUME TypeInv, NEW w \in Workers, Claim(w)
  PROVE  /\ StoreOK' /\ <<Msg(w), made[Msg(w)] + 1>> \in Deliveries
         /\ made' \in [Msgs -> 0 .. MaxDeliveries]
<1> DEFINE m == Msg(w)
           n == made[m] + 1
           j == [job[w] EXCEPT !.pc = "leasing", !.last = n]
<1>1. /\ job[w].pc \in {"claim", "relock"} /\ Exists(m) /\ made[m] < setup.deliveries
      /\ made' = [made EXCEPT ![m] = n] /\ Lease(<<m, n>>) /\ Call(w)
      /\ job' = [job EXCEPT ![w] = j] /\ setup' = setup
  BY DEF Claim, At
<1>2. m \in Msgs
  BY <1>1, JobFields DEF Msg, WithMessage
<1>3. made[m] \in 0 .. MaxDeliveries /\ made \in [Msgs -> 0 .. MaxDeliveries]
  BY <1>2 DEF TypeInv, RestOK
<1>4. n \in 1 .. MaxDeliveries /\ n \in 0 .. MaxDeliveries /\ n # 0
  BY <1>1, <1>3, SetupFields, BoundAssumption
<1> HIDE DEF m, n
<1>5. <<m, n>> \in Deliveries
  BY <1>2, <1>4 DEF Deliveries
<1>6. made' \in [Msgs -> 0 .. MaxDeliveries]
  BY <1>1, <1>3, <1>4
<1>7. MemoryOK'
  BY <1>1, <1>5, LeaseOK DEF TypeInv
<1>8. "leasing" \in Steps /\ "leasing" \in Saving
  BY DEF Steps, Saving
<1>9. j \in Jobs /\ j.pc = "leasing" /\ j.last = n /\ j.msg = job[w].msg
  BY <1>4, <1>8, JobFields DEF Jobs
<1> HIDE DEF j
<1>10. job' \in [Workers -> Jobs] /\ OthersWait(w) /\ job'[w] = j
  BY <1>1, <1>9, JobIs, JobFields
<1>11. Fits(job'[w])
  BY <1>2, <1>4, <1>9, <1>10 DEF Fits, m, Msg
<1> QED BY <1>1, <1>5, <1>6, <1>7, <1>8, <1>9, <1>10, <1>11, CallTypes DEF m, n

LEMMA SettlesTypes ==
  ASSUME TypeInv, NEW w \in Workers, NEW d \in Deliveries, NEW status \in Statuses,
         NEW pc \in {"acking", "nacking"}, Settles(w, d, status, pc)
  PROVE  StoreOK'
<1>1. MemoryOK'
  BY SettleOK DEF Settles, TypeInv
<1>2. d[1] \in Msgs /\ pc \in Saving \ {"creating", "removing", "leasing"} /\ setup' = setup
  BY DEF Deliveries, Saving, Settles, env
<1>3. CASE Exists(d[1])
  BY <1>1, <1>2, <1>3, HoldCall DEF Settles, Call
<1>4. CASE ~Exists(d[1])
  BY <1>1, <1>4, SameTypes DEF Settles, StoreOK
<1> QED BY <1>3, <1>4

(* The objects of s3QueueStore.                                            *)
LEMMA BucketPutIs ==
  ASSUME SavesOK, NEW m \in Msgs, NEW v \in {Absent, Present},
         bucket' = [bucket EXCEPT ![QueueObject(m)] = v]
  PROVE  /\ bucket' \in Contents /\ bucket'[QueueObject(m)] = v
         /\ \A o \in Objects : o # QueueObject(m) => bucket'[o] = bucket[o]
<1>1. QueueObject(m) \in Objects /\ \A n \in Msgs : RecordObject(n) # QueueObject(m)
  BY ObjectNames DEF RecordObject, QueueObject
<1>2. bucket \in [Objects -> Records \cup {Absent, Present}]
  BY ContentsIs DEF SavesOK
<1>3. /\ bucket' \in [Objects -> Records \cup {Absent, Present}]
      /\ bucket'[QueueObject(m)] = v
      /\ \A o \in Objects : o # QueueObject(m) => bucket'[o] = bucket[o]
  BY <1>1, <1>2
<1>4. \A n \in Msgs : bucket'[RecordObject(n)] # Present
  BY <1>1, <1>3, ObjectNames, ContentsIs DEF SavesOK
<1> QED BY <1>3, <1>4, ContentsIs

LEMMA BucketTypes ==
  ASSUME TypeInv, NEW m \in Msgs, NEW v \in {Absent, Present},
         bucket' \in {bucket, [bucket EXCEPT ![QueueObject(m)] = v]},
         UNCHANGED <<memory, saved, save>>
  PROVE  MemoryOK' /\ SavesOK'
<1>1. bucket' \in Contents
  BY BucketPutIs DEF TypeInv, SavesOK
<1> QED BY <1>1, SameTypes DEF TypeInv, SavesOK

LEMMA ObjectsTypes ==
  ASSUME TypeInv, NEW w \in Workers,
         \/ /\ job[w].pc \in {"enqueue", "requeueOne", "putBack", "return"}
            /\ \/ \E pc \in {"idle", "requeue"} : PutObject(w, pc)
               \/ \E pc \in {"abort", "dequeue", "idle"} :
                    PutFails(w, pc) /\ (pc = "abort" => job[w].pc = "enqueue")
         \/ DequeueObject(w) \/ DequeueFails(w)
  PROVE  StoreOK'
<1>1. ASSUME job[w].pc \in {"enqueue", "requeueOne", "putBack", "return"},
             NEW pc \in {"idle", "requeue", "dequeue", "abort"},
             bucket' \in {bucket, [bucket EXCEPT ![QueueObject(Msg(w))] = Present]},
             Become(w, pc), UNCHANGED <<memory, saved, save>>
      PROVE  StoreOK'
  <2>1. /\ job[w].msg \in Msgs /\ pc \in Steps
        /\ {job[w].pc, pc} \cap Saving = {} /\ (pc \in WithMessage <=> pc = "abort")
    BY <1>1, JobFields DEF WithMessage, Steps, Saving
  <2>2. MemoryOK' /\ SavesOK'
    BY <1>1, <2>1, BucketTypes DEF Msg
  <2>3. /\ job' \in [Workers -> Jobs] /\ OthersWait(w) /\ job'[w].pc = pc
        /\ pc = "idle" => job'[w] = Idle
        /\ pc # "idle" => job'[w].msg = job[w].msg
    BY <1>1, <2>1, BecomeIs, JobFields
  <2>4. Fits(job'[w])
    BY <2>1, <2>3 DEF Fits
  <2> QED BY <1>1, <2>1, <2>2, <2>3, <2>4, MoveOK DEF StoreOK
<1>2. ASSUME NEW pc \in {"idle", "requeue"}, PutObject(w, pc)
      PROVE  /\ bucket' = [bucket EXCEPT ![QueueObject(Msg(w))] = Present]
             /\ Become(w, pc) /\ UNCHANGED <<memory, saved, save>>
  BY <1>2 DEF PutObject, PutMessage
<1>3. ASSUME NEW pc \in {"abort", "dequeue", "idle"}, PutFails(w, pc)
      PROVE  /\ bucket' \in {bucket, [bucket EXCEPT ![QueueObject(Msg(w))] = Present]}
             /\ Become(w, pc) /\ UNCHANGED <<memory, saved, save>>
  BY <1>3 DEF PutFails, PutMessage
<1>4. ASSUME DequeueObject(w)
      PROVE  StoreOK'
  <2>1. PICK m \in Oldest : /\ bucket' = [bucket EXCEPT ![QueueObject(m)] = Absent]
                            /\ Hold(w, "claim", m)
    BY <1>4 DEF DequeueObject
  <2>2. /\ m \in Msgs /\ "claim" \in Steps /\ job[w].pc = "dequeue"
        /\ UNCHANGED <<memory, saved, save>>
    BY <1>4 DEF Oldest, Steps, WithMessage, DequeueObject, At
  <2>3. MemoryOK' /\ SavesOK'
    BY <2>1, <2>2, BucketTypes
  <2>4. /\ job' \in [Workers -> Jobs] /\ OthersWait(w) /\ job'[w].pc = "claim"
        /\ job'[w].msg = m
    BY <2>1, <2>2, HoldIs, JobFields
  <2>5. Fits(job'[w]) /\ {job[w].pc, job'[w].pc} \cap Saving = {}
    BY <2>2, <2>4 DEF Fits, Saving
  <2> QED BY <2>2, <2>3, <2>4, <2>5, MoveOK DEF StoreOK
<1>5. ASSUME DequeueFails(w)
      PROVE  StoreOK'
  <2>1. /\ job[w].pc = "dequeue" /\ Become(w, "idle") /\ "idle" \in Steps
        /\ UNCHANGED <<memory, saved, save>>
        /\ \/ bucket' = bucket
           \/ \E m \in Oldest : bucket' = [bucket EXCEPT ![QueueObject(m)] = Absent]
    BY <1>5 DEF DequeueFails, At, Steps
  <2>2. MemoryOK' /\ SavesOK'
    BY <2>1, BucketTypes, SameTypes DEF Oldest
  <2>3. job' \in [Workers -> Jobs] /\ OthersWait(w) /\ job'[w] = Idle
    BY <2>1, BecomeIs, JobFields
  <2>4. {job[w].pc, job'[w].pc} \cap Saving = {}
    BY <2>1, <2>3 DEF Saving, Idle
  <2> QED BY <2>1, <2>2, <2>3, <2>4, MoveOK, IdleFits DEF StoreOK
<1> QED BY <1>1, <1>2, <1>3, <1>4, <1>5

LEMMA CacheTypes ==
  ASSUME TypeInv, NEW w \in Workers, CacheLoaded(w) \/ CacheRecord(w)
  PROVE  StoreOK'
<1>1. PICK pc \in {"relock", "idle"} :
        /\ job[w].pc = IF pc = "relock" THEN "loaded" ELSE "fetched"
        /\ Cache(Msg(w), job[w].read) /\ Become(w, pc) /\ UNCHANGED <<bucket, saved, save>>
  BY DEF CacheLoaded, CacheRecord, At
<1>2. /\ Msg(w) \in Msgs /\ Msg(w) = job[w].msg /\ pc \in Steps
      /\ job[w].pc \in {"loaded", "fetched"}
  BY <1>1, JobFields DEF Msg, WithMessage, Steps
<1>3. MemoryOK' /\ SavesOK'
  BY <1>1, <1>2, CacheOK, JobFields, SameTypes DEF TypeInv
<1>4. /\ job' \in [Workers -> Jobs] /\ OthersWait(w) /\ job'[w].pc = pc
      /\ pc = "idle" => job'[w] = Idle
      /\ pc # "idle" => job'[w].msg = job[w].msg
  BY <1>1, <1>2, BecomeIs, JobFields
<1>5. Fits(job'[w])
  BY <1>2, <1>4, IdleFits DEF Fits
<1>6. {job[w].pc, job'[w].pc} \cap Saving = {}
  BY <1>2, <1>4 DEF Saving
<1> QED BY <1>1, <1>3, <1>4, <1>5, <1>6, MoveOK DEF StoreOK

(* Where a request goes on when its save is over, or has failed.           *)
LEMMA AfterIs ==
  ASSUME NEW pc \in Saving
  PROVE  /\ AfterSave(pc) \in Steps \ Saving
         /\ AfterSave(pc) \in WithMessage => pc \in WithMessage
         /\ AfterFailure(pc) \subseteq Steps \ Saving
         /\ \A q \in AfterFailure(pc) : q \in WithMessage => pc \in WithMessage
<1>1. AfterSave(pc) \in {"enqueue", "requeue", "claim", "return", "idle"}
  BY DEF AfterSave
<1>2. AfterFailure(pc) \subseteq {"abort", "requeue", "dequeue", "idle", "putBack"}
  BY DEF AfterFailure
<1>3. {"enqueue", "requeue", "claim", "return", "idle", "abort", "dequeue", "putBack"}
        \subseteq Steps \ Saving
  BY DEF Steps, Saving, WithMessage
<1>4. pc \notin WithMessage => AfterSave(pc) \in {"idle", "requeue"}
  BY DEF AfterSave, Saving, WithMessage
<1>5. pc \notin WithMessage => AfterFailure(pc) \subseteq {"idle", "requeue"}
  BY DEF AfterFailure, Saving, WithMessage
<1>6. "idle" \notin WithMessage /\ "requeue" \notin WithMessage
  BY DEF WithMessage
<1> QED BY <1>1, <1>2, <1>3, <1>4, <1>5, <1>6

LEMMA SavesTypes ==
  ASSUME TypeInv, NEW w \in Workers, Save(w) \/ Saved(w) \/ SaveFails(w)
  PROVE  StoreOK'
<1>0. SavesOK /\ JobsOK
  BY DEF TypeInv
<1>1. CASE Save(w)
  <2>1. PICK o \in NextCalls : SaveObject(w, o)
    BY <1>1 DEF Save
  <2>2. SavesOK' /\ save'.by = save.by /\ UNCHANGED memory /\ UNCHANGED job
    BY <1>0, <1>1, <2>1, SaveObjectIs DEF Save
  <2>3. JobsOK'
    BY <1>0, <2>2 DEF JobsOK, Fits
  <2> QED BY <2>2, <2>3, SameTypes DEF StoreOK
<1>2. ASSUME SavesOK', save.by = w, save'.by = "nobody", UNCHANGED memory,
             NEW pc, Become(w, pc),
             pc = AfterSave(job[w].pc) \/ pc \in AfterFailure(job[w].pc)
      PROVE  StoreOK'
  <2>1. job[w].pc \in Saving
    BY <1>0, <1>2, OneSaves
  <2>2. pc \in Steps \ Saving /\ (pc \in WithMessage => job[w].pc \in WithMessage)
    BY <1>2, <2>1, AfterIs
  <2>3. /\ job' \in [Workers -> Jobs] /\ OthersWait(w) /\ job'[w].pc = pc
        /\ pc = "idle" => job'[w] = Idle
        /\ pc # "idle" => job'[w].msg = job[w].msg
    BY <1>2, <2>2, BecomeIs, JobFields
  <2>4. pc \notin {"creating", "removing", "leasing"}
    BY <2>2 DEF Saving
  <2>5. Fits(job'[w])
    BY <2>2, <2>3, <2>4, IdleFits, JobFields DEF Fits
  <2>6. JobsOK'
    BY <1>0, <1>2, <2>2, <2>3, <2>5, JobsStay
  <2> QED BY <1>2, <2>6, SameTypes DEF StoreOK
<1>3. CASE Saved(w)
  BY <1>0, <1>2, <1>3, FinishIs DEF Saved
<1>4. CASE SaveFails(w)
  BY <1>0, <1>2, <1>4, FailIs DEF SaveFails
<1> QED BY <1>1, <1>3, <1>4

LEMMA CrashTypes ==
  ASSUME TypeInv, Crash
  PROVE  StoreOK'
<1>1. Load /\ setup' = setup /\ job' = [v \in Workers |-> Idle]
  BY DEF Crash, env
<1>2. MemoryOK' /\ SavesOK' /\ Unlocked'
  BY <1>1, LoadIs DEF TypeInv
<1>3. "idle" \notin Saving /\ Idle.pc = "idle"
  BY DEF Saving, Idle
<1>4. JobsOK'
  BY <1>1, <1>2, <1>3, IdleFits, WorkersAssumption DEF JobsOK, Unlocked, Fits
<1> QED BY <1>2, <1>4 DEF StoreOK

LEMMA EnqueueTypes ==
  ASSUME TypeInv, NEW w \in Workers, Enqueues(w)
  PROVE  StoreOK'
<1>1. job[w].pc \in {"enqueue", "requeueOne", "putBack", "return"} /\ job[w].pc \in WithMessage
  BY EnqueueIs DEF WithMessage
<1>2. CASE \E pc \in {"enqueuing", "requeuing", "puttingBack", "returning"} :
              AppendAndSave(w, pc)
  BY <1>1, <1>2, CallsTypes
<1>3. CASE \/ \E pc \in {"idle", "requeue"} : PutObject(w, pc)
           \/ \E pc \in {"abort", "dequeue", "idle"} :
                PutFails(w, pc) /\ (pc = "abort" => job[w].pc = "enqueue")
  BY <1>1, <1>3, ObjectsTypes
<1> QED BY <1>2, <1>3, EnqueueIs

(* What callers are told, and what is counted.                             *)
LEMMA AnswerTypes ==
  ASSUME TypeInv, NEW w \in Workers, Saved(w)
  PROVE  RestOK'
<1>1. Answer(w) /\ UNCHANGED <<env, count>>
  BY DEF Saved
<1>2. accepted' \subseteq Msgs /\ acked' \subseteq Msgs
  <2>1. job[w].pc \in {"enqueuing", "replaying", "acking"} => Msg(w) \in Msgs
    BY JobFields DEF WithMessage, Msg
  <2>2. /\ accepted' \subseteq accepted \cup {Msg(w)} /\ acked' \subseteq acked \cup {Msg(w)}
        /\ job[w].pc \notin {"enqueuing", "replaying"} => accepted' = accepted
        /\ job[w].pc # "acking" => acked' = acked
    BY <1>1 DEF Answer, AddIf, At
  <2> QED BY <2>1, <2>2 DEF TypeInv, RestOK
<1>3. created' \subseteq Entries /\ removed' \subseteq Entries
  <2>1. job[w].pc \in {"creating", "removing"} => job[w].entry \in Entries
    BY DEF TypeInv, JobsOK, Fits
  <2>2. /\ created' \subseteq created \cup {job[w].entry}
        /\ removed' \subseteq removed \cup {job[w].entry}
        /\ job[w].pc # "creating" => created' = created
        /\ job[w].pc # "removing" => removed' = removed
    BY <1>1 DEF Answer, AddIf, At
  <2> QED BY <2>1, <2>2 DEF TypeInv, RestOK
<1>4. handed' \subseteq Deliveries
  <2>1. job[w].pc = "leasing" => <<Msg(w), job[w].last>> \in Deliveries
    <3>1. ASSUME job[w].pc = "leasing"
          PROVE  job[w].msg \in Msgs /\ job[w].last \in 1 .. MaxDeliveries
      BY <3>1, JobFields, BoundAssumption DEF TypeInv, JobsOK, Fits, WithMessage
    <3> QED BY <3>1 DEF Deliveries, Msg
  <2>2. /\ handed' \subseteq handed \cup {<<Msg(w), job[w].last>>}
        /\ job[w].pc # "leasing" => handed' = handed
    BY <1>1 DEF Answer, AddIf, At
  <2> QED BY <2>1, <2>2 DEF TypeInv, RestOK
<1>5. lost' = lost
  BY <1>1 DEF Answer
<1> QED BY <1>1, <1>2, <1>3, <1>4, <1>5 DEF TypeInv, RestOK, env, count

LEMMA RestNext ==
  ASSUME TypeInv, [Next]_vars
  PROVE  RestOK'
<1>1. ASSUME UNCHANGED <<env, count, told>>
      PROVE  RestOK'
  BY <1>1, SameTypes
<1>2. ASSUME NEW w \in Workers, Enqueues(w)
      PROVE  RestOK'
  <2>1. CASE \E pc \in {"enqueuing", "requeuing", "puttingBack", "returning"} :
               AppendAndSave(w, pc)
    BY <1>1, <2>1 DEF AppendAndSave
  <2>2. CASE \E pc \in {"idle", "requeue"} :
               /\ PutObject(w, pc) /\ UNCHANGED <<handed, acked, created, removed, lost>>
               /\ accepted' \in {accepted, accepted \cup {Msg(w)}}
    <3>1. Msg(w) \in Msgs
      BY <1>2, EnqueueIs, JobFields DEF WithMessage, Msg
    <3> QED BY <2>2, <3>1 DEF PutObject, TypeInv, RestOK, env, count
  <2>3. CASE \E pc \in {"abort", "dequeue", "idle"} : PutFails(w, pc)
    BY <2>3 DEF PutFails, TypeInv, RestOK, env, told
  <2> QED BY <1>2, <2>1, <2>2, <2>3, EnqueueIs
<1>3. ASSUME NEW w \in Workers, NEW m \in Msgs, Publish(w, m)
      PROVE  RestOK'
  BY <1>3, MsgsAssumption DEF Publish, TypeInv, RestOK, count, told
<1>4. ASSUME NEW w \in Workers, NEW e \in Entries, CreateEntry(w, e)
      PROVE  RestOK'
  BY <1>4 DEF CreateEntry, TypeInv, RestOK, count, told
<1>5. ASSUME NEW w \in Workers, Claim(w)
      PROVE  RestOK'
  BY <1>5, ClaimTypes DEF Claim, TypeInv, RestOK, count, told
<1>6. ASSUME NEW w \in Workers, DequeueFails(w) \/ ClaimFails(w) \/ SaveFails(w)
      PROVE  RestOK'
  BY <1>6 DEF DequeueFails, ClaimFails, SaveFails, TypeInv, RestOK, env, told
<1>7. ASSUME NEW d \in Deliveries, LeaseElapses(d)
      PROVE  RestOK'
  BY <1>7 DEF LeaseElapses, TypeInv, RestOK, count, told
<1>8. ASSUME Crash
      PROVE  RestOK'
  <2>1. InHands \subseteq Msgs
    BY DEF InHands
  <2> QED BY <1>8, <2>1 DEF Crash, TypeInv, RestOK, env
<1>9. ASSUME NEW w \in Workers, Proceed(w), ~Enqueues(w), ~Claim(w), ~Saved(w)
      PROVE  UNCHANGED <<env, count, told>>
  BY <1>9 DEF Proceed, Enqueues, Register, RegisterReplay, Abort, Sweep, RequeueNext,
     Dequeue, DequeueObject, NothingQueued, ReadRecord, CacheLoaded, CacheRecord, Save
<1>10. ASSUME NEW w \in Workers, NEW m, NEW d, NEW e,
              Pull(w) \/ RemoveEntry(w, e) \/ Query(w, m) \/ Ack(w, d) \/ Nack(w, d)
       PROVE  UNCHANGED <<env, count, told>>
  BY <1>10 DEF Pull, RemoveEntry, Query, Ack, Nack, Settles
<1>11. ASSUME NEW w \in Workers, Proceed(w)
       PROVE  RestOK'
  BY <1>1, <1>2, <1>5, <1>9, <1>11, AnswerTypes
<1>12. CASE UNCHANGED vars
  BY <1>1, <1>12 DEF vars
<1>13. setup.workers \subseteq Workers /\ setup.entries \subseteq Entries
  BY SetupFields
<1> QED
  BY <1>1, <1>3, <1>4, <1>6, <1>7, <1>8, <1>10, <1>11, <1>12, <1>13 DEF Next, ControlCall

LEMMA TypeNext ==
  ASSUME TypeInv, [Next]_vars
  PROVE  TypeInv'
<1>1. ASSUME NEW w \in Workers, Proceed(w)
      PROVE  StoreOK'
  <2>1. CASE Enqueues(w)
    BY <2>1, EnqueueTypes
  <2>2. CASE Register(w) \/ RegisterReplay(w) \/ Abort(w) \/ Dequeue(w)
    BY <2>2, CallsTypes
  <2>3. CASE RequeueNext(w) \/ NothingQueued(w) \/ ReadRecord(w)
    BY <2>3, MovesTypes
  <2>4. CASE Sweep(w)
    BY <2>4, SweepTypes
  <2>5. CASE DequeueObject(w)
    BY <2>5, ObjectsTypes
  <2>6. CASE Claim(w)
    BY <2>6, ClaimTypes
  <2>7. CASE CacheLoaded(w) \/ CacheRecord(w)
    BY <2>7, CacheTypes
  <2>8. CASE Save(w) \/ Saved(w)
    BY <2>8, SavesTypes
  <2> QED
    BY <1>1, <2>1, <2>2, <2>3, <2>4, <2>5, <2>6, <2>7, <2>8 DEF Proceed, Enqueues
<1>2. ASSUME NEW w \in Workers, Pull(w) \/ ClaimFails(w)
      PROVE  StoreOK'
  BY <1>2, MovesTypes
<1>3. ASSUME NEW w \in Workers, NEW m \in Msgs, Publish(w, m) \/ Query(w, m)
      PROVE  StoreOK'
  BY <1>3, MovesTypes
<1>4. ASSUME NEW w \in Workers, DequeueFails(w)
      PROVE  StoreOK'
  BY <1>4, ObjectsTypes
<1>5. ASSUME NEW w \in Workers, SaveFails(w)
      PROVE  StoreOK'
  BY <1>5, SavesTypes
<1>6. ASSUME NEW w \in Workers, ControlCall(w)
      PROVE  StoreOK'
  BY <1>6, EntryTypes, SetupFields DEF ControlCall
<1>7. ASSUME NEW w \in Workers, NEW d \in handed, Ack(w, d) \/ Nack(w, d)
      PROVE  StoreOK'
  <2>1. d \in Deliveries /\ {"acked", "queued"} \subseteq Statuses
    BY DEF TypeInv, RestOK, Statuses
  <2> QED BY <1>7, <2>1, SettlesTypes DEF Ack, Nack
<1>8. ASSUME (\E d \in Deliveries : LeaseElapses(d)) \/ UNCHANGED vars
      PROVE  StoreOK'
  BY <1>8, SameTypes DEF LeaseElapses, vars, store, StoreOK
<1>9. setup.workers \subseteq Workers
  BY SetupFields
<1>10. StoreOK'
  BY <1>1, <1>2, <1>3, <1>4, <1>5, <1>6, <1>7, <1>8, <1>9, CrashTypes DEF Next
<1> QED BY <1>10, RestNext DEF StoreOK, TypeInv

LEMMA TypeInit ==
  ASSUME Init
  PROVE  TypeInv
<1>1. MemoryOK
  BY DEF Init, StoreInit, MemoryOK
<1>2. SavesOK /\ Unlocked
  BY NoSaveIs, ContentsIs, ValuesDiffer, ObjectNames DEF Init, StoreInit, SavesOK, NoSave, Unlocked
<1>3. JobsOK
  <2>1. Idle.pc = "idle" /\ "idle" \notin Saving
    BY DEF Idle, Saving
  <2> QED BY <1>2, <2>1, IdleFits, WorkersAssumption DEF Init, JobsOK, Unlocked, Fits
<1>4. RestOK
  BY BoundAssumption DEF Init, RestOK
<1> QED BY <1>1, <1>2, <1>3, <1>4 DEF TypeInv

(* Memory, bucket, the save in progress and the requests have their types, *)
(* and a request holds persistMu exactly while it waits for its save.      *)
THEOREM TypeCorrect == Spec => []TypeInv
<1>1. Init => TypeInv
  BY TypeInit
<1>2. TypeInv /\ [Next]_vars => TypeInv'
  BY TypeNext
<1> QED BY <1>1, <1>2, PTL DEF Spec

-----------------------------------------------------------------------------
(* Creation. *)

(* Requests begin to create an entry in CreateEntry only, and to lease in  *)
(* Claim only: whoever is at p was there before.                           *)
StaysAt(p) == \A v \in Workers : job'[v].pc = p => job'[v] = job[v]
CreatingStays == StaysAt("creating")
LeasingStays  == StaysAt("leasing")

LEMMA NotBeginning ==
  ASSUME TypeInv, NEW p, NEW w \in Workers, NEW pc \in Steps \ {p}, NEW m \in Msgs \cup {0}
  PROVE  /\ Become(w, pc) => StaysAt(p)
         /\ Hold(w, pc, m) => StaysAt(p)
<1>0. job \in [Workers -> Jobs]
  BY JobFields
<1>1. ASSUME Become(w, pc) PROVE StaysAt(p)
  BY <1>0, <1>1, BecomeIs DEF StaysAt, OthersWait
<1>2. ASSUME Hold(w, pc, m) PROVE StaysAt(p)
  <2>1. job'[w].pc = pc /\ \A v \in Workers : v # w => job'[v] = job[v]
    BY <1>0, <1>2 DEF Hold, Jobs
  <2> QED BY <2>1 DEF StaysAt
<1> QED BY <1>1, <1>2

LEMMA BeginningNext ==
  ASSUME TypeInv, [Next]_vars, NEW p \in {"creating", "leasing"},
         p = "creating" => ~\E w \in Workers, e \in Entries : CreateEntry(w, e),
         p = "leasing" => ~\E w \in Workers : Claim(w)
  PROVE  StaysAt(p)
<1>0. job \in [Workers -> Jobs]
  BY DEF TypeInv, JobsOK
<1>1. ASSUME NEW w \in Workers, NEW j, job' = [job EXCEPT ![w] = j], j.pc # p
      PROVE  StaysAt(p)
  BY <1>0, <1>1 DEF StaysAt
<1>2. ASSUME NEW w \in Workers, Enqueues(w)
      PROVE  StaysAt(p)
  <2>1. PICK pc \in {"enqueuing", "requeuing", "puttingBack", "returning", "idle", "requeue",
                     "abort", "dequeue"} : Become(w, pc)
    BY <1>2, EnqueueIs DEF AppendAndSave, PutObject, PutFails
  <2>2. pc \in Steps \ {p}
    BY DEF Steps, Saving, WithMessage
  <2>3. 0 \in Msgs \cup {0}
    OBVIOUS
  <2> QED BY <2>1, <2>2, <2>3, NotBeginning
<1>3. ASSUME NEW w \in Workers, NEW pc \in {"registering", "aborting", "idle", "putBack", "sweep",
                                            "dequeue", "relock"}, Become(w, pc)
      PROVE  StaysAt(p)
  <2>1. pc \in Steps \ {p} /\ 0 \in Msgs \cup {0}
    BY DEF Steps, Saving, WithMessage
  <2> QED BY <1>3, <2>1, NotBeginning
<1>4. ASSUME NEW w \in Workers, NEW pc \in {"register", "replaying", "dequeuing", "claim",
                                            "acking", "nacking"}, NEW m, Hold(w, pc, m)
      PROVE  StaysAt(p)
  BY <1>0, <1>4 DEF Hold, StaysAt, Jobs
<1>5. ASSUME NEW w \in Workers, Sweep(w)
      PROVE  StaysAt(p)
  <2>1. PICK S : job' = [job EXCEPT ![w] = [job[w] EXCEPT
                           !.pc = IF S = {} THEN "dequeue" ELSE "sweeping", !.batch = S]]
    BY <1>5 DEF Sweep
  <2> DEFINE j == [job[w] EXCEPT !.pc = IF S = {} THEN "dequeue" ELSE "sweeping", !.batch = S]
  <2>2. j.pc # p
    BY <1>0 DEF Jobs
  <2> QED BY <1>1, <2>1, <2>2
<1>6. ASSUME NEW w \in Workers, RequeueNext(w), ~Become(w, "dequeue")
      PROVE  StaysAt(p)
  <2>1. PICK n : job' = [job EXCEPT ![w] = [job[w] EXCEPT !.pc = "requeueOne", !.msg = n,
                                                          !.batch = job[w].batch \ {n}]]
    BY <1>6 DEF RequeueNext
  <2> DEFINE j == [job[w] EXCEPT !.pc = "requeueOne", !.msg = n, !.batch = job[w].batch \ {n}]
  <2>2. j.pc # p
    BY <1>0 DEF Jobs
  <2> QED BY <1>1, <2>1, <2>2
<1>7. ASSUME NEW w \in Workers, Claim(w)
      PROVE  StaysAt(p)
  <2>1. PICK n : job' = [job EXCEPT ![w] = [job[w] EXCEPT !.pc = "leasing", !.last = n]]
    BY <1>7 DEF Claim
  <2> DEFINE j == [job[w] EXCEPT !.pc = "leasing", !.last = n]
  <2>0. p # "leasing"
    BY <1>7
  <2>2. j.pc # p
    BY <1>0, <2>0 DEF Jobs
  <2> QED BY <1>1, <2>1, <2>2
<1>8. ASSUME NEW w \in Workers, ReadRecord(w), ~Become(w, "putBack")
      PROVE  StaysAt(p)
  <2>1. PICK r : job' = [job EXCEPT ![w] = [job[w] EXCEPT !.pc = "loaded", !.read = r]]
    BY <1>8 DEF ReadRecord
  <2> DEFINE j == [job[w] EXCEPT !.pc = "loaded", !.read = r]
  <2>2. j.pc # p
    BY <1>0 DEF Jobs
  <2> QED BY <1>1, <2>1, <2>2
<1>9. ASSUME NEW w \in Workers, NEW m, Query(w, m)
      PROVE  StaysAt(p)
  <2>1. PICK r : job' = [job EXCEPT ![w] = [job[w] EXCEPT !.pc = "fetched", !.msg = m, !.read = r]]
    BY <1>9 DEF Query
  <2> DEFINE j == [job[w] EXCEPT !.pc = "fetched", !.msg = m, !.read = r]
  <2>2. j.pc # p
    BY <1>0 DEF Jobs
  <2> QED BY <1>1, <2>1, <2>2
<1>10. ASSUME NEW w \in Workers, NEW e, RemoveEntry(w, e)
       PROVE  StaysAt(p)
  <2> DEFINE j == [job[w] EXCEPT !.pc = "removing", !.entry = e]
  <2>1. job' = [job EXCEPT ![w] = j]
    BY <1>10 DEF RemoveEntry
  <2>2. j.pc # p
    BY <1>0 DEF Jobs
  <2> QED BY <1>1, <2>1, <2>2
<1>11. ASSUME NEW w \in Workers, Saved(w) \/ SaveFails(w)
       PROVE  StaysAt(p)
  <2>1. PICK pc \in {AfterSave(job[w].pc)} \cup AfterFailure(job[w].pc) : Become(w, pc)
    BY <1>11 DEF Saved, SaveFails
  <2>2. job[w].pc \in Saving
    BY <1>11, OneSaves DEF Saved, FinishSave, SaveFails, FailSave, TypeInv
  <2>3. pc \in Steps \ {p}
    BY <2>2, AfterIs DEF Saving
  <2>4. 0 \in Msgs \cup {0}
    OBVIOUS
  <2> QED BY <2>1, <2>3, <2>4, NotBeginning
<1>12. ASSUME Crash
       PROVE  StaysAt(p)
  <2>1. Idle.pc = "idle"
    BY DEF Idle
  <2> QED BY <1>12, <2>1 DEF Crash, StaysAt
<1>13. CASE UNCHANGED job
  BY <1>13 DEF StaysAt
<1>14. ASSUME NEW w \in Workers, Proceed(w)
       PROVE  StaysAt(p)
  <2>1. CASE Enqueues(w) \/ Sweep(w) \/ Claim(w) \/ Saved(w)
    BY <1>2, <1>5, <1>7, <1>11, <2>1
  <2>2. CASE Register(w) \/ Abort(w) \/ NothingQueued(w) \/ CacheLoaded(w) \/ CacheRecord(w)
    BY <1>3, <2>2 DEF Register, Abort, NothingQueued, CacheLoaded, CacheRecord
  <2>3. CASE RegisterReplay(w) \/ Dequeue(w) \/ DequeueObject(w)
    BY <1>4, <2>3 DEF RegisterReplay, Dequeue, DequeueObject
  <2>4. CASE RequeueNext(w) \/ ReadRecord(w)
    BY <1>3, <1>6, <1>8, <2>4
  <2>5. CASE Save(w)
    BY <1>13, <2>5 DEF Save
  <2> QED BY <1>14, <2>1, <2>2, <2>3, <2>4, <2>5 DEF Proceed, Enqueues
<1>15. ASSUME NEW w \in Workers, NEW m, Pull(w) \/ DequeueFails(w) \/ ClaimFails(w) \/ Publish(w, m)
       PROVE  StaysAt(p)
  BY <1>3, <1>4, <1>15 DEF Pull, DequeueFails, ClaimFails, Publish
<1>16. ASSUME NEW w \in Workers, NEW d, Ack(w, d) \/ Nack(w, d)
       PROVE  StaysAt(p)
  BY <1>4, <1>13, <1>16 DEF Ack, Nack, Settles
<1>17. ASSUME NEW w \in Workers, NEW e \in Entries, CreateEntry(w, e)
       PROVE  StaysAt(p)
  <2> DEFINE j == [job[w] EXCEPT !.pc = "creating", !.entry = e]
  <2>1. job' = [job EXCEPT ![w] = j]
    BY <1>17 DEF CreateEntry
  <2>2. j.pc # p
    BY <1>0, <1>17 DEF Jobs
  <2> QED BY <1>1, <2>1, <2>2
<1>18. setup.workers \subseteq Workers /\ setup.entries \subseteq Entries
  BY SetupFields
<1> QED
  BY <1>9, <1>10, <1>11, <1>12, <1>13, <1>14, <1>15, <1>16, <1>17, <1>18
  DEF Next, ControlCall, LeaseElapses, vars

LEMMA CreatingKept ==
  ASSUME CreatingFit, CreatingStays, begun \subseteq begun'
  PROVE  CreatingFit'
BY DEF CreatingFit, CreatingStays, StaysAt, At

LEMMA IsInIs ==
  /\ \A S, x : (x \in S) <=> (IsIn(S, x) # Absent)
  /\ \A S, x : IsIn(S, x) \in {Absent, Present}
BY ValuesDiffer DEF IsIn

(* Objects of other kinds change, or none.                                 *)
LEMMA CreationQuiet ==
  ASSUME TypeInv, CreationInv, CreatingStays,
         UNCHANGED <<entries, saved, save, begun, created>>,
         \A e \in Entries : bucket'[EntryObject(e)] = bucket[EntryObject(e)]
  PROVE  CreationInv'
<1>1. CreatingFit'
  BY CreatingKept DEF CreationInv
<1>2. ASSUME NEW e \in Entries
      PROVE  EntryFit(e)'
  BY DEF CreationInv, EntryFit, InBucket, Unlocked
<1> QED BY <1>1, <1>2 DEF CreationInv

(* A call begins its save, perhaps after it made or removed an entry.      *)
LEMMA CreationStart ==
  ASSUME TypeInv, MemoryOK', CreationInv, CreatingFit', NEW w \in Workers,
         Unlocked, StartSave(w), setup' = setup, begun \subseteq begun', created' = created,
         \A e \in entries' : e \in begun' /\ (e \in entries \/ e \notin begun)
  PROVE  CreationInv'
<1>1. /\ save'.by = w /\ save'.desired = Wanted' /\ save'.puts = Differs(Wanted')
      /\ save'.deletes = Gone(Wanted') /\ UNCHANGED <<bucket, saved>>
  BY StartIs DEF TypeInv, MemoryOK
<1>2. ASSUME NEW e \in Entries
      PROVE  EntryFit(e)'
  <2> DEFINE o == EntryObject(e)
  <2>1. save'.desired[o] = IsIn(entries', e)
    <3>1. record' \in [Msgs -> Records \cup {Absent}]
      BY <1>1 DEF MemoryOK
    <3> QED BY <1>1, <3>1, WantedNext
  <2>2. /\ o \in save'.puts <=> save'.desired[o] # Absent /\ saved[o] # save'.desired[o]
        /\ o \in save'.deletes <=> save'.desired[o] = Absent /\ saved[o] # Absent
    BY <1>1, ListsAre, ObjectNames
  <2>3. e \in entries' /\ saved[o] # Absent => bucket[o] # Absent
    BY DEF CreationInv, EntryFit, InBucket
  <2>4. bucket[o] # Absent \/ saved[o] # Absent => e \in begun
    BY DEF CreationInv, EntryFit, InBucket
  <2>5. e \in created /\ e \in entries' => bucket[o] # Absent
    BY DEF CreationInv, EntryFit, InBucket
  <2> HIDE DEF o
  <2>6. e \in entries' => o \in save'.puts \/ bucket[o] # Absent
    BY <2>1, <2>2, <2>3, IsInIs
  <2>7. o \in save'.deletes => e \notin entries'
    BY <2>1, <2>2, IsInIs
  <2> QED
    BY <1>1, <2>1, <2>3, <2>4, <2>5, <2>6, <2>7 DEF EntryFit, InBucket, o
<1>3. entries' \subseteq begun' /\ created' \subseteq begun'
  BY DEF CreationInv
<1> QED BY <1>2, <1>3 DEF CreationInv

LEMMA CreationSave ==
  ASSUME TypeInv, CreationInv, NEW w \in Workers, NEW o \in NextCalls, SaveObject(w, o),
         UNCHANGED <<job, begun, created>>
  PROVE  CreationInv'
<1>1. /\ save.by = w /\ save'.by = w /\ save'.desired = save.desired
      /\ save'.puts = save.puts \ {o} /\ save'.deletes = save.deletes \ {o}
      /\ bucket'[o] = save.desired[o] /\ \A p \in Objects : p # o => bucket'[p] = bucket[p]
      /\ UNCHANGED <<memory, saved>> /\ w # "nobody"
  BY SaveObjectIs, WorkersAssumption DEF TypeInv
<1>2. ASSUME NEW e \in Entries
      PROVE  EntryFit(e)'
  <2>1. EntryObject(e) \in Objects
    BY ObjectNames
  <2>2. save.desired[EntryObject(e)] = IsIn(entries, e) /\ EntryFit(e) /\ entries \subseteq begun
    BY <1>1 DEF CreationInv, EntryFit, Unlocked
  <2>3. entries' = entries
    BY <1>1 DEF memory
  <2>4. CASE o = EntryObject(e)
    BY <1>1, <2>2, <2>3, <2>4, IsInIs DEF EntryFit, InBucket, Unlocked
  <2>5. CASE o # EntryObject(e)
    BY <1>1, <2>1, <2>2, <2>3, <2>5 DEF EntryFit, InBucket, Unlocked
  <2> QED BY <2>4, <2>5
<1>3. CreatingFit'
  BY DEF CreationInv, CreatingFit, At
<1> QED BY <1>1, <1>2, <1>3 DEF CreationInv, memory

LEMMA CreationSaved ==
  ASSUME TypeInv, CreationInv, NEW w \in Workers, Saved(w), CreatingStays
  PROVE  CreationInv'
<1>1. /\ save.by = w /\ save'.by = "nobody" /\ saved' = save.desired
      /\ save.puts = {} /\ save.deletes = {} /\ UNCHANGED <<memory, bucket>>
      /\ w # "nobody" /\ begun' = begun
  BY FinishIs, WorkersAssumption DEF Saved, TypeInv, env
<1>2. created' \subseteq created \cup {job[w].entry} /\ (created' = created \/ At(w, "creating"))
  BY DEF Saved, Answer, AddIf
<1>3. At(w, "creating") => job[w].entry \in begun
  BY DEF CreationInv, CreatingFit
<1>4. CreatingFit'
  BY <1>1, CreatingKept DEF CreationInv
<1>5. ASSUME NEW e \in Entries
      PROVE  EntryFit(e)'
  <2>1. /\ save.desired[EntryObject(e)] = IsIn(entries, e)
        /\ e \in entries => InBucket(EntryObject(e))
        /\ InBucket(EntryObject(e)) => e \in begun
        /\ entries \subseteq begun
    BY <1>1 DEF CreationInv, EntryFit, Unlocked
  <2>2. entries' = entries
    BY <1>1 DEF memory
  <2> QED BY <1>1, <2>1, <2>2, IsInIs DEF EntryFit, InBucket, Unlocked
<1> QED BY <1>1, <1>2, <1>3, <1>4, <1>5 DEF CreationInv, memory

LEMMA CreationFails ==
  ASSUME TypeInv, CreationInv, NEW w \in Workers, FailSave(w), CreatingStays,
         UNCHANGED <<begun, created>>
  PROVE  CreationInv'
<1>1. /\ save.by = w /\ save'.by = "nobody" /\ UNCHANGED <<memory, saved>> /\ w # "nobody"
  BY FailIs, WorkersAssumption DEF TypeInv
<1>2. PICK o \in NextCalls : /\ bucket'[o] \in {bucket[o], save.desired[o]}
                             /\ \A p \in Objects : p # o => bucket'[p] = bucket[p]
  BY FailIs DEF TypeInv
<1>3. CreatingFit'
  BY CreatingKept DEF CreationInv
<1>4. ASSUME NEW e \in Entries
      PROVE  EntryFit(e)'
  <2>1. EntryObject(e) \in Objects
    BY ObjectNames
  <2>2. save.desired[EntryObject(e)] = IsIn(entries, e) /\ EntryFit(e) /\ entries \subseteq begun
    BY <1>1 DEF CreationInv, EntryFit, Unlocked
  <2>3. entries' = entries
    BY <1>1 DEF memory
  <2>4. CASE o = EntryObject(e)
    BY <1>1, <1>2, <2>2, <2>3, <2>4, IsInIs DEF EntryFit, InBucket, Unlocked
  <2>5. CASE o # EntryObject(e)
    BY <1>1, <1>2, <2>1, <2>2, <2>3, <2>5 DEF EntryFit, InBucket, Unlocked
  <2> QED BY <2>4, <2>5
<1> QED BY <1>1, <1>3, <1>4 DEF CreationInv, memory

LEMMA CreationCrash ==
  ASSUME TypeInv, CreationInv, Crash, CreatingStays
  PROVE  CreationInv'
<1>1. /\ Load /\ setup' = setup /\ UNCHANGED <<begun, created>>
  BY DEF Crash, env
<1>2. /\ MemoryOK' /\ Unlocked' /\ saved' = Wanted' /\ entries' = LoadedEntries
      /\ bucket' = bucket
  BY <1>1, LoadIs DEF TypeInv
<1>3. ASSUME NEW e \in Entries
      PROVE  EntryFit(e)'
  <2>1. saved'[EntryObject(e)] = IsIn(entries', e)
    <3>1. record' \in [Msgs -> Records \cup {Absent}]
      BY <1>2 DEF MemoryOK
    <3> QED BY <1>1, <1>2, <3>1, WantedNext
  <2>2. e \in entries' <=> InBucket(EntryObject(e))
    BY <1>2 DEF LoadedEntries
  <2> QED BY <1>1, <1>2, <2>1, <2>2, IsInIs DEF EntryFit, InBucket, CreationInv
<1>4. entries' \subseteq begun' /\ created' \subseteq begun'
  BY <1>1, <1>2 DEF LoadedEntries, CreationInv, EntryFit
<1>5. CreatingFit'
  BY <1>1, CreatingKept DEF CreationInv
<1> QED BY <1>3, <1>4, <1>5 DEF CreationInv

LEMMA CreationNext ==
  ASSUME TypeInv, CreationInv, [Next]_vars
  PROVE  CreationInv'
<1>0. TypeInv'
  BY TypeNext
<1>1. ASSUME NEW w \in Workers, NEW e \in Entries, CreateEntry(w, e)
      PROVE  CreationInv'
  <2>1. /\ e \notin begun /\ begun' = begun \cup {e} /\ entries' = entries \cup {e}
        /\ job' = [job EXCEPT ![w] = [job[w] EXCEPT !.pc = "creating", !.entry = e]]
        /\ Unlocked /\ StartSave(w) /\ setup' = setup /\ created' = created
    BY <1>1 DEF CreateEntry, Call, told
  <2>2. CreatingFit'
    <3>1. job \in [Workers -> Jobs]
      BY DEF TypeInv, JobsOK
    <3>2. job'[w].entry = e /\ \A v \in Workers : v # w => job'[v] = job[v]
      BY <2>1, <3>1 DEF Jobs
    <3> QED BY <2>1, <3>2 DEF CreatingFit, CreationInv, At
  <2>3. \A x \in entries' : x \in begun' /\ (x \in entries \/ x \notin begun)
    BY <2>1 DEF CreationInv
  <2> QED BY <1>0, <2>1, <2>2, <2>3, CreationStart DEF TypeInv
<1>2. CASE \E w \in Workers, e \in Entries : CreateEntry(w, e)
  BY <1>1, <1>2
<1>3. CASE ~\E w \in Workers, e \in Entries : CreateEntry(w, e)
  <2>0. CreatingStays
    BY <1>3, BeginningNext DEF CreatingStays
  <2>1. ASSUME NEW w \in Workers, Call(w), setup' = setup, UNCHANGED <<begun, created>>,
               entries' \subseteq entries
        PROVE  CreationInv'
    <3>1. CreatingFit'
      BY <2>0, <2>1, CreatingKept DEF CreationInv
    <3>2. \A x \in entries' : x \in begun' /\ (x \in entries \/ x \notin begun)
      BY <2>1 DEF CreationInv
    <3> QED BY <1>0, <2>1, <3>1, <3>2, CreationStart DEF TypeInv, Call
  <2>2. ASSUME UNCHANGED <<entries, saved, save, begun, created>>,
               \/ UNCHANGED bucket
               \/ \E m \in Msgs, v \in {Absent, Present} :
                    bucket' = [bucket EXCEPT ![QueueObject(m)] = v]
        PROVE  CreationInv'
    <3>1. \A e \in Entries : bucket'[EntryObject(e)] = bucket[EntryObject(e)]
      <4>1. CASE UNCHANGED bucket
        BY <4>1
      <4>2. ASSUME NEW m \in Msgs, NEW v \in {Absent, Present},
                   bucket' = [bucket EXCEPT ![QueueObject(m)] = v]
            PROVE  \A e \in Entries : bucket'[EntryObject(e)] = bucket[EntryObject(e)]
        <5>1. \A e \in Entries : EntryObject(e) # QueueObject(m) /\ EntryObject(e) \in Objects
          BY ObjectNames
        <5> QED BY <4>2, <5>1, BucketPutIs DEF TypeInv
      <4> QED BY <2>2, <4>1, <4>2
    <3> QED BY <2>0, <2>2, <3>1, CreationQuiet
  <2>3. ASSUME NEW w \in Workers, Enqueues(w)
        PROVE  CreationInv'
    <3>1. Msg(w) \in Msgs
      BY <2>3, EnqueueIs, JobFields DEF WithMessage, Msg
    <3>2. CASE \E pc \in {"enqueuing", "requeuing", "puttingBack", "returning"} :
                 AppendAndSave(w, pc)
      BY <2>1, <3>2 DEF AppendAndSave, AppendMessage, env, told
    <3>3. CASE \E pc \in {"idle", "requeue"} :
                 PutObject(w, pc) /\ UNCHANGED <<handed, acked, created, removed, lost>>
      BY <2>2, <3>1, <3>3 DEF PutObject, PutMessage, memory, env
    <3>4. CASE \E pc \in {"abort", "dequeue", "idle"} : PutFails(w, pc)
      BY <2>2, <3>1, <3>4 DEF PutFails, PutMessage, memory, env, told
    <3> QED BY <2>3, <3>2, <3>3, <3>4, EnqueueIs
  <2>4. ASSUME NEW w \in Workers,
               \/ Register(w) \/ RegisterReplay(w) \/ Abort(w) \/ Dequeue(w) \/ Claim(w)
               \/ \E e : RemoveEntry(w, e)
        PROVE  CreationInv'
    BY <2>1, <2>4 DEF Register, RegisterReplay, Abort, Dequeue, Claim, RemoveEntry,
       CreateRecord, CountReplay, AbortRecord, TakeHead, Lease, env, told
  <2>5. ASSUME NEW w \in Workers, Sweep(w)
        PROVE  CreationInv'
    <3>1. /\ Unlocked /\ setup' = setup /\ entries' = entries /\ UNCHANGED <<begun, created>>
          /\ UNCHANGED <<bucket, saved, save>> \/ StartSave(w)
      BY <2>5 DEF Sweep, Settle, env, told
    <3> QED BY <2>1, <2>2, <3>1 DEF Call
  <2>6. ASSUME NEW w \in Workers, NEW d, Ack(w, d) \/ Nack(w, d)
        PROVE  CreationInv'
    <3>1. /\ Unlocked /\ setup' = setup /\ entries' = entries /\ UNCHANGED <<begun, created>>
          /\ UNCHANGED <<bucket, saved, save>> \/ StartSave(w)
      BY <2>6 DEF Ack, Nack, Settles, Settle, env, told
    <3> QED BY <2>1, <2>2, <3>1 DEF Call
  <2>7. ASSUME NEW w \in Workers, NEW m,
               \/ Pull(w) \/ RequeueNext(w) \/ NothingQueued(w) \/ ReadRecord(w)
               \/ ClaimFails(w) \/ Publish(w, m) \/ Query(w, m)
        PROVE  CreationInv'
    BY <2>2, <2>7 DEF Pull, RequeueNext, NothingQueued, ReadRecord, ClaimFails, Publish,
       Query, store, memory, env, told
  <2>8. ASSUME NEW w \in Workers, DequeueObject(w) \/ DequeueFails(w)
        PROVE  CreationInv'
    BY <2>2, <2>8 DEF DequeueObject, DequeueFails, Oldest, memory, env, told
  <2>9. ASSUME NEW w \in Workers, CacheLoaded(w) \/ CacheRecord(w)
        PROVE  CreationInv'
    BY <2>2, <2>9 DEF CacheLoaded, CacheRecord, Cache, env, told
  <2>10. ASSUME NEW w \in Workers, Save(w)
         PROVE  CreationInv'
    BY <2>10, CreationSave DEF Save, env, told
  <2>11. ASSUME NEW w \in Workers, Saved(w)
         PROVE  CreationInv'
    BY <2>0, <2>11, CreationSaved
  <2>12. ASSUME NEW w \in Workers, SaveFails(w)
         PROVE  CreationInv'
    BY <2>0, <2>12, CreationFails DEF SaveFails, env, told
  <2>13. ASSUME Crash
         PROVE  CreationInv'
    BY <2>0, <2>13, CreationCrash
  <2>14. ASSUME (\E d \in Deliveries : LeaseElapses(d)) \/ UNCHANGED vars
         PROVE  CreationInv'
    BY <2>2, <2>14 DEF LeaseElapses, vars, store, memory, env, told
  <2>15. setup.workers \subseteq Workers /\ setup.entries \subseteq Entries
    BY SetupFields
  <2>16. ASSUME NEW w \in Workers, Proceed(w)
         PROVE  CreationInv'
    BY <2>3, <2>4, <2>5, <2>7, <2>8, <2>9, <2>10, <2>11, <2>16 DEF Proceed, Enqueues
  <2> QED
    BY <1>3, <2>4, <2>6, <2>7, <2>8, <2>12, <2>13, <2>14, <2>15, <2>16 DEF Next, ControlCall
<1> QED BY <1>2, <1>3

LEMMA CreationInit ==
  ASSUME Init
  PROVE  CreationInv
<1>1. \A e \in Entries : bucket[EntryObject(e)] = Absent /\ saved[EntryObject(e)] = Absent
  BY ObjectNames DEF Init, StoreInit
<1>2. Unlocked
  BY NoSaveIs DEF Init, StoreInit, Unlocked
<1>3. CreatingFit
  <2>1. Idle.pc = "idle"
    BY DEF Idle
  <2> QED BY <2>1 DEF Init, CreatingFit, At
<1> QED BY <1>1, <1>2, <1>3 DEF Init, StoreInit, CreationInv, EntryFit, InBucket

(* What a caller was told was created is found after every restart until   *)
(* its removal begins, even when saves before or after it failed.          *)
THEOREM CreatedStays == Spec => []CreatedIsDurable
<1>1. Init => TypeInv /\ CreationInv
  BY TypeInit, CreationInit
<1>2. TypeInv /\ CreationInv /\ [Next]_vars => (TypeInv /\ CreationInv)'
  BY TypeNext, CreationNext
<1>3. TypeInv /\ CreationInv => CreatedIsDurable
  BY DEF TypeInv, RestOK, CreationInv, EntryFit, CreatedIsDurable
<1> QED BY <1>1, <1>2, <1>3, PTL DEF Spec

-----------------------------------------------------------------------------
(* Deliveries in the hands of the receiver. *)

LEMMA DeliveryIs ==
  /\ \A d \in Deliveries : /\ d[1] \in Msgs /\ d[2] \in 1 .. MaxDeliveries /\ d = <<d[1], d[2]>>
  /\ \A m \in Msgs, n \in 1 .. MaxDeliveries : <<m, n>> \in Deliveries
BY DEF Deliveries

(* Delivery ids are not used again.                                        *)
MadeStays == \A m \in Msgs : made[m] <= made'[m]

LEMMA MadeKept ==
  ASSUME RestOK, RestOK', MadeStays, NEW d \in Deliveries, Made(d)
  PROVE  Made(d)'
<1>1. d[1] \in Msgs /\ d[2] \in Nat
  BY DeliveryIs, BoundAssumption
<1>2. made[d[1]] \in Nat /\ made'[d[1]] \in Nat
  BY <1>1, BoundAssumption DEF RestOK
<1> QED BY <1>1, <1>2 DEF Made, MadeStays

LEMMA LeasingIs ==
  ASSUME TypeInv, NEW w \in Workers, At(w, "leasing")
  PROVE  <<Msg(w), job[w].last>> \in Deliveries
<1>1. Msg(w) \in Msgs
  BY JobFields DEF WithMessage, At, Msg
<1>2. job[w].last \in 1 .. MaxDeliveries
  BY JobFields, BoundAssumption DEF TypeInv, JobsOK, Fits, At
<1> QED BY <1>1, <1>2, DeliveryIs

LEMMA LeasingKept ==
  ASSUME TypeInv, TypeInv', LeasingFit, LeasingStays, MadeStays
  PROVE  LeasingFit'
<1> SUFFICES ASSUME NEW w \in Workers, At(w, "leasing")'
             PROVE  Made(<<Msg(w), job[w].last>>)'
  BY DEF LeasingFit
<1>1. job'[w] = job[w]
  BY DEF LeasingStays, StaysAt, At
<1>2. At(w, "leasing")
  BY <1>1 DEF At
<1> DEFINE d == <<job[w].msg, job[w].last>>
<1>3. d \in Deliveries /\ Made(d)
  BY <1>2, LeasingIs DEF LeasingFit, Msg
<1>4. <<Msg(w), job[w].last>>' = d
  BY <1>1 DEF Msg
<1>5. d[2] <= made'[d[1]]
  <2> HIDE DEF d
  <2> QED BY <1>3, MadeKept DEF TypeInv, Made
<1> QED BY <1>4, <1>5 DEF Made, Msg

(* Leases are ended, and nothing is saved; or no lease changes.            *)
LEMMA LeaseQuiet ==
  ASSUME TypeInv, TypeInv', LeasingInv, LeasingStays, UNCHANGED <<saved, save, made, handed>>,
         leases' \subseteq leases, Unlocked \/ leases' = leases,
         \A d \in Deliveries : bucket'[LeaseObject(d)] = bucket[LeaseObject(d)]
  PROVE  LeasingInv'
<1>1. LeasingFit'
  <2>1. MadeStays
    BY BoundAssumption DEF MadeStays, TypeInv, RestOK
  <2> QED BY <2>1, LeasingKept DEF LeasingInv
<1>2. ASSUME NEW d \in Deliveries
      PROVE  LeaseFit(d)'
  BY DEF LeasingInv, LeaseFit, InBucket, Unlocked, Made
<1> QED BY <1>1, <1>2 DEF LeasingInv

(* A call begins its save, perhaps after it made or ended leases.          *)
LEMMA LeaseStart ==
  ASSUME TypeInv, TypeInv', LeasingInv, LeasingFit', NEW w \in Workers,
         Unlocked, StartSave(w), setup' = setup, MadeStays, handed' = handed,
         \A d \in leases' : Made(d)' /\ (d \in leases \/ ~Made(d))
  PROVE  LeasingInv'
<1>1. /\ save'.by = w /\ save'.desired = Wanted' /\ save'.puts = Differs(Wanted')
      /\ save'.deletes = Gone(Wanted') /\ UNCHANGED <<bucket, saved>>
  BY StartIs DEF TypeInv, MemoryOK
<1>2. ASSUME NEW d \in Deliveries
      PROVE  LeaseFit(d)'
  <2> DEFINE o == LeaseObject(d)
  <2>1. save'.desired[o] = IsIn(leases', d)
    <3>1. record' \in [Msgs -> Records \cup {Absent}]
      BY <1>1 DEF TypeInv, MemoryOK
    <3> QED BY <1>1, <3>1, WantedNext
  <2>2. /\ o \in save'.puts <=> save'.desired[o] # Absent /\ saved[o] # save'.desired[o]
        /\ o \in save'.deletes <=> save'.desired[o] = Absent /\ saved[o] # Absent
    BY <1>1, ListsAre, ObjectNames
  <2>3. d \in leases' /\ saved[o] # Absent => bucket[o] # Absent
    BY DEF LeasingInv, LeaseFit, InBucket
  <2>4. bucket[o] # Absent \/ saved[o] # Absent \/ d \in leases' \cup handed => Made(d)'
    BY MadeKept DEF LeasingInv, LeaseFit, InBucket, TypeInv
  <2>5. d \in handed /\ d \in leases' => bucket[o] # Absent
    BY DEF LeasingInv, LeaseFit, InBucket
  <2> HIDE DEF o
  <2>6. d \in leases' => o \in save'.puts \/ bucket[o] # Absent
    BY <2>1, <2>2, <2>3, IsInIs
  <2>7. o \in save'.deletes => d \notin leases'
    BY <2>1, <2>2, IsInIs
  <2> QED
    BY <1>1, <2>1, <2>3, <2>4, <2>5, <2>6, <2>7 DEF LeaseFit, InBucket, o
<1> QED BY <1>2 DEF LeasingInv

(* A step of a save that leaves memory alone: the object it writes gets    *)
(* what is wanted of it.                                                   *)
LEMMA LeaseSave ==
  ASSUME TypeInv, LeasingInv, NEW w \in Workers, NEW o \in NextCalls, SaveObject(w, o),
         UNCHANGED <<job, made, handed>>
  PROVE  LeasingInv'
<1>1. /\ save.by = w /\ save'.by = w /\ save'.desired = save.desired
      /\ save'.puts = save.puts \ {o} /\ save'.deletes = save.deletes \ {o}
      /\ bucket'[o] = save.desired[o] /\ \A p \in Objects : p # o => bucket'[p] = bucket[p]
      /\ leases' = leases /\ saved' = saved /\ w # "nobody"
  BY SaveObjectIs, WorkersAssumption DEF TypeInv, memory
<1>2. ASSUME NEW d \in Deliveries
      PROVE  LeaseFit(d)'
  <2>1. LeaseObject(d) \in Objects
    BY ObjectNames
  <2>2. save.desired[LeaseObject(d)] = IsIn(leases, d) /\ LeaseFit(d)
    BY <1>1 DEF LeasingInv, LeaseFit, Unlocked
  <2>3. CASE o = LeaseObject(d)
    BY <1>1, <2>2, <2>3, IsInIs DEF LeaseFit, InBucket, Unlocked, Made
  <2>4. CASE o # LeaseObject(d)
    BY <1>1, <2>1, <2>2, <2>4 DEF LeaseFit, InBucket, Unlocked, Made
  <2> QED BY <2>3, <2>4
<1>3. LeasingFit'
  BY DEF LeasingInv, LeasingFit, At, Msg, Made
<1> QED BY <1>2, <1>3 DEF LeasingInv

(* The receiver is handed a delivery when the save of its lease is over.   *)
LEMMA LeaseSaved ==
  ASSUME TypeInv, TypeInv', LeasingInv, NEW w \in Workers, Saved(w), LeasingStays
  PROVE  LeasingInv'
<1>1. /\ save.by = w /\ save'.by = "nobody" /\ saved' = save.desired
      /\ save.puts = {} /\ save.deletes = {} /\ leases' = leases /\ bucket' = bucket
      /\ w # "nobody" /\ made' = made
  BY FinishIs, WorkersAssumption DEF Saved, TypeInv, env, memory
<1>2. /\ handed' \subseteq handed \cup {<<Msg(w), job[w].last>>}
      /\ handed' = handed \/ At(w, "leasing")
  BY DEF Saved, Answer, AddIf
<1>3. At(w, "leasing") => Made(<<Msg(w), job[w].last>>)
  BY DEF LeasingInv, LeasingFit
<1>4. MadeStays
  BY <1>1, BoundAssumption DEF MadeStays, TypeInv, RestOK
<1>5. LeasingFit'
  BY <1>4, LeasingKept DEF LeasingInv
<1>6. ASSUME NEW d \in Deliveries
      PROVE  LeaseFit(d)'
  <2>1. /\ save.desired[LeaseObject(d)] = IsIn(leases, d) /\ LeaseFit(d)
        /\ d \in leases => InBucket(LeaseObject(d))
    BY <1>1 DEF LeasingInv, LeaseFit, Unlocked
  <2>2. d \in handed' => Made(d)
    BY <1>2, <1>3, <2>1 DEF LeaseFit
  <2> QED BY <1>1, <2>1, <2>2, IsInIs DEF LeaseFit, InBucket, Unlocked, Made
<1> QED BY <1>5, <1>6 DEF LeasingInv

LEMMA LeaseFails ==
  ASSUME TypeInv, TypeInv', LeasingInv, NEW w \in Workers, FailSave(w), LeasingStays,
         UNCHANGED <<made, handed>>
  PROVE  LeasingInv'
<1>1. /\ save.by = w /\ save'.by = "nobody" /\ leases' = leases /\ saved' = saved
      /\ w # "nobody"
  BY FailIs, WorkersAssumption DEF TypeInv, memory
<1>2. PICK o \in NextCalls : /\ bucket'[o] \in {bucket[o], save.desired[o]}
                             /\ \A p \in Objects : p # o => bucket'[p] = bucket[p]
  BY FailIs DEF TypeInv
<1>3. MadeStays
  BY BoundAssumption DEF MadeStays, TypeInv, RestOK
<1>4. LeasingFit'
  BY <1>3, LeasingKept DEF LeasingInv
<1>5. ASSUME NEW d \in Deliveries
      PROVE  LeaseFit(d)'
  <2>1. LeaseObject(d) \in Objects
    BY ObjectNames
  <2>2. save.desired[LeaseObject(d)] = IsIn(leases, d) /\ LeaseFit(d)
    BY <1>1 DEF LeasingInv, LeaseFit, Unlocked
  <2>3. CASE o = LeaseObject(d)
    BY <1>1, <1>2, <2>2, <2>3, IsInIs DEF LeaseFit, InBucket, Unlocked, Made
  <2>4. CASE o # LeaseObject(d)
    BY <1>1, <1>2, <2>1, <2>2, <2>4 DEF LeaseFit, InBucket, Unlocked, Made
  <2> QED BY <2>3, <2>4
<1> QED BY <1>4, <1>5 DEF LeasingInv

(* A start finds the leases that are in the bucket, those of deliveries in *)
(* the hands of the receiver among them.                                   *)
LEMMA LeaseCrash ==
  ASSUME TypeInv, TypeInv', LeasingInv, Crash, LeasingStays
  PROVE  LeasingInv'
<1>1. /\ Load /\ setup' = setup /\ UNCHANGED <<made, handed>>
  BY DEF Crash, env
<1>2. /\ MemoryOK' /\ Unlocked' /\ saved' = Wanted' /\ leases' = LoadedLeases
      /\ bucket' = bucket
  BY <1>1, LoadIs DEF TypeInv
<1>3. MadeStays
  BY <1>1, BoundAssumption DEF MadeStays, TypeInv, RestOK
<1>4. LeasingFit'
  BY <1>3, LeasingKept DEF LeasingInv
<1>5. ASSUME NEW d \in Deliveries
      PROVE  LeaseFit(d)'
  <2>1. saved'[LeaseObject(d)] = IsIn(leases', d)
    <3>1. record' \in [Msgs -> Records \cup {Absent}]
      BY <1>2 DEF MemoryOK
    <3> QED BY <1>1, <1>2, <3>1, WantedNext
  <2>2. d \in leases' <=> InBucket(LeaseObject(d))
    BY <1>2 DEF LoadedLeases
  <2>3. LeaseFit(d)
    BY DEF LeasingInv
  <2> QED BY <1>1, <1>2, <2>1, <2>2, <2>3, IsInIs DEF LeaseFit, InBucket, Made
<1> QED BY <1>4, <1>5 DEF LeasingInv

(* A claim makes a delivery id that was not there.                         *)
LEMMA LeaseClaim ==
  ASSUME TypeInv, TypeInv', LeasingInv, NEW w \in Workers, Claim(w)
  PROVE  LeasingInv'
<1> DEFINE m == job[w].msg
           n == made[m] + 1
           d == <<m, n>>
<1>1. /\ made' = [made EXCEPT ![m] = n] /\ leases' = leases \cup {d} /\ handed' = handed
      /\ job' = [job EXCEPT ![w] = [job[w] EXCEPT !.pc = "leasing", !.last = n]]
      /\ Unlocked /\ StartSave(w) /\ setup' = setup
  BY DEF Claim, Call, Lease, Msg, told
<1>2. /\ m \in Msgs /\ made[m] < setup.deliveries /\ setup.deliveries \in 0 .. MaxDeliveries
      /\ made \in [Msgs -> 0 .. MaxDeliveries] /\ MaxDeliveries \in Nat
  BY JobFields, SetupFields, BoundAssumption
  DEF Claim, At, Msg, WithMessage, TypeInv, RestOK
<1>3. n \in 1 .. MaxDeliveries /\ d \in Deliveries
  BY <1>2, DeliveryIs
<1>4. made'[m] = n /\ \A k \in Msgs : k # m => made'[k] = made[k]
  BY <1>1, <1>2
<1>5. MadeStays
  BY <1>2, <1>4 DEF MadeStays
<1>6. d[2] <= made'[d[1]] /\ ~Made(d)
  BY <1>2, <1>3, <1>4 DEF Made
<1>7. job'[w].pc = "leasing" /\ job'[w].msg = m /\ job'[w].last = n
  BY <1>1 DEF TypeInv, JobsOK, Jobs
<1>8. \A v \in Workers : v # w => job'[v] = job[v]
  BY <1>1 DEF TypeInv, JobsOK
<1> HIDE DEF m, n
<1>9. LeasingFit'
  <2> SUFFICES ASSUME NEW v \in Workers, At(v, "leasing")'
               PROVE  Made(<<Msg(v), job[v].last>>)'
    BY DEF LeasingFit
  <2>1. CASE v = w
    <3>1. <<job'[w].msg, job'[w].last>> = d
      BY <1>7
    <3> QED BY <1>6, <2>1, <3>1 DEF Msg, Made
  <2>2. CASE v # w
    <3>1. job'[v] = job[v] /\ At(v, "leasing")
      BY <1>8, <2>2 DEF At
    <3>2. <<Msg(v), job[v].last>> \in Deliveries /\ Made(<<Msg(v), job[v].last>>)
      BY <3>1, LeasingIs DEF LeasingInv, LeasingFit
    <3>3. <<job[v].msg, job[v].last>>[2] <= made'[<<job[v].msg, job[v].last>>[1]]
      <4> DEFINE x == <<job[v].msg, job[v].last>>
      <4>1. x \in Deliveries /\ Made(x)
        BY <3>2 DEF Msg
      <4> HIDE DEF x
      <4>2. x[2] <= made'[x[1]]
        BY <1>5, <4>1, MadeKept DEF TypeInv, Made
      <4> QED BY <4>2 DEF x
    <3> QED BY <3>1, <3>3 DEF Made, Msg
  <2> QED BY <2>1, <2>2
<1>10. \A x \in leases' : Made(x)' /\ (x \in leases \/ ~Made(x))
  <2> SUFFICES ASSUME NEW x \in leases'
               PROVE  Made(x)' /\ (x \in leases \/ ~Made(x))
    OBVIOUS
  <2>1. CASE x = d
    BY <1>6, <2>1 DEF Made
  <2>2. CASE x # d
    <3>1. x \in leases /\ x \in Deliveries
      BY <1>1, <2>2 DEF TypeInv, MemoryOK
    <3>2. Made(x)
      BY <3>1 DEF LeasingInv, LeaseFit
    <3> QED BY <1>5, <3>1, <3>2, MadeKept DEF TypeInv
  <2> QED BY <2>1, <2>2
<1> QED BY <1>1, <1>5, <1>9, <1>10, LeaseStart

LEMMA LeaseNext ==
  ASSUME TypeInv, LeasingInv, [Next]_vars
  PROVE  LeasingInv'
<1>0. TypeInv'
  BY TypeNext
<1>1. CASE \E w \in Workers : Claim(w)
  BY <1>0, <1>1, LeaseClaim
<1>2. CASE ~\E w \in Workers : Claim(w)
  <2>0. LeasingStays
    BY <1>2, BeginningNext DEF LeasingStays
  <2>1. made' = made => MadeStays
    BY BoundAssumption DEF MadeStays, TypeInv, RestOK
  <2>2. ASSUME NEW w \in Workers, Call(w), setup' = setup, UNCHANGED <<made, handed>>,
               leases' \subseteq leases
        PROVE  LeasingInv'
    <3>1. LeasingFit'
      BY <1>0, <2>0, <2>1, <2>2, LeasingKept DEF LeasingInv
    <3>2. \A d \in leases' : Made(d)' /\ (d \in leases \/ ~Made(d))
      BY <2>2 DEF LeasingInv, LeaseFit, Made, TypeInv, MemoryOK
    <3> QED BY <1>0, <2>1, <2>2, <3>1, <3>2, LeaseStart DEF Call
  <2>3. ASSUME UNCHANGED <<saved, save, made, handed>>,
               leases' \subseteq leases, Unlocked \/ leases' = leases,
               \/ UNCHANGED bucket
               \/ \E m \in Msgs, v \in {Absent, Present} :
                    bucket' = [bucket EXCEPT ![QueueObject(m)] = v]
        PROVE  LeasingInv'
    <3>1. \A d \in Deliveries : bucket'[LeaseObject(d)] = bucket[LeaseObject(d)]
      <4>1. CASE UNCHANGED bucket
        BY <4>1
      <4>2. ASSUME NEW m \in Msgs, NEW v \in {Absent, Present},
                   bucket' = [bucket EXCEPT ![QueueObject(m)] = v]
            PROVE  \A d \in Deliveries : bucket'[LeaseObject(d)] = bucket[LeaseObject(d)]
        <5>1. \A d \in Deliveries : LeaseObject(d) # QueueObject(m) /\ LeaseObject(d) \in Objects
          BY ObjectNames
        <5> QED BY <4>2, <5>1, BucketPutIs DEF TypeInv
      <4> QED BY <2>3, <4>1, <4>2
    <3> QED BY <1>0, <2>0, <2>3, <3>1, LeaseQuiet
  <2>4. ASSUME NEW w \in Workers, Enqueues(w)
        PROVE  LeasingInv'
    <3>1. Msg(w) \in Msgs
      BY <2>4, EnqueueIs, JobFields DEF WithMessage, Msg
    <3>2. CASE \E pc \in {"enqueuing", "requeuing", "puttingBack", "returning"} :
                 AppendAndSave(w, pc)
      BY <2>2, <3>2 DEF AppendAndSave, AppendMessage, env, told
    <3>3. CASE \E pc \in {"idle", "requeue"} :
                 PutObject(w, pc) /\ UNCHANGED <<handed, acked, created, removed, lost>>
      BY <2>3, <3>1, <3>3 DEF PutObject, PutMessage, memory, env
    <3>4. CASE \E pc \in {"abort", "dequeue", "idle"} : PutFails(w, pc)
      BY <2>3, <3>1, <3>4 DEF PutFails, PutMessage, memory, env, told
    <3> QED BY <2>4, <3>2, <3>3, <3>4, EnqueueIs
  <2>5. ASSUME NEW w \in Workers,
               \/ Register(w) \/ RegisterReplay(w) \/ Abort(w) \/ Dequeue(w)
               \/ \E e : CreateEntry(w, e) \/ RemoveEntry(w, e)
        PROVE  LeasingInv'
    BY <2>2, <2>5 DEF Register, RegisterReplay, Abort, Dequeue, CreateEntry, RemoveEntry,
       CreateRecord, CountReplay, AbortRecord, TakeHead, env, told
  <2>6. ASSUME NEW w \in Workers,
               Sweep(w) \/ \E d : Ack(w, d) \/ Nack(w, d)
        PROVE  LeasingInv'
    <3>1. /\ Unlocked /\ setup' = setup /\ leases' \subseteq leases /\ UNCHANGED <<made, handed>>
          /\ UNCHANGED <<bucket, saved, save>> \/ StartSave(w)
      BY <2>6 DEF Sweep, Ack, Nack, Settles, Settle, env, told
    <3> QED BY <2>2, <2>3, <3>1 DEF Call
  <2>7. ASSUME NEW w \in Workers, NEW m,
               \/ Pull(w) \/ RequeueNext(w) \/ NothingQueued(w) \/ ReadRecord(w)
               \/ ClaimFails(w) \/ Publish(w, m) \/ Query(w, m)
        PROVE  LeasingInv'
    BY <2>3, <2>7 DEF Pull, RequeueNext, NothingQueued, ReadRecord, ClaimFails, Publish,
       Query, store, memory, env, told
  <2>8. ASSUME NEW w \in Workers, DequeueObject(w) \/ DequeueFails(w)
        PROVE  LeasingInv'
    BY <2>3, <2>8 DEF DequeueObject, DequeueFails, Oldest, memory, env, told
  <2>9. ASSUME NEW w \in Workers, CacheLoaded(w) \/ CacheRecord(w)
        PROVE  LeasingInv'
    BY <2>3, <2>9 DEF CacheLoaded, CacheRecord, Cache, env, told
  <2>10. ASSUME NEW w \in Workers, Save(w)
         PROVE  LeasingInv'
    BY <2>10, LeaseSave DEF Save, env, told
  <2>11. ASSUME NEW w \in Workers, Saved(w)
         PROVE  LeasingInv'
    BY <1>0, <2>0, <2>11, LeaseSaved
  <2>12. ASSUME NEW w \in Workers, SaveFails(w)
         PROVE  LeasingInv'
    BY <1>0, <2>0, <2>12, LeaseFails DEF SaveFails, env, told
  <2>13. ASSUME Crash
         PROVE  LeasingInv'
    BY <1>0, <2>0, <2>13, LeaseCrash
  <2>14. ASSUME (\E d \in Deliveries : LeaseElapses(d)) \/ UNCHANGED vars
         PROVE  LeasingInv'
    BY <2>3, <2>14 DEF LeaseElapses, vars, store, memory, env, told
  <2>15. setup.workers \subseteq Workers
    BY SetupFields
  <2>16. ASSUME NEW w \in Workers, Proceed(w)
         PROVE  LeasingInv'
    BY <1>2, <2>4, <2>5, <2>6, <2>7, <2>8, <2>9, <2>10, <2>11, <2>16 DEF Proceed, Enqueues
  <2> QED
    BY <2>5, <2>6, <2>7, <2>8, <2>12, <2>13, <2>14, <2>15, <2>16 DEF Next, ControlCall
<1> QED BY <1>1, <1>2

LEMMA LeaseInit ==
  ASSUME Init
  PROVE  LeasingInv
<1>1. \A d \in Deliveries : bucket[LeaseObject(d)] = Absent /\ saved[LeaseObject(d)] = Absent
  BY ObjectNames DEF Init, StoreInit
<1>2. Unlocked
  BY NoSaveIs DEF Init, StoreInit, Unlocked
<1>3. LeasingFit
  <2>1. Idle.pc = "idle"
    BY DEF Idle
  <2> QED BY <2>1 DEF Init, LeasingFit, At
<1> QED BY <1>1, <1>2, <1>3 DEF Init, StoreInit, LeasingInv, LeaseFit, InBucket

(* A delivery in the hands of the receiver is found again after every      *)
(* restart, whichever saves fail.                                          *)
THEOREM HandedStays == Spec => []HandedIsDurable
<1>1. Init => TypeInv /\ LeasingInv
  BY TypeInit, LeaseInit
<1>2. TypeInv /\ LeasingInv /\ [Next]_vars => (TypeInv /\ LeasingInv)'
  BY TypeNext, LeaseNext
<1>3. TypeInv /\ LeasingInv => HandedIsDurable
  BY DEF TypeInv, RestOK, LeasingInv, LeaseFit, HandedIsDurable
<1> QED BY <1>1, <1>2, <1>3, PTL DEF Spec

(* What the hub has answered for, a delivery or an entry, is in the bucket *)
(* until its removal begins (persistAll, LeaseMessage).                    *)
THEOREM AnswersStay == Spec => []AnswersAreDurable
<1>1. HandedIsDurable /\ CreatedIsDurable => AnswersAreDurable
  BY DEF AnswersAreDurable
<1> QED BY <1>1, HandedStays, CreatedStays, PTL

-----------------------------------------------------------------------------
(* Places: the objects, and what the calls of the memory store do to them. *)

LEMMA CustodyIs ==
  /\ \A d \in Deliveries : /\ LeaseObject(d) \in Custody /\ LeaseObject(d)[1] = 1
                           /\ LeaseObject(d)[2] = d /\ Of(LeaseObject(d)) = d[1]
                           /\ d[1] \in Msgs
  /\ \A m \in Msgs : /\ QueueObject(m) \in Custody /\ QueueObject(m)[1] = 3
                     /\ QueueObject(m)[2] = m /\ Of(QueueObject(m)) = m
  /\ \A o \in Custody :
       /\ o \in Objects /\ Of(o) \in Msgs
       /\ \/ o[1] = 1 /\ o[2] \in Deliveries /\ o = LeaseObject(o[2])
          \/ o[1] = 3 /\ o[2] \in Msgs /\ o = QueueObject(o[2])
       /\ \A m \in Msgs : o # RecordObject(m)
<1>1. ASSUME NEW d \in Deliveries
      PROVE  /\ LeaseObject(d) \in Custody /\ LeaseObject(d)[1] = 1
             /\ LeaseObject(d)[2] = d /\ Of(LeaseObject(d)) = d[1]
             /\ d[1] \in Msgs
  BY ObjectNames DEF Custody, Of, Deliveries
<1>2. ASSUME NEW m \in Msgs
      PROVE  /\ QueueObject(m) \in Custody /\ QueueObject(m)[1] = 3
             /\ QueueObject(m)[2] = m /\ Of(QueueObject(m)) = m
  BY ObjectNames DEF Custody, Of
<1>3. ASSUME NEW o \in Custody
      PROVE  /\ o \in Objects /\ Of(o) \in Msgs
             /\ \/ o[1] = 1 /\ o[2] \in Deliveries /\ o = LeaseObject(o[2])
                \/ o[1] = 3 /\ o[2] \in Msgs /\ o = QueueObject(o[2])
             /\ \A m \in Msgs : o # RecordObject(m)
  <2>1. CASE \E d \in Deliveries : o = LeaseObject(d)
    BY <2>1, <1>1, ObjectNames
  <2>2. CASE \E m \in Msgs : o = QueueObject(m)
    BY <2>2, <1>2, ObjectNames
  <2> QED BY <2>1, <2>2 DEF Custody
<1> QED BY <1>1, <1>2, <1>3

LEMMA SamePlaces ==
  ASSUME UNCHANGED <<queue, leases, setup>>
  PROVE  /\ QueueFits => QueueFits'
         /\ \A o \in Custody : /\ InMemory(o)' <=> InMemory(o)
                               /\ Stored(o)' <=> Stored(o)
BY DEF InMemory, Stored, ObjectQueue, QueueFits

LEMMA AppendPlaces ==
  ASSUME MemoryOK, QueueFits, NEW m \in Msgs, ~ObjectQueue, setup' = setup,
         AppendMessage(m), ~InMemory(QueueObject(m))
  PROVE  QueueFits'
         /\ \A o \in Custody : InMemory(o)' <=> InMemory(o) \/ o = QueueObject(m)
<1>1. /\ queue \in Seq(Msgs) /\ queue' = Append(queue, m) /\ leases' = leases
      /\ m \notin ToSet(queue)
  BY CustodyIs DEF MemoryOK, AppendMessage, InMemory
<1>2. /\ DOMAIN queue' = 1 .. (Len(queue) + 1) /\ DOMAIN queue = 1 .. Len(queue)
      /\ Len(queue) \in Nat /\ queue'[Len(queue) + 1] = m
      /\ \A i \in 1 .. Len(queue) : queue'[i] = queue[i]
  BY <1>1
<1>3. \A x : x \in ToSet(queue') <=> x \in ToSet(queue) \/ x = m
  BY <1>2, ToSetIs
<1>4. QueueFits'
  <2> SUFFICES ASSUME NEW i \in DOMAIN queue', NEW j \in DOMAIN queue', queue'[i] = queue'[j]
               PROVE  i = j
    BY <1>1 DEF QueueFits, ObjectQueue
  <2>1. \A k \in 1 .. Len(queue) : queue[k] # m
    BY <1>1, <1>2, ToSetIs
  <2> QED BY <1>2, <2>1 DEF QueueFits
<1>5. ASSUME NEW o \in Custody
      PROVE  InMemory(o)' <=> InMemory(o) \/ o = QueueObject(m)
  <2>1. CASE o[1] = 1
    BY <1>1, <2>1, CustodyIs DEF InMemory
  <2>2. CASE o[1] # 1
    <3>1. o[2] \in Msgs /\ o = QueueObject(o[2]) /\ QueueObject(m)[2] = m
      BY <2>2, CustodyIs
    <3> QED BY <1>3, <2>2, <3>1 DEF InMemory, ObjectQueue
  <2> QED BY <2>1, <2>2
<1> QED BY <1>4, <1>5

LEMMA TakePlaces ==
  ASSUME MemoryOK, QueueFits, ~ObjectQueue, setup' = setup, queue # <<>>, TakeHead
  PROVE  /\ QueueFits' /\ Head(queue) \in Msgs /\ InMemory(QueueObject(Head(queue)))
         /\ \A o \in Custody : InMemory(o)' <=> InMemory(o) /\ o # QueueObject(Head(queue))
<1>1. /\ queue \in Seq(Msgs) /\ queue' = Tail(queue) /\ leases' = leases
  BY DEF MemoryOK, TakeHead
<1>2. /\ DOMAIN queue' = 1 .. (Len(queue) - 1) /\ DOMAIN queue = 1 .. Len(queue)
      /\ Len(queue) \in Nat /\ Len(queue) >= 1 /\ queue[1] = Head(queue)
      /\ Head(queue) \in Msgs
      /\ \A i \in 1 .. (Len(queue) - 1) : queue'[i] = queue[i + 1]
  BY <1>1
<1>3. \A x : x \in ToSet(queue') <=> x \in ToSet(queue) /\ x # Head(queue)
  <2> SUFFICES ASSUME NEW x
               PROVE  x \in ToSet(queue') <=> x \in ToSet(queue) /\ x # Head(queue)
    OBVIOUS
  <2>1. ASSUME x \in ToSet(queue') PROVE x \in ToSet(queue) /\ x # Head(queue)
    <3>1. PICK i \in 1 .. (Len(queue) - 1) : queue'[i] = x
      BY <1>2, <2>1, ToSetIs
    <3>2. i + 1 \in DOMAIN queue /\ 1 \in DOMAIN queue /\ i + 1 # 1
      BY <1>2, <3>1
    <3>3. queue[i + 1] = x /\ queue[i + 1] # queue[1]
      BY <1>2, <3>1, <3>2 DEF QueueFits
    <3> QED BY <1>2, <3>2, <3>3, ToSetIs
  <2>2. ASSUME x \in ToSet(queue), x # Head(queue) PROVE x \in ToSet(queue')
    <3>1. PICK i \in 1 .. Len(queue) : queue[i] = x
      BY <1>2, <2>2, ToSetIs
    <3>2. i - 1 \in 1 .. (Len(queue) - 1) /\ (i - 1) + 1 = i
      BY <1>2, <2>2, <3>1
    <3>3. queue'[i - 1] = x
      BY <1>2, <3>1, <3>2
    <3> QED BY <1>2, <3>2, <3>3, ToSetIs
  <2> QED BY <2>1, <2>2
<1>4. QueueFits'
  <2> SUFFICES ASSUME NEW i \in DOMAIN queue', NEW j \in DOMAIN queue', queue'[i] = queue'[j]
               PROVE  i = j
    BY DEF QueueFits, ObjectQueue
  <2>1. i + 1 \in DOMAIN queue /\ j + 1 \in DOMAIN queue /\ i \in Nat /\ j \in Nat
    BY <1>2
  <2>2. i + 1 = j + 1
    BY <1>2, <2>1 DEF QueueFits
  <2> QED BY <2>1, <2>2
<1>5. Head(queue) \in ToSet(queue)
  BY <1>2, ToSetIs
<1>6. ASSUME NEW o \in Custody
      PROVE  InMemory(o)' <=> InMemory(o) /\ o # QueueObject(Head(queue))
  <2>1. CASE o[1] = 1
    BY <1>1, <1>2, <2>1, CustodyIs DEF InMemory
  <2>2. CASE o[1] # 1
    <3>1. o[2] \in Msgs /\ o = QueueObject(o[2]) /\ QueueObject(Head(queue))[2] = Head(queue)
      BY <1>2, <2>2, CustodyIs
    <3> QED BY <1>3, <2>2, <3>1 DEF InMemory, ObjectQueue
  <2> QED BY <2>1, <2>2
<1> QED BY <1>2, <1>4, <1>5, <1>6, CustodyIs DEF InMemory

LEMMA LeasePlaces ==
  ASSUME QueueFits, NEW d \in Deliveries, setup' = setup, Lease(d)
  PROVE  QueueFits'
         /\ \A o \in Custody : InMemory(o)' <=> InMemory(o) \/ o = LeaseObject(d)
<1>1. leases' = leases \cup {d} /\ queue' = queue
  BY DEF Lease
<1>2. ASSUME NEW o \in Custody
      PROVE  InMemory(o)' <=> InMemory(o) \/ o = LeaseObject(d)
  <2>1. CASE o[1] = 1
    <3>1. o = LeaseObject(o[2]) /\ LeaseObject(d)[2] = d
      BY <2>1, CustodyIs
    <3> QED BY <1>1, <2>1, <3>1 DEF InMemory
  <2>2. CASE o[1] # 1
    BY <1>1, <2>2, CustodyIs DEF InMemory, ObjectQueue
  <2> QED BY <2>1, <2>2
<1> QED BY <1>1, <1>2 DEF QueueFits, ObjectQueue

LEMMA SettlePlaces ==
  ASSUME QueueFits, NEW D, NEW status, setup' = setup, Settle(D, status)
  PROVE  QueueFits'
         /\ \A o \in Custody : InMemory(o)' <=> InMemory(o) /\ ~(o[1] = 1 /\ o[2] \in D)
<1>1. leases' = leases \ D /\ queue' = queue
  BY DEF Settle
<1> QED BY <1>1 DEF InMemory, ObjectQueue, QueueFits

-----------------------------------------------------------------------------
(* Owners: what is found or traced is in nobody's hands, so taking it,     *)
(* putting it back and handing it on leave each message with one.          *)

LEMMA FoundIsTraced == \A o \in Custody : Found(o) => Traced(o)
BY DEF Found, Traced

LEMMA AroundIs ==
  /\ \A o \in Custody : Traced(o) => Around(Of(o))
  /\ \A w \in Workers, m \in Msgs : Owns(w, m) => Around(m)
BY DEF Around

(* A request w takes what it finds, begins with a new message, or drops    *)
(* what it has; nothing gets a new place.                                  *)
LEMMA TakeKeeps ==
  ASSUME OnePlace, NEW w \in Workers, OthersWait(w), QueueFits', BatchFits(job'[w]),
         NEW fresh \in Msgs \cup {0}, ~Around(fresh),
         \A o \in Custody : (Traced(o)' => Traced(o)) /\ (Found(o)' => Found(o)),
         \A m \in Msgs : Owns(w, m)' =>
           \/ Owns(w, m) \/ m = fresh
           \/ \E o \in Custody : Of(o) = m /\ Found(o) /\ ~Found(o)',
         \A o \in Custody : Owns(w, Of(o))' =>
           \/ Taking(w)' \/ ~Traced(o)' \/ (Owns(w, Of(o)) /\ ~Taking(w)) \/ Of(o) = fresh
  PROVE  OnePlace' /\ \A m \in Msgs : Around(m)' => Around(m) \/ m = fresh
<1>1. \A v \in Workers, m \in Msgs : v # w => (Owns(v, m)' <=> Owns(v, m))
  BY DEF OthersWait, Owns, Carries, Msg
<1>2. \A v \in Workers : v # w => (Taking(v)' <=> Taking(v))
  BY DEF OthersWait, Taking
<1>3. \A o \in Custody : Of(o) \in Msgs
  BY CustodyIs
<1>4. OneTrace'
  BY DEF OnePlace, OneTrace
<1>5. ASSUME NEW v \in Workers, NEW m \in Msgs, v # w, Owns(v, m)', Owns(w, m)'
      PROVE  FALSE
  <2>1. Owns(v, m) /\ Around(m)
    BY <1>1, <1>5, AroundIs
  <2>2. ~Owns(w, m) /\ m # fresh
    BY <1>5, <2>1 DEF OnePlace, OneOwner
  <2>3. PICK o \in Custody : Of(o) = m /\ Found(o)
    BY <1>5, <2>2
  <2> QED BY <2>1, <2>3 DEF OnePlace, OwnedIsTaken
<1>6. OneOwner'
  BY <1>1, <1>5 DEF OnePlace, OneOwner
<1>7. ASSUME NEW v \in Workers, v # w
      PROVE  OwnedIsTaken(v)' /\ BatchFits(job'[v])
  BY <1>1, <1>2, <1>3, <1>7 DEF OnePlace, OwnedIsTaken, OthersWait
<1>8. ASSUME NEW o \in Custody, Owns(w, Of(o))'
      PROVE  ~Found(o)' /\ (Taking(w)' \/ ~Traced(o)')
  <2>1. Traced(o) => Around(Of(o))
    BY AroundIs
  <2>2. CASE Of(o) = fresh
    BY <2>1, <2>2, FoundIsTraced
  <2>3. CASE Owns(w, Of(o)) /\ Of(o) # fresh
    BY <1>8, <2>3 DEF OnePlace, OwnedIsTaken
  <2>4. CASE ~Owns(w, Of(o)) /\ Of(o) # fresh
    <3>1. PICK p \in Custody : Of(p) = Of(o) /\ Found(p) /\ ~Found(p)'
      BY <1>3, <1>8, <2>4
    <3>2. Found(o)' => o = p
      BY <3>1, FoundIsTraced DEF OnePlace, OneTrace
    <3> QED BY <1>8, <2>4, <3>1, <3>2
  <2> QED BY <2>2, <2>3, <2>4
<1>9. OwnedIsTaken(w)'
  BY <1>8 DEF OwnedIsTaken
<1>10. ASSUME NEW m \in Msgs, Around(m)'
       PROVE  Around(m) \/ m = fresh
  <2>1. CASE \E o \in Custody : Of(o) = m /\ Traced(o)'
    BY <2>1, AroundIs
  <2>2. CASE \E v \in Workers : Owns(v, m)'
    <3>1. PICK v \in Workers : Owns(v, m)'
      BY <2>2
    <3>2. CASE v # w
      BY <1>1, <3>1, <3>2, AroundIs
    <3>3. CASE v = w
      BY <3>1, <3>3, AroundIs, FoundIsTraced
    <3> QED BY <3>2, <3>3
  <2> QED BY <1>10, <2>1, <2>2 DEF Around
<1> QED BY <1>4, <1>6, <1>7, <1>9, <1>10 DEF OnePlace

(* A request w puts what it has into the place p.                          *)
LEMMA PutKeeps ==
  ASSUME OnePlace, NEW w \in Workers, OthersWait(w), QueueFits', BatchFits(job'[w]),
         NEW p \in Custody, Owns(w, Of(p)), ~Taking(w), ~Owns(w, Of(p))',
         \A o \in Custody : o # p => (Traced(o)' => Traced(o)) /\ (Found(o)' => Found(o)),
         \A m \in Msgs : Owns(w, m)' => Owns(w, m)
  PROVE  OnePlace' /\ \A m \in Msgs : Around(m)' => Around(m)
<1>1. \A v \in Workers, m \in Msgs : v # w => (Owns(v, m)' <=> Owns(v, m))
  BY DEF OthersWait, Owns, Carries, Msg
<1>2. \A v \in Workers : v # w => (Taking(v)' <=> Taking(v))
  BY DEF OthersWait, Taking
<1>3. Of(p) \in Msgs /\ \A o \in Custody : Of(o) \in Msgs
  BY CustodyIs
<1>4. OneTrace'
  <2>1. \A o \in Custody : Of(o) = Of(p) => ~Traced(o)
    BY DEF OnePlace, OwnedIsTaken
  <2>2. \A o \in Custody : o # p /\ Of(o) = Of(p) => ~Traced(o)'
    BY <2>1
  <2> QED BY <2>2 DEF OnePlace, OneTrace
<1>5. \A v \in Workers : ~Owns(v, Of(p))'
  BY <1>1, <1>3 DEF OnePlace, OneOwner
<1>6. OneOwner'
  BY <1>1 DEF OnePlace, OneOwner
<1>7. ASSUME NEW v \in Workers
      PROVE  OwnedIsTaken(v)' /\ BatchFits(job'[v])
  <2>1. BatchFits(job'[v])
    BY DEF OnePlace, OthersWait
  <2>2. ASSUME NEW o \in Custody, Owns(v, Of(o))'
        PROVE  ~Found(o)' /\ (Taking(v)' \/ ~Traced(o)')
    <3>1. o # p /\ Owns(v, Of(o))
      BY <1>1, <1>3, <1>5, <2>2
    <3>2. ~Found(o)' /\ (Taking(v) \/ ~Traced(o)')
      BY <3>1 DEF OnePlace, OwnedIsTaken
    <3> QED BY <1>2, <3>1, <3>2 DEF OnePlace, OwnedIsTaken
  <2> QED BY <2>1, <2>2 DEF OwnedIsTaken
<1>8. ASSUME NEW m \in Msgs, Around(m)'
      PROVE  Around(m)
  <2>1. CASE \E o \in Custody : Of(o) = m /\ Traced(o)'
    BY <2>1, AroundIs
  <2>2. CASE \E v \in Workers : Owns(v, m)'
    BY <1>1, <2>2, AroundIs
  <2> QED BY <1>8, <2>1, <2>2 DEF Around
<1> QED BY <1>4, <1>6, <1>7, <1>8 DEF OnePlace

LEMMA NothingIsZero ==
  ASSUME TypeInv
  PROVE  ~Around(0)
<1>1. \A o \in Custody : Of(o) # 0
  BY CustodyIs, MsgsAssumption
<1>2. ASSUME NEW w \in Workers, Owns(w, 0)
      PROVE  FALSE
  <2>1. 0 \notin Msgs /\ job[w].batch \subseteq Msgs
    BY JobFields, MsgsAssumption
  <2>2. job[w].pc \in WithMessage => job[w].msg # 0
    BY <2>1, JobFields
  <2>3. Carrying \cup {"register", "registering", "acking"} \subseteq WithMessage
    BY DEF Carrying, WithMessage
  <2> QED BY <1>2, <2>1, <2>2, <2>3 DEF Owns, Carries, Msg
<1> QED BY <1>1, <1>2 DEF Around

-----------------------------------------------------------------------------
(* How far the save in progress has brought the bucket. *)

(* Without a save in progress only what is found leaves a trace.           *)
LEMMA TracedIsFound ==
  ASSUME Synced, Unlocked
  PROVE  \A o \in Custody : Traced(o) <=> Found(o)
BY DEF Synced, Traced, Found

LEMMA UnstoredIsFound ==
  ASSUME Synced
  PROVE  \A o \in Custody : ~Stored(o) => (Traced(o) <=> Found(o))
BY DEF Synced, Traced, Found

LEMMA SyncedStays ==
  ASSUME Synced, UNCHANGED <<saved, save, setup>>,
         \A o \in Custody : /\ InMemory(o)' <=> InMemory(o)
                            /\ bucket'[o] # bucket[o] => ~Stored(o)
  PROVE  Synced'
BY DEF Synced, Stored, ObjectQueue, InBucket, Unlocked

(* What memory asks of the objects that place messages.                    *)
LEMMA WantedPlaces ==
  ASSUME MemoryOK', setup' = setup
  PROVE  \A o \in Custody : /\ Stored(o) => (Wanted'[o] # Absent <=> InMemory(o)')
                            /\ ~Stored(o) => Wanted'[o] = Absent /\ ~InMemory(o)'
<1>1. record' \in [Msgs -> Records \cup {Absent}]
  BY DEF MemoryOK
<1>2. \A S, x : IsIn(S, x) # Absent <=> x \in S
  BY ValuesDiffer DEF IsIn
<1> SUFFICES ASSUME NEW o \in Custody
             PROVE  /\ Stored(o) => (Wanted'[o] # Absent <=> InMemory(o)')
                    /\ ~Stored(o) => Wanted'[o] = Absent /\ ~InMemory(o)'
  OBVIOUS
<1>3. CASE o[1] = 1
  <2>1. o[2] \in Deliveries /\ o = LeaseObject(o[2])
    BY <1>3, CustodyIs
  <2>2. Wanted'[o] = IsIn(leases', o[2])
    <3>1. Wanted'[LeaseObject(o[2])] = IsIn(leases', o[2])
      BY <1>1, <2>1, WantedNext
    <3> QED BY <2>1, <3>1
  <2> HIDE DEF Wanted
  <2> QED BY <1>2, <1>3, <2>2 DEF Stored, InMemory
<1>4. CASE o[1] # 1
  <2>1. o[2] \in Msgs /\ o = QueueObject(o[2])
    BY <1>4, CustodyIs
  <2>2. Wanted'[o] = IF ObjectQueue THEN Absent ELSE IsIn(ToSet(queue'), o[2])
    <3>1. Wanted'[QueueObject(o[2])] = IF ObjectQueue THEN Absent ELSE IsIn(ToSet(queue'), o[2])
      BY <1>1, <2>1, WantedNext
    <3> QED BY <2>1, <3>1
  <2>3. ObjectQueue' <=> ObjectQueue
    BY DEF ObjectQueue
  <2> HIDE DEF Wanted
  <2> QED BY <1>2, <1>4, <2>2, <2>3 DEF Stored, InMemory
<1> QED BY <1>3, <1>4

LEMMA SyncedStarts ==
  ASSUME TypeInv, Synced, NEW w \in Workers, Unlocked, MemoryOK', setup' = setup, StartSave(w)
  PROVE  Synced'
<1>1. record' \in [Msgs -> Records \cup {Absent}] /\ w # "nobody"
  BY WorkersAssumption DEF MemoryOK
<1>2. /\ save'.by = w /\ save'.desired = Wanted'
      /\ save'.puts = Differs(Wanted') /\ save'.deletes = Gone(Wanted')
      /\ UNCHANGED <<bucket, saved>>
  BY <1>1, StartIs DEF TypeInv
<1> SUFFICES ASSUME NEW o \in Custody
             PROVE  IF ~Stored(o)
                    THEN /\ ~InMemory(o)' /\ saved'[o] = Absent
                         /\ o \notin save'.puts \cup save'.deletes /\ save'.desired[o] = Absent
                    ELSE /\ save'.desired[o] # Absent <=> InMemory(o)'
                         /\ bucket'[o] # Absent
                              <=> IF o \in save'.puts \cup save'.deletes
                                  THEN saved'[o] # Absent ELSE InMemory(o)'
  BY <1>1, <1>2 DEF Synced, Stored, ObjectQueue, InBucket, Unlocked
<1>3. o \in Objects
  BY CustodyIs
<1>4. /\ o \in Differs(Wanted') <=> Wanted'[o] # Absent /\ saved[o] # Wanted'[o]
      /\ o \in Gone(Wanted') <=> Wanted'[o] = Absent /\ saved[o] # Absent
  BY <1>3, ListsAre
<1>5. IF ~Stored(o) THEN saved[o] = Absent
      ELSE (saved[o] # Absent <=> InMemory(o)) /\ (bucket[o] # Absent <=> InMemory(o))
  BY DEF Synced, InBucket
<1>6. /\ Stored(o) => (Wanted'[o] # Absent <=> InMemory(o)')
      /\ ~Stored(o) => Wanted'[o] = Absent /\ ~InMemory(o)'
  BY WantedPlaces
<1> HIDE DEF Wanted
<1> QED BY <1>2, <1>4, <1>5, <1>6

LEMMA SyncedSaves ==
  ASSUME TypeInv, Synced, NEW w \in Workers, NEW o \in NextCalls, SaveObject(w, o),
         setup' = setup
  PROVE  Synced'
<1>1. /\ save.by = w /\ save'.by = w /\ save'.desired = save.desired
      /\ save'.puts = save.puts \ {o} /\ save'.deletes = save.deletes \ {o}
      /\ bucket'[o] = save.desired[o] /\ \A p \in Objects : p # o => bucket'[p] = bucket[p]
      /\ UNCHANGED <<memory, saved>> /\ w # "nobody"
      /\ o \in save.puts \cup save.deletes
  BY SaveObjectIs, NextCallsAre, WorkersAssumption DEF TypeInv
<1> SUFFICES ASSUME NEW p \in Custody
             PROVE  IF ~Stored(p)
                    THEN /\ ~InMemory(p) /\ saved[p] = Absent
                         /\ p \notin save'.puts \cup save'.deletes /\ save'.desired[p] = Absent
                    ELSE /\ save'.desired[p] # Absent <=> InMemory(p)
                         /\ bucket'[p] # Absent
                              <=> IF p \in save'.puts \cup save'.deletes
                                  THEN saved[p] # Absent ELSE InMemory(p)
  BY <1>1 DEF Synced, Stored, InMemory, ObjectQueue, InBucket, Unlocked, memory
<1>2. IF ~Stored(p)
      THEN /\ ~InMemory(p) /\ saved[p] = Absent
           /\ p \notin save.puts \cup save.deletes /\ save.desired[p] = Absent
      ELSE /\ save.desired[p] # Absent <=> InMemory(p)
           /\ bucket[p] # Absent
                <=> IF p \in save.puts \cup save.deletes THEN saved[p] # Absent ELSE InMemory(p)
  BY <1>1 DEF Synced, InBucket, Unlocked
<1>3. p \in Objects
  BY CustodyIs
<1>4. CASE p = o
  BY <1>1, <1>2, <1>4
<1>5. CASE p # o
  BY <1>1, <1>2, <1>3, <1>5
<1> QED BY <1>4, <1>5

LEMMA SyncedFinishes ==
  ASSUME TypeInv, Synced, NEW w \in Workers, FinishSave(w), setup' = setup
  PROVE  Synced' /\ Unlocked'
<1>1. /\ save.by = w /\ save'.by = "nobody" /\ saved' = save.desired /\ w # "nobody"
      /\ save.puts = {} /\ save.deletes = {} /\ save' = NoSave
      /\ UNCHANGED <<memory, bucket>>
  BY FinishIs, WorkersAssumption DEF TypeInv, FinishSave
<1> SUFFICES ASSUME NEW p \in Custody
             PROVE  IF ~Stored(p)
                    THEN ~InMemory(p) /\ saved'[p] = Absent /\ NoSave.desired[p] = Absent
                    ELSE (saved'[p] # Absent <=> InMemory(p)) /\ (InBucket(p) <=> InMemory(p))
  BY <1>1, NoSaveIs DEF Synced, Stored, InMemory, ObjectQueue, InBucket, Unlocked, memory
<1>2. NoSave.desired[p] = Absent
  BY CustodyIs DEF NoSave
<1> QED BY <1>1, <1>2 DEF Synced, Unlocked

(* A start finds in the bucket all that it puts into memory.               *)
LEMMA SyncedLoads ==
  ASSUME TypeInv, Load, setup' = setup
  PROVE  /\ Synced' /\ Unlocked' /\ QueueFits' /\ bucket' = bucket
         /\ \A o \in Custody : Traced(o)' => InBucket(o)
<1>0. QueueFits'
  <2>1. /\ ToSet(queue') = LoadedMessages /\ queue' \in Seq(Msgs)
        /\ \A i, j \in DOMAIN queue' : queue'[i] = queue'[j] => i = j
    BY LoadIs DEF TypeInv, MemoryOK
  <2>2. ASSUME ObjectQueue, queue' # <<>>
        PROVE  FALSE
    <3>1. 1 \in DOMAIN queue'
      BY <2>1, <2>2
    <3>2. queue'[1] \in ToSet(queue')
      BY <3>1 DEF ToSet
    <3> QED BY <2>1, <2>2, <3>2 DEF LoadedMessages
  <2> QED BY <2>1, <2>2 DEF QueueFits, ObjectQueue
<1>1. /\ MemoryOK' /\ Unlocked' /\ saved' = Wanted' /\ ToSet(queue') = LoadedMessages
      /\ leases' = LoadedLeases /\ QueueFits' /\ save' = NoSave /\ bucket' = bucket
  BY <1>0, LoadIs DEF TypeInv, Load
<1>2. ASSUME NEW o \in Custody
      PROVE  /\ Stored(o)' <=> Stored(o)
             /\ InMemory(o)' <=> Stored(o) /\ InBucket(o)
             /\ NoSave.desired[o] = Absent
             /\ Stored(o) => (saved'[o] # Absent <=> InMemory(o)')
             /\ ~Stored(o) => saved'[o] = Absent
  <2>1. Stored(o)' <=> Stored(o)
    BY DEF Stored, ObjectQueue
  <2>2. NoSave.desired[o] = Absent
    BY CustodyIs DEF NoSave
  <2>3. InMemory(o)' <=> Stored(o) /\ InBucket(o)
    <3>1. CASE o[1] = 1
      BY <1>1, <3>1, CustodyIs DEF InMemory, Stored, LoadedLeases
    <3>2. CASE o[1] # 1
      BY <1>1, <3>2, CustodyIs DEF InMemory, Stored, LoadedMessages, ObjectQueue
    <3> QED BY <3>1, <3>2
  <2>4. /\ Stored(o) => (saved'[o] # Absent <=> InMemory(o)')
        /\ ~Stored(o) => saved'[o] = Absent
    <3>1. /\ Stored(o) => (Wanted'[o] # Absent <=> InMemory(o)')
          /\ ~Stored(o) => Wanted'[o] = Absent
      BY <1>1, WantedPlaces
    <3> HIDE DEF Wanted
    <3> QED BY <1>1, <3>1
  <2> QED BY <2>1, <2>2, <2>3, <2>4
<1>3. save'.puts = {} /\ save'.deletes = {}
  BY <1>1, NoSaveIs
<1>4. Synced'
  BY <1>1, <1>2, <1>3 DEF Synced, InBucket
<1>5. \A o \in Custody : Traced(o)' => InBucket(o)
  BY <1>1, <1>2 DEF Traced, InBucket
<1> QED BY <1>1, <1>4, <1>5

-----------------------------------------------------------------------------
(* Records: none is lost as long as no call fails. *)

RecordsStay == \A m \in Msgs : /\ Exists(m) => Exists(m)'
                               /\ InBucket(RecordObject(m)) => InBucket(RecordObject(m))'

LEMMA ExistsStays ==
  ASSUME MemoryOK,
         \/ record' = record
         \/ \E m \in Msgs : CreateRecord(m) \/ (Exists(m) /\ CountReplay(m))
         \/ \E d \in Deliveries : Exists(d[1]) /\ Lease(d)
         \/ \E D : \E status \in Statuses : Settle(D, status)
         \/ \E m \in Msgs : \E r \in Records \cup {Absent} : r # Absent /\ Cache(m, r)
  PROVE  \A x \in Msgs : Exists(x) => Exists(x)'
<1> SUFFICES ASSUME NEW x \in Msgs, Exists(x)
             PROVE  record'[x] # Absent
  BY DEF Exists
<1>0. record \in [Msgs -> Records \cup {Absent}] /\ record[x] \in Records /\ record[x] # Absent
  BY DEF MemoryOK, Exists
<1>1. CASE record' = record
  BY <1>0, <1>1
<1>2. ASSUME NEW m \in Msgs, NEW r, r # Absent, record' = [record EXCEPT ![m] = r]
      PROVE  record'[x] # Absent
  BY <1>0, <1>2
<1>3. ASSUME NEW m \in Msgs, CreateRecord(m)
      PROVE  record'[x] # Absent
  <2>1. Value("queued", 0, 0) # Absent
    BY DEF Absent, Value
  <2> QED BY <1>2, <1>3, <2>1 DEF CreateRecord
<1>4. ASSUME NEW m \in Msgs, Exists(m), CountReplay(m)
      PROVE  record'[x] # Absent
  <2>1. record[m] \in Records
    BY <1>4 DEF MemoryOK, Exists
  <2>2. [record[m] EXCEPT !.replays = record[m].replays + 1] \in Records
    BY <2>1 DEF Records
  <2>3. record' = [record EXCEPT ![m] = [record[m] EXCEPT !.replays = record[m].replays + 1]]
    BY <1>4 DEF CountReplay
  <2> QED BY <1>2, <2>2, <2>3, ValuesDiffer
<1>5. ASSUME NEW d \in Deliveries, Exists(d[1]), Lease(d)
      PROVE  record'[x] # Absent
  <2>1. d[1] \in Msgs /\ d[2] \in 0 .. MaxDeliveries
    BY BoundAssumption DEF Deliveries
  <2>2. record[d[1]] \in Records
    BY <1>5, <2>1 DEF MemoryOK, Exists
  <2>3. [record[d[1]] EXCEPT !.status = "leased", !.last = d[2]] \in Records
    BY <2>1, <2>2 DEF Records, Statuses
  <2>4. record' = [record EXCEPT ![d[1]] =
                     [record[d[1]] EXCEPT !.status = "leased", !.last = d[2]]]
    BY <1>5 DEF Lease
  <2> QED BY <1>2, <2>1, <2>3, <2>4, ValuesDiffer
<1>6. ASSUME NEW D, NEW status \in Statuses, Settle(D, status)
      PROVE  record'[x] # Absent
  <2>1. [record[x] EXCEPT !.status = status] \in Records
    BY <1>0 DEF Records
  <2>2. record'[x] \in {record[x], [record[x] EXCEPT !.status = status]}
    BY <1>6 DEF Settle
  <2> QED BY <1>0, <2>1, <2>2, ValuesDiffer
<1>7. ASSUME NEW m \in Msgs, NEW r \in Records \cup {Absent}, r # Absent, Cache(m, r)
      PROVE  record'[x] # Absent
  BY <1>2, <1>7 DEF Cache
<1> QED BY <1>1, <1>3, <1>4, <1>5, <1>6, <1>7

LEMMA RecordsWait ==
  ASSUME RecordsKept, UNCHANGED <<saved, save>>, RecordsStay
  PROVE  \A m \in Msgs : RecordFit(m)'
BY DEF RecordsKept, RecordFit, RecordsStay, InBucket, Unlocked

LEMMA RecordsStart ==
  ASSUME TypeInv, RecordsKept, NEW w \in Workers, Unlocked, MemoryOK', setup' = setup,
         StartSave(w), RecordsStay
  PROVE  /\ \A m \in Msgs : RecordFit(m)'
         /\ \A m \in Msgs : Exists(m)' => save'.desired[RecordObject(m)] # Absent
<1>1. record' \in [Msgs -> Records \cup {Absent}] /\ w # "nobody"
  BY WorkersAssumption DEF MemoryOK
<1>2. /\ save'.by = w /\ save'.desired = Wanted'
      /\ save'.puts = Differs(Wanted') /\ save'.deletes = Gone(Wanted')
      /\ UNCHANGED <<bucket, saved>>
  BY <1>1, StartIs DEF TypeInv
<1>3. \A m \in Msgs : Wanted'[RecordObject(m)] = record'[m]
  BY <1>1, WantedNext
<1> HIDE DEF Wanted
<1>4. ASSUME NEW m \in Msgs
      PROVE  RecordFit(m)' /\ (Exists(m)' => save'.desired[RecordObject(m)] # Absent)
  <2>1. RecordObject(m) \in Objects
    BY ObjectNames
  <2>2. /\ RecordObject(m) \in Differs(Wanted')
             <=> record'[m] # Absent /\ saved[RecordObject(m)] # record'[m]
        /\ RecordObject(m) \in Gone(Wanted')
             <=> record'[m] = Absent /\ saved[RecordObject(m)] # Absent
    BY <1>3, <2>1, ListsAre
  <2>3. /\ saved[RecordObject(m)] # Absent => Exists(m) /\ bucket[RecordObject(m)] # Absent
        /\ Exists(m) => record'[m] # Absent
    BY DEF RecordsKept, RecordFit, RecordsStay, InBucket, Exists
  <2> QED BY <1>2, <1>3, <2>2, <2>3 DEF RecordFit, Exists, InBucket
<1> QED BY <1>4

LEMMA RecordsSave ==
  ASSUME TypeInv, RecordsKept, NEW w \in Workers, NEW o \in NextCalls, SaveObject(w, o)
  PROVE  (\A m \in Msgs : RecordFit(m)') /\ RecordsStay
<1>1. /\ save.by = w /\ save'.by = w /\ save'.desired = save.desired
      /\ save'.puts = save.puts \ {o} /\ save'.deletes = save.deletes \ {o}
      /\ bucket'[o] = save.desired[o] /\ \A p \in Objects : p # o => bucket'[p] = bucket[p]
      /\ UNCHANGED <<memory, saved>> /\ w # "nobody"
      /\ o \in save.puts \cup save.deletes
  BY SaveObjectIs, NextCallsAre, WorkersAssumption DEF TypeInv
<1>2. ASSUME NEW m \in Msgs
      PROVE  /\ RecordFit(m)' /\ (Exists(m) => Exists(m)')
             /\ InBucket(RecordObject(m)) => InBucket(RecordObject(m))'
  <2>1. RecordObject(m) \in Objects /\ RecordFit(m) /\ record' = record
    BY <1>1, ObjectNames DEF RecordsKept, memory
  <2>2. CASE o = RecordObject(m)
    BY <1>1, <2>1, <2>2 DEF RecordFit, Exists, InBucket, Unlocked
  <2>3. CASE o # RecordObject(m)
    BY <1>1, <2>1, <2>3 DEF RecordFit, Exists, InBucket, Unlocked
  <2> QED BY <2>2, <2>3
<1> QED BY <1>2 DEF RecordsStay

LEMMA RecordsFinish ==
  ASSUME TypeInv, RecordsKept, NEW w \in Workers, FinishSave(w)
  PROVE  /\ (\A m \in Msgs : RecordFit(m)') /\ RecordsStay
         /\ \A m \in Msgs : save.desired[RecordObject(m)] # Absent => InBucket(RecordObject(m))
<1>1. /\ save.by = w /\ save'.by = "nobody" /\ saved' = save.desired /\ w # "nobody"
      /\ save.puts = {} /\ save.deletes = {} /\ save'.puts = {} /\ save'.deletes = {}
      /\ UNCHANGED <<memory, bucket>>
  BY FinishIs, WorkersAssumption DEF TypeInv
<1>2. ASSUME NEW m \in Msgs
      PROVE  /\ RecordFit(m)' /\ (Exists(m) => Exists(m)')
             /\ InBucket(RecordObject(m)) => InBucket(RecordObject(m))'
             /\ save.desired[RecordObject(m)] # Absent => InBucket(RecordObject(m))
  <2>1. RecordFit(m) /\ record' = record
    BY <1>1 DEF RecordsKept, memory
  <2> QED BY <1>1, <2>1 DEF RecordFit, Exists, InBucket, Unlocked
<1> QED BY <1>2 DEF RecordsStay

(* What request w had, or had placed, has still its record.                *)
LEMMA RecordsGoAlong ==
  ASSUME RecordsKept, NEW w \in Workers, OthersWait(w), RecordsStay,
         save'.desired = save.desired \/ \A v \in Workers : v # w => ~At(v, "registering"),
         \A o \in Custody : Traced(o)' => Traced(o) \/ Carries(w, Of(o)),
         CarriedHaveRecords(w)'
  PROVE  PlacedHaveRecords' /\ \A v \in Workers : CarriedHaveRecords(v)'
<1>1. PlacedHaveRecords'
  BY CustodyIs DEF RecordsKept, PlacedHaveRecords, CarriedHaveRecords, RecordsStay
<1>2. ASSUME NEW v \in Workers, v # w
      PROVE  CarriedHaveRecords(v)'
  <2>1. job'[v] = job[v] /\ CarriedHaveRecords(v)
    BY <1>2 DEF OthersWait, RecordsKept
  <2>2. \A m \in Msgs : Carries(v, m)' => InBucket(RecordObject(m))'
    BY <2>1 DEF CarriedHaveRecords, Carries, Msg, RecordsStay
  <2> QED BY <1>2, <2>1, <2>2 DEF CarriedHaveRecords, At, Msg
<1> QED BY <1>1, <1>2

LEMMA TimeStays ==
  ASSUME InTime, RestOK, acked' = acked, NEW fresh,
         \A m \in Msgs : Around(m)' => Around(m) \/ m = fresh,
         \/ published' = published /\ ~Around(fresh) /\ fresh \notin Msgs
         \/ published' = published + 1 /\ fresh = published'
  PROVE  InTime'
<1>1. published \in Nat /\ published' \in Nat /\ published <= published'
  BY DEF RestOK
<1>2. acked \subseteq Msgs /\ Msgs \subseteq Nat
  BY MsgsAssumption DEF RestOK
<1>3. \A m \in Msgs : m = fresh => m <= published' /\ ~(m <= published)
  BY <1>1, <1>2
<1>4. ASSUME NEW m \in Msgs, Around(m)'
      PROVE  m <= published'
  BY <1>1, <1>2, <1>3, <1>4 DEF InTime
<1>5. ASSUME NEW m \in acked
      PROVE  m <= published' /\ ~Around(m)'
  BY <1>1, <1>2, <1>3 DEF InTime
<1> QED BY <1>4, <1>5 DEF InTime

-----------------------------------------------------------------------------
(* Custody, action by action. *)

Owning  == Carrying \cup {"register", "registering", "acking"}
Batches == {"sweeping", "requeue", "requeueOne", "requeuing"}

LEMMA OwningIs ==
  /\ Owning \subseteq Steps /\ Carrying \subseteq Owning /\ "idle" \notin Owning
  /\ \A pc : pc \in Owning <=>
       pc \in {"enqueue", "dequeuing", "claim", "loaded", "relock", "putBack", "nacking",
               "return", "requeueOne", "register", "registering", "acking"}
  /\ \A pc : pc \in Carrying <=>
       pc \in {"enqueue", "dequeuing", "claim", "loaded", "relock", "putBack", "nacking",
               "return", "requeueOne"}
BY DEF Owning, Carrying, Steps, WithMessage

LEMMA OwnsIs ==
  \A w, m : /\ Owns(w, m) <=> m \in job[w].batch \/ (job[w].msg = m /\ job[w].pc \in Owning)
            /\ Carries(w, m) <=> m \in job[w].batch \/ (job[w].msg = m /\ job[w].pc \in Carrying)
BY DEF Owns, Carries, Owning, Msg

LEMMA OwnsNext ==
  ASSUME NEW w, NEW m
  PROVE  /\ Owns(w, m)' <=> m \in job'[w].batch \/ (job'[w].msg = m /\ job'[w].pc \in Owning)
         /\ Carries(w, m)' <=> m \in job'[w].batch \/ (job'[w].msg = m /\ job'[w].pc \in Carrying)
BY DEF Owns, Carries, Owning, Msg

LEMMA BecomeOwns ==
  ASSUME TypeInv, NEW w \in Workers, NEW pc \in Steps, Become(w, pc)
  PROVE  /\ \A m : Owns(w, m)' <=>
              pc # "idle" /\ (m \in job[w].batch \/ (job[w].msg = m /\ pc \in Owning))
         /\ \A m : Carries(w, m)' <=>
              pc # "idle" /\ (m \in job[w].batch \/ (job[w].msg = m /\ pc \in Carrying))
         /\ (job[w].batch # {} => pc \in Batches \cup {"idle"})
              /\ (pc \in {"requeueOne", "requeuing"} => job[w].msg \notin job[w].batch)
              => BatchFits(job'[w])
         /\ OthersWait(w) /\ job'[w].pc = pc /\ job' \in [Workers -> Jobs]
         /\ pc # "idle" => job'[w].msg = job[w].msg /\ job'[w].read = job[w].read
<1>1. /\ job' \in [Workers -> Jobs] /\ OthersWait(w) /\ job'[w].pc = pc
      /\ pc = "idle" => job'[w] = Idle
      /\ pc # "idle" => /\ job'[w].msg = job[w].msg /\ job'[w].batch = job[w].batch
                        /\ job'[w].read = job[w].read
  BY BecomeIs DEF TypeInv, JobsOK
<1>2. Idle.batch = {}
  BY DEF Idle
<1>3. \A m : /\ Owns(w, m)' <=> m \in job'[w].batch \/ (job'[w].msg = m /\ job'[w].pc \in Owning)
             /\ Carries(w, m)' <=> m \in job'[w].batch
                                     \/ (job'[w].msg = m /\ job'[w].pc \in Carrying)
  BY OwnsNext
<1>4. CASE pc = "idle"
  BY <1>1, <1>2, <1>3, <1>4, OwningIs DEF BatchFits
<1>5. CASE pc # "idle"
  BY <1>1, <1>3, <1>5 DEF BatchFits, Batches
<1> QED BY <1>4, <1>5

(* A request that goes on, and leaves the places as they are.              *)
LEMMA QuietKeeps ==
  ASSUME TypeInv, InCustody, NEW w \in Workers, NEW fresh,
         \/ fresh = 0 /\ published' = published
         \/ fresh \in Msgs /\ fresh = published + 1 /\ published' = fresh,
         OthersWait(w), UNCHANGED <<queue, leases, setup, saved, save, bucket, acked>>,
         RecordsStay, BatchFits(job'[w]), CarriedHaveRecords(w)', ~Taking(w),
         \A m \in Msgs : Owns(w, m)' => Owns(w, m) \/ m = fresh
  PROVE  InCustody'
<1>1. /\ QueueFits'
      /\ \A o \in Custody : /\ InMemory(o)' <=> InMemory(o)
                            /\ Stored(o)' <=> Stored(o)
  BY SamePlaces DEF InCustody, OnePlace
<1>2. \A o \in Custody : (Traced(o)' <=> Traced(o)) /\ (Found(o)' <=> Found(o))
  BY <1>1 DEF Traced, Found, InBucket
<1>3. fresh \in Msgs \cup {0} /\ ~Around(fresh)
  <2>1. CASE fresh = 0
    BY <2>1, NothingIsZero
  <2>2. CASE fresh \in Msgs /\ fresh = published + 1
    BY <2>2, MsgsAssumption DEF InCustody, InTime, TypeInv, RestOK
  <2> QED BY <2>1, <2>2
<1>4. OnePlace' /\ \A m \in Msgs : Around(m)' => Around(m) \/ m = fresh
  <2>1. \A o \in Custody : Owns(w, Of(o))' =>
          \/ Taking(w)' \/ ~Traced(o)' \/ (Owns(w, Of(o)) /\ ~Taking(w)) \/ Of(o) = fresh
    BY CustodyIs
  <2>2. \A m \in Msgs : Owns(w, m)' =>
          \/ Owns(w, m) \/ m = fresh
          \/ \E o \in Custody : Of(o) = m /\ Found(o) /\ ~Found(o)'
    OBVIOUS
  <2>3. OnePlace /\ \A o \in Custody : (Traced(o)' => Traced(o)) /\ (Found(o)' => Found(o))
    BY <1>2 DEF InCustody
  <2> QED BY <1>1, <1>3, <2>1, <2>2, <2>3, TakeKeeps
<1>5. Synced'
  BY <1>1, SyncedStays DEF InCustody
<1>6. InTime'
  <2>1. 0 \notin Msgs
    BY MsgsAssumption
  <2> QED BY <1>3, <1>4, <2>1, TimeStays DEF InCustody, TypeInv
<1>7. RecordsKept'
  <2>1. PlacedHaveRecords' /\ \A v \in Workers : CarriedHaveRecords(v)'
    BY <1>2, RecordsGoAlong DEF InCustody
  <2>2. \A m \in Msgs : RecordFit(m)'
    BY RecordsWait DEF InCustody
  <2>3. LeasedExist'
    <3>1. \A d \in leases : d[1] \in Msgs
      BY CustodyIs DEF TypeInv, MemoryOK
    <3> QED BY <3>1 DEF InCustody, RecordsKept, LeasedExist, RecordsStay
  <2> QED BY <2>1, <2>2, <2>3 DEF RecordsKept
<1> QED BY <1>4, <1>5, <1>6, <1>7 DEF InCustody

(* The requests that go on without the store.                              *)
LEMMA MovesKeep ==
  ASSUME TypeInv, InCustody, NEW w \in Workers, NEW m,
         \/ Pull(w) \/ RequeueNext(w) \/ NothingQueued(w) \/ ReadRecord(w) \/ ClaimFails(w)
         \/ m \in Msgs /\ (Publish(w, m) \/ Query(w, m))
  PROVE  InCustody'
<1> USE JobFields DEF At
<1>0. BatchFits(job[w]) /\ CarriedHaveRecords(w)
  BY DEF InCustody, OnePlace, RecordsKept
<1>1. UNCHANGED <<queue, record, leases, setup, saved, save, bucket, acked>>
  BY DEF Publish, Pull, RequeueNext, NothingQueued, ReadRecord, ClaimFails, Query,
     store, memory, env, told
<1>2. RecordsStay
  BY <1>1 DEF RecordsStay, Exists, InBucket
<1>3. Taking(w) <=> job[w].pc \in {"dequeuing", "nacking", "acking", "sweeping"}
  BY DEF Taking
<1>4. /\ \A x : Owns(w, x) <=> x \in job[w].batch \/ (job[w].msg = x /\ job[w].pc \in Owning)
      /\ \A x : Carries(w, x) <=> x \in job[w].batch \/ (job[w].msg = x /\ job[w].pc \in Carrying)
  BY OwnsIs
<1>5. ASSUME NEW pc \in {"sweep", "dequeue", "idle", "putBack"}, Become(w, pc),
             published' = published,
             \/ job[w].pc = "idle" /\ pc = "sweep"
             \/ job[w].pc = "requeue" /\ pc = "dequeue" /\ job[w].batch = {}
             \/ job[w].pc = "dequeue" /\ pc = "idle"
             \/ job[w].pc \in {"claim", "relock"} /\ pc = "putBack"
      PROVE  InCustody'
  <2>1. pc \in Steps
    BY DEF Steps, WithMessage
  <2>2. /\ \A x : Owns(w, x)' <=>
              pc # "idle" /\ (x \in job[w].batch \/ (job[w].msg = x /\ pc \in Owning))
        /\ \A x : Carries(w, x)' <=>
              pc # "idle" /\ (x \in job[w].batch \/ (job[w].msg = x /\ pc \in Carrying))
        /\ (job[w].batch # {} => pc \in Batches \cup {"idle"})
              /\ (pc \in {"requeueOne", "requeuing"} => job[w].msg \notin job[w].batch)
              => BatchFits(job'[w])
        /\ OthersWait(w) /\ job'[w].pc = pc
    BY <1>5, <2>1, BecomeOwns
  <2>3. job[w].batch = {} /\ BatchFits(job'[w])
    BY <1>0, <1>5, <2>2 DEF BatchFits
  <2>4. \A x \in Msgs : (Owns(w, x)' => Owns(w, x)) /\ (Carries(w, x)' => Carries(w, x))
    BY <1>4, <1>5, <2>2, <2>3, OwningIs
  <2>5. CarriedHaveRecords(w)'
    <3>1. \A x \in Msgs : Carries(w, x)' => InBucket(RecordObject(x))'
      BY <1>0, <1>1, <2>4 DEF CarriedHaveRecords, InBucket
    <3> QED BY <1>5, <2>2, <3>1 DEF CarriedHaveRecords
  <2> QED BY <1>1, <1>2, <1>3, <1>5, <2>2, <2>3, <2>4, <2>5, QuietKeeps
<1>6. ASSUME NEW j \in Jobs, job' = [job EXCEPT ![w] = j], NEW fresh,
             \/ fresh = 0 /\ published' = published
             \/ fresh \in Msgs /\ fresh = published + 1 /\ published' = fresh,
             BatchFits(j), ~Taking(w), j.pc \notin {"registering", "abort", "aborting"},
             j.pc \in {"loaded", "fetched"} => j.read # Absent,
             \A x \in Msgs :
               /\ x \in j.batch \/ (j.msg = x /\ j.pc \in Owning) => Owns(w, x) \/ x = fresh
               /\ x \in j.batch \/ (j.msg = x /\ j.pc \in Carrying) => Carries(w, x)
      PROVE  InCustody'
  <2>1. OthersWait(w) /\ job'[w] = j
    BY <1>6, JobIs
  <2>2. \A x \in Msgs : /\ Owns(w, x)' => Owns(w, x) \/ x = fresh
                        /\ Carries(w, x)' => Carries(w, x)
    BY <1>6, <2>1, OwnsNext
  <2>3. CarriedHaveRecords(w)'
    <3>1. \A x \in Msgs : Carries(w, x)' => InBucket(RecordObject(x))'
      BY <1>0, <1>1, <2>2 DEF CarriedHaveRecords, InBucket
    <3> QED BY <1>6, <2>1, <3>1 DEF CarriedHaveRecords
  <2> QED BY <1>1, <1>2, <1>6, <2>1, <2>2, <2>3, QuietKeeps
<1>7. CASE Pull(w)
  BY <1>5, <1>7 DEF Pull, env
<1>8. CASE NothingQueued(w)
  BY <1>5, <1>8 DEF NothingQueued, env
<1>9. CASE ClaimFails(w)
  BY <1>5, <1>9 DEF ClaimFails, env
<1>10. CASE RequeueNext(w)
  <2>1. CASE job[w].batch = {} /\ Become(w, "dequeue")
    BY <1>5, <1>10, <2>1 DEF RequeueNext, env
  <2>2. ASSUME NEW n \in job[w].batch, job[w].pc = "requeue",
               job' = [job EXCEPT ![w] = [job[w] EXCEPT !.pc = "requeueOne", !.msg = n,
                                                        !.batch = job[w].batch \ {n}]]
        PROVE  InCustody'
    <3> DEFINE j == [job[w] EXCEPT !.pc = "requeueOne", !.msg = n, !.batch = job[w].batch \ {n}]
    <3>1. "requeueOne" \in Steps /\ n \in Msgs
      BY DEF Steps, WithMessage
    <3>2. /\ j \in Jobs /\ j.pc = "requeueOne" /\ j.msg = n /\ j.batch = job[w].batch \ {n}
          /\ job' = [job EXCEPT ![w] = j]
      BY <2>2, <3>1 DEF Jobs
    <3> HIDE DEF j
    <3>3. BatchFits(j) /\ ~Taking(w) /\ published' = published
      BY <1>3, <1>10, <2>2, <3>2 DEF BatchFits, RequeueNext, env
    <3>4. \A x \in Msgs : x \in j.batch \/ j.msg = x => x \in job[w].batch
      BY <3>2
    <3> QED BY <1>4, <1>6, <3>2, <3>3, <3>4
  <2> QED BY <2>1, <2>2, <1>10 DEF RequeueNext
<1>11. CASE ReadRecord(w)
  <2>1. CASE job[w].pc = "claim" /\ Become(w, "putBack")
    BY <1>5, <1>11, <2>1 DEF ReadRecord, env
  <2>2. CASE /\ job[w].pc = "claim" /\ bucket[RecordObject(Msg(w))] # Absent
             /\ job' = [job EXCEPT ![w] = [job[w] EXCEPT !.pc = "loaded",
                                             !.read = bucket[RecordObject(Msg(w))]]]
    <3> DEFINE j == [job[w] EXCEPT !.pc = "loaded", !.read = bucket[RecordObject(Msg(w))]]
    <3>1. "loaded" \in Steps /\ job[w].msg \in Msgs
      BY <2>2 DEF Steps, WithMessage
    <3>2. bucket[RecordObject(Msg(w))] \in Records \cup {Absent}
      BY <3>1, ObjectNames, ContentsIs DEF TypeInv, SavesOK, Msg
    <3>3. /\ j \in Jobs /\ j.pc = "loaded" /\ j.msg = job[w].msg /\ j.batch = job[w].batch
          /\ j.read # Absent /\ job' = [job EXCEPT ![w] = j]
      BY <2>2, <3>1, <3>2 DEF Jobs
    <3> HIDE DEF j
    <3>4. BatchFits(j) /\ ~Taking(w) /\ published' = published
      BY <1>0, <1>3, <1>11, <2>2, <3>3 DEF BatchFits, ReadRecord, env
    <3> QED BY <1>4, <1>6, <2>2, <3>3, <3>4, OwningIs
  <2> QED BY <2>1, <2>2, <1>11 DEF ReadRecord
<1>12. CASE m \in Msgs /\ Publish(w, m)
  <2> DEFINE j == [job[w] EXCEPT !.pc = "register", !.msg = m]
  <2>1. /\ job[w].pc = "idle" /\ m = published + 1 /\ published' = m
        /\ job' = [job EXCEPT ![w] = j]
    BY <1>12 DEF Publish, Hold
  <2>2. "register" \in Steps
    BY DEF Steps, WithMessage
  <2>3. j \in Jobs /\ j.pc = "register" /\ j.msg = m /\ j.batch = job[w].batch
    BY <1>12, <2>2 DEF Jobs
  <2> HIDE DEF j
  <2>4. BatchFits(j) /\ ~Taking(w)
    BY <1>0, <1>3, <2>1, <2>3 DEF BatchFits
  <2> QED BY <1>4, <1>6, <1>12, <2>1, <2>3, <2>4, OwningIs
<1>13. CASE m \in Msgs /\ Query(w, m)
  <2> DEFINE j == [job[w] EXCEPT !.pc = "fetched", !.msg = m, !.read = bucket[RecordObject(m)]]
  <2>1. /\ job[w].pc = "idle" /\ bucket[RecordObject(m)] # Absent /\ published' = published
        /\ job' = [job EXCEPT ![w] = j]
    BY <1>13 DEF Query, InBucket, env
  <2>2. "fetched" \in Steps
    BY DEF Steps, WithMessage
  <2>3. bucket[RecordObject(m)] \in Records \cup {Absent}
    BY <1>13, ObjectNames, ContentsIs DEF TypeInv, SavesOK
  <2>4. /\ j \in Jobs /\ j.pc = "fetched" /\ j.msg = m /\ j.batch = job[w].batch
        /\ j.read = bucket[RecordObject(m)]
    BY <1>13, <2>2, <2>3 DEF Jobs
  <2> HIDE DEF j
  <2>5. BatchFits(j) /\ ~Taking(w)
    BY <1>0, <1>3, <2>1, <2>4 DEF BatchFits
  <2> QED BY <1>4, <1>6, <2>1, <2>4, <2>5, OwningIs
<1> QED BY <1>7, <1>8, <1>9, <1>10, <1>11, <1>12, <1>13

(* A record that was read from the bucket goes into memory.                *)
LEMMA CachesKeep ==
  ASSUME TypeInv, InCustody, NEW w \in Workers, CacheLoaded(w) \/ CacheRecord(w)
  PROVE  InCustody'
<1>0. BatchFits(job[w]) /\ CarriedHaveRecords(w)
  BY DEF InCustody, OnePlace, RecordsKept
<1>1. /\ Cache(Msg(w), job[w].read)
      /\ UNCHANGED <<queue, leases, setup, saved, save, bucket, acked, published>>
      /\ \/ job[w].pc = "loaded" /\ Become(w, "relock")
         \/ job[w].pc = "fetched" /\ Become(w, "idle")
  BY DEF CacheLoaded, CacheRecord, Cache, At, env, told
<1>2. Msg(w) \in Msgs /\ job[w].read \in Records \cup {Absent} /\ job[w].read # Absent
  BY <1>0, <1>1, JobFields DEF WithMessage, Msg, CarriedHaveRecords
<1>3. RecordsStay
  BY <1>1, <1>2, ExistsStays DEF RecordsStay, InBucket, TypeInv
<1>4. job[w].batch = {} /\ ~Taking(w)
  BY <1>0, <1>1 DEF BatchFits, Taking
<1>5. ASSUME NEW pc \in {"relock", "idle"}, Become(w, pc), pc = "relock" => job[w].pc = "loaded"
      PROVE  InCustody'
  <2>1. pc \in Steps
    BY DEF Steps, WithMessage
  <2>2. /\ \A x : Owns(w, x)' <=>
              pc # "idle" /\ (x \in job[w].batch \/ (job[w].msg = x /\ pc \in Owning))
        /\ \A x : Carries(w, x)' <=>
              pc # "idle" /\ (x \in job[w].batch \/ (job[w].msg = x /\ pc \in Carrying))
        /\ (job[w].batch # {} => pc \in Batches \cup {"idle"})
              /\ (pc \in {"requeueOne", "requeuing"} => job[w].msg \notin job[w].batch)
              => BatchFits(job'[w])
        /\ OthersWait(w) /\ job'[w].pc = pc
    BY <1>5, <2>1, BecomeOwns
  <2>3. BatchFits(job'[w])
    BY <1>4, <1>5, <2>2
  <2>4. \A x \in Msgs : (Owns(w, x)' => Owns(w, x)) /\ (Carries(w, x)' => Carries(w, x))
    BY <1>4, <1>5, <2>2, OwnsIs, OwningIs
  <2>5. CarriedHaveRecords(w)'
    <3>1. \A x \in Msgs : Carries(w, x)' => InBucket(RecordObject(x))'
      BY <1>0, <1>1, <2>4 DEF CarriedHaveRecords, InBucket
    <3> QED BY <1>5, <2>2, <3>1 DEF CarriedHaveRecords, At
  <2> QED BY <1>1, <1>3, <1>4, <2>2, <2>3, <2>4, <2>5, QuietKeeps
<1> QED BY <1>1, <1>5

LEMMA MemoryIsStored ==
  \A o \in Custody : (InMemory(o) => Stored(o)) /\ (InMemory(o)' => Stored(o)')
BY DEF InMemory, Stored, ObjectQueue

(* What a call and its save have in common, wherever the messages go.      *)
LEMMA CallIs ==
  ASSUME TypeInv, InCustody, NEW w \in Workers, MemoryOK', setup' = setup, Call(w),
         \A m \in Msgs : Exists(m) => Exists(m)',
         job'[w].pc \notin {"loaded", "fetched", "abort", "aborting"},
         \A m : At(w, "registering")' /\ job'[w].msg = m => m \in Msgs /\ Exists(m)',
         \A m \in Msgs : Carries(w, m)' => InBucket(RecordObject(m))
  PROVE  /\ Synced' /\ UNCHANGED <<bucket, saved>> /\ ~Taking(w)
         /\ \A o \in Custody : Traced(o) <=> Found(o)
         /\ \A m \in Msgs : RecordFit(m)'
         /\ RecordsStay /\ CarriedHaveRecords(w)'
         /\ \A v \in Workers : ~At(v, "registering")
<1>1. Unlocked /\ StartSave(w) /\ UNCHANGED <<bucket, saved>>
  BY DEF Call, StartSave
<1>2. \A v \in Workers : job[v].pc \notin Saving
  BY <1>1, NobodySaves DEF TypeInv
<1>3. RecordsStay
  BY <1>1 DEF RecordsStay, InBucket
<1>4. /\ \A m \in Msgs : RecordFit(m)'
      /\ \A m \in Msgs : Exists(m)' => save'.desired[RecordObject(m)] # Absent
  BY <1>1, <1>3, RecordsStart DEF InCustody
<1>5. CarriedHaveRecords(w)'
  <2>1. \A m \in Msgs : Carries(w, m)' => InBucket(RecordObject(m))'
    BY <1>1 DEF InBucket
  <2>2. At(w, "registering")' =>
          \A m : job'[w].msg = m => save'.desired[RecordObject(m)] # Absent
    BY <1>4
  <2> QED BY <2>1, <2>2 DEF CarriedHaveRecords, Msg
<1>6. Synced' /\ \A o \in Custody : Traced(o) <=> Found(o)
  BY <1>1, SyncedStarts, TracedIsFound DEF InCustody
<1> QED BY <1>1, <1>2, <1>3, <1>4, <1>5, <1>6 DEF Saving, Taking, At

(* A call that takes messages from their places, or leaves them there.     *)
LEMMA CallTakes ==
  ASSUME TypeInv, InCustody, NEW w \in Workers, MemoryOK', setup' = setup, Call(w),
         UNCHANGED <<acked, published>>, OthersWait(w), QueueFits', BatchFits(job'[w]),
         \A m \in Msgs : Exists(m) => Exists(m)', leases' \subseteq leases,
         job'[w].pc \notin {"loaded", "fetched", "abort", "aborting"},
         \A m : At(w, "registering")' /\ job'[w].msg = m => m \in Msgs /\ Exists(m)',
         \A o \in Custody : InMemory(o)' => InMemory(o),
         \A m \in Msgs : Owns(w, m)' =>
           \/ Owns(w, m)
           \/ Taking(w)' /\ \E o \in Custody : Of(o) = m /\ InMemory(o) /\ ~InMemory(o)',
         \A m \in Msgs : Carries(w, m)' =>
           \/ Carries(w, m)
           \/ \E o \in Custody : Of(o) = m /\ InMemory(o)
  PROVE  InCustody'
<1>1. \A m \in Msgs : Carries(w, m)' => InBucket(RecordObject(m))
  BY DEF InCustody, RecordsKept, PlacedHaveRecords, CarriedHaveRecords, Traced
<1>2. /\ Synced' /\ UNCHANGED <<bucket, saved>> /\ ~Taking(w)
      /\ \A o \in Custody : Traced(o) <=> Found(o)
      /\ \A m \in Msgs : RecordFit(m)'
      /\ RecordsStay /\ CarriedHaveRecords(w)'
      /\ \A v \in Workers : ~At(v, "registering")
  BY <1>1, CallIs
<1>3. \A o \in Custody : Stored(o)' <=> Stored(o)
  BY DEF Stored, ObjectQueue
<1>4. \A o \in Custody : (Traced(o)' => Traced(o)) /\ (Found(o)' => Found(o))
  BY <1>2, <1>3 DEF Traced, Found, InBucket
<1>5. \A o \in Custody : InMemory(o) /\ ~InMemory(o)' => Found(o) /\ ~Found(o)'
  BY <1>3, MemoryIsStored DEF Found
<1>6. OnePlace' /\ \A m \in Msgs : Around(m)' => Around(m) \/ m = 0
  <2>1. \A o \in Custody : Owns(w, Of(o))' =>
          \/ Taking(w)' \/ ~Traced(o)' \/ (Owns(w, Of(o)) /\ ~Taking(w)) \/ Of(o) = 0
    BY <1>2, CustodyIs
  <2>2. \A m \in Msgs : Owns(w, m)' =>
          \/ Owns(w, m) \/ m = 0
          \/ \E o \in Custody : Of(o) = m /\ Found(o) /\ ~Found(o)'
    BY <1>5
  <2>3. OnePlace /\ ~Around(0)
    BY NothingIsZero DEF InCustody
  <2> QED BY <1>4, <2>1, <2>2, <2>3, TakeKeeps
<1>7. InTime'
  BY <1>6, NothingIsZero, MsgsAssumption, TimeStays DEF InCustody, TypeInv
<1>8. RecordsKept'
  <2>1. PlacedHaveRecords' /\ \A v \in Workers : CarriedHaveRecords(v)'
    BY <1>2, <1>4, RecordsGoAlong DEF InCustody
  <2>2. LeasedExist'
    <3>1. \A d \in leases : d[1] \in Msgs
      BY CustodyIs DEF TypeInv, MemoryOK
    <3> QED BY <3>1 DEF InCustody, RecordsKept, LeasedExist
  <2> QED BY <1>2, <2>1, <2>2 DEF RecordsKept
<1> QED BY <1>2, <1>6, <1>7, <1>8 DEF InCustody

(* A call that puts the message its request carries into the place p.      *)
LEMMA CallPuts ==
  ASSUME TypeInv, InCustody, NEW w \in Workers, MemoryOK', setup' = setup, Call(w),
         UNCHANGED <<acked, published>>, OthersWait(w), QueueFits', BatchFits(job'[w]),
         \A m \in Msgs : Exists(m) => Exists(m)', LeasedExist',
         job'[w].pc \notin {"registering", "loaded", "fetched", "abort", "aborting"},
         NEW p \in Custody, Stored(p), Carries(w, Of(p)), ~Owns(w, Of(p))',
         \A o \in Custody : o # p => (InMemory(o)' => InMemory(o)),
         \A m \in Msgs : (Owns(w, m)' => Owns(w, m)) /\ (Carries(w, m)' => Carries(w, m))
  PROVE  InCustody'
<1>1. \A m \in Msgs : Carries(w, m)' => InBucket(RecordObject(m))
  BY DEF InCustody, RecordsKept, CarriedHaveRecords
<1>2. /\ Synced' /\ UNCHANGED <<bucket, saved>> /\ ~Taking(w)
      /\ \A o \in Custody : Traced(o) <=> Found(o)
      /\ \A m \in Msgs : RecordFit(m)'
      /\ RecordsStay /\ CarriedHaveRecords(w)'
      /\ \A v \in Workers : ~At(v, "registering")
  BY <1>1, CallIs DEF At
<1>3. \A o \in Custody : Stored(o)' <=> Stored(o)
  BY DEF Stored, ObjectQueue
<1>4. \A o \in Custody : o # p => (Traced(o)' => Traced(o)) /\ (Found(o)' => Found(o))
  BY <1>2, <1>3 DEF Traced, Found, InBucket
<1>5. Owns(w, Of(p)) /\ Of(p) \in Msgs
  BY CustodyIs DEF Owns
<1>6. OnePlace' /\ \A m \in Msgs : Around(m)' => Around(m)
  BY <1>2, <1>4, <1>5, PutKeeps DEF InCustody
<1>7. InTime'
  BY <1>6, NothingIsZero, MsgsAssumption, TimeStays DEF InCustody, TypeInv
<1>8. RecordsKept'
  <2>1. PlacedHaveRecords' /\ \A v \in Workers : CarriedHaveRecords(v)'
    BY <1>2, <1>4, RecordsGoAlong DEF InCustody
  <2> QED BY <1>2, <2>1 DEF RecordsKept
<1> QED BY <1>2, <1>6, <1>7, <1>8 DEF InCustody

LEMMA ControlsKeep ==
  ASSUME TypeInv, InCustody, MemoryOK', NEW w \in Workers, NEW e \in Entries,
         CreateEntry(w, e) \/ RemoveEntry(w, e)
  PROVE  InCustody'
<1>1. PICK pc \in {"creating", "removing"} :
        /\ job' = [job EXCEPT ![w] = [job[w] EXCEPT !.pc = pc, !.entry = e]]
        /\ Call(w) /\ UNCHANGED <<queue, record, leases, setup, acked, published>>
        /\ job[w].pc = "idle"
  BY DEF CreateEntry, RemoveEntry, At, env, told
<1> DEFINE j == [job[w] EXCEPT !.pc = pc, !.entry = e]
<1>2. pc \in Steps /\ pc \notin Owning \cup Carrying
  BY OwningIs DEF Steps, Saving
<1>3. j \in Jobs /\ j.pc = pc /\ j.batch = job[w].batch
  BY <1>2, JobFields DEF Jobs
<1> HIDE DEF j
<1>4. OthersWait(w) /\ job'[w] = j
  BY <1>1, <1>3, JobIs, JobFields DEF j
<1>5. job[w].batch = {} /\ BatchFits(job'[w])
  BY <1>1, <1>3, <1>4 DEF InCustody, OnePlace, BatchFits
<1>6. \A m : ~Owns(w, m)' /\ ~Carries(w, m)'
  BY <1>2, <1>3, <1>4, <1>5, OwnsNext
<1>7. /\ QueueFits' /\ \A o \in Custody : InMemory(o)' <=> InMemory(o)
      /\ \A m \in Msgs : Exists(m) => Exists(m)'
  BY <1>1, SamePlaces DEF InCustody, OnePlace, Exists
<1> QED BY <1>1, <1>3, <1>4, <1>5, <1>6, <1>7, CallTakes DEF At

LEMMA RegistersKeep ==
  ASSUME TypeInv, InCustody, MemoryOK', NEW w \in Workers, Register(w) \/ RegisterReplay(w)
  PROVE  InCustody'
<1>0. job[w].pc = "register" /\ job[w].msg \in Msgs
  BY JobFields DEF Register, RegisterReplay, At, WithMessage
<1>1. job[w].batch = {}
  BY <1>0 DEF InCustody, OnePlace, BatchFits
<1>2. /\ Call(w) /\ UNCHANGED <<queue, leases, setup, acked, published>>
  BY DEF Register, RegisterReplay, CreateRecord, CountReplay, env, told
<1>3. QueueFits' /\ \A o \in Custody : InMemory(o)' <=> InMemory(o)
  BY <1>2, SamePlaces DEF InCustody, OnePlace
<1>4. CASE Register(w)
  <2>1. CreateRecord(job[w].msg) /\ Become(w, "registering") /\ "registering" \in Steps
    BY <1>4 DEF Register, Msg, Steps, Saving
  <2>2. \A m \in Msgs : Exists(m) => Exists(m)'
    BY <1>0, <2>1, ExistsStays DEF TypeInv
  <2>3. \A m \in Msgs : m = job[w].msg => Exists(m)'
    <3>1. Value("queued", 0, 0) # Absent
      BY DEF Absent, Value
    <3>2. record' = [record EXCEPT ![job[w].msg] = Value("queued", 0, 0)]
      BY <2>1 DEF CreateRecord
    <3>3. \A m \in Msgs : m = job[w].msg => record'[m] # Absent
      BY <3>1, <3>2 DEF TypeInv, MemoryOK
    <3> QED BY <3>3 DEF Exists
  <2>4. /\ \A m : Owns(w, m)' <=> job[w].msg = m
        /\ \A m : ~Carries(w, m)'
        /\ OthersWait(w) /\ job'[w].pc = "registering" /\ job'[w].msg = job[w].msg
        /\ BatchFits(job'[w])
    BY <1>1, <2>1, BecomeOwns, OwningIs
  <2>5. \A m : Owns(w, m)' => Owns(w, m)
    BY <1>0, <2>4, OwnsIs, OwningIs
  <2>6. \A m : At(w, "registering")' /\ job'[w].msg = m => m \in Msgs /\ Exists(m)'
    BY <1>0, <2>3, <2>4 DEF Exists
  <2> QED BY <1>2, <1>3, <2>2, <2>4, <2>5, <2>6, CallTakes
<1>5. CASE RegisterReplay(w)
  <2>1. PICK n \in Msgs : Exists(n) /\ CountReplay(n) /\ Hold(w, "replaying", n)
    BY <1>5 DEF RegisterReplay, ReplayOf
  <2>2. \A m \in Msgs : Exists(m) => Exists(m)'
    BY <2>1, ExistsStays DEF TypeInv
  <2>3. "replaying" \in Steps /\ "replaying" \notin Owning \cup Carrying
    BY OwningIs DEF Steps, Saving
  <2>4. OthersWait(w) /\ job'[w].pc = "replaying" /\ job'[w].batch = {}
    BY <1>1, <2>1, <2>3, HoldIs, JobFields
  <2>5. BatchFits(job'[w]) /\ \A m : ~Owns(w, m)' /\ ~Carries(w, m)'
    BY <2>3, <2>4, OwnsNext DEF BatchFits
  <2> QED BY <1>2, <1>3, <2>2, <2>4, <2>5, CallTakes DEF At
<1> QED BY <1>4, <1>5

LEMMA DequeueKeeps ==
  ASSUME TypeInv, InCustody, MemoryOK', NEW w \in Workers, Dequeue(w)
  PROVE  InCustody'
<1>0. PICK m : m = Head(queue)
  OBVIOUS
<1>1. /\ job[w].pc = "dequeue" /\ ~ObjectQueue /\ queue # <<>> /\ TakeHead /\ Call(w)
      /\ Hold(w, "dequeuing", m) /\ UNCHANGED <<leases, record, setup, acked, published>>
  BY <1>0 DEF Dequeue, TakeHead, At, env, told
<1>2. /\ QueueFits' /\ m \in Msgs /\ InMemory(QueueObject(m))
      /\ \A o \in Custody : InMemory(o)' <=> InMemory(o) /\ o # QueueObject(m)
  BY <1>0, <1>1, TakePlaces DEF InCustody, OnePlace, TypeInv
<1>3. "dequeuing" \in Steps /\ "dequeuing" \in Owning /\ "dequeuing" \in Carrying
  BY OwningIs DEF Steps, Saving
<1>4. job[w].batch = {}
  BY <1>1 DEF InCustody, OnePlace, BatchFits
<1>5. OthersWait(w) /\ job'[w].pc = "dequeuing" /\ job'[w].msg = m /\ job'[w].batch = {}
  BY <1>1, <1>2, <1>3, <1>4, HoldIs, JobFields
<1>6. /\ BatchFits(job'[w]) /\ Taking(w)'
      /\ \A x : (Owns(w, x)' <=> x = m) /\ (Carries(w, x)' <=> x = m)
  BY <1>3, <1>5, OwnsNext DEF BatchFits, Taking
<1>7. /\ QueueObject(m) \in Custody /\ Of(QueueObject(m)) = m
      /\ InMemory(QueueObject(m)) /\ ~InMemory(QueueObject(m))'
  <2>1. QueueObject(m) \in Custody /\ Of(QueueObject(m)) = m
    BY <1>2, CustodyIs
  <2> QED BY <1>2, <2>1
<1>8. \A x \in Msgs : Exists(x) => Exists(x)'
  BY <1>1 DEF Exists
<1>9. \A x \in Msgs : Owns(w, x)' \/ Carries(w, x)' =>
        Taking(w)' /\ \E o \in Custody : Of(o) = x /\ InMemory(o) /\ ~InMemory(o)'
  BY <1>6, <1>7
<1> QED BY <1>1, <1>2, <1>5, <1>6, <1>8, <1>9, CallTakes DEF At

LEMMA SettlesKeep ==
  ASSUME TypeInv, InCustody, MemoryOK', NEW w \in Workers, NEW d \in Deliveries,
         NEW status \in Statuses, NEW pc \in {"acking", "nacking"}, Settles(w, d, status, pc)
  PROVE  InCustody'
<1>1. d \in leases /\ d[1] \in Msgs /\ Exists(d[1])
  BY CustodyIs DEF Settles, InCustody, RecordsKept, LeasedExist
<1>2. /\ job[w].pc = "idle" /\ Settle({d}, status) /\ Call(w) /\ Hold(w, pc, d[1])
      /\ UNCHANGED <<setup, acked, published>>
  BY <1>1 DEF Settles, At, Call, env, told
<1>3. /\ QueueFits' /\ leases' \subseteq leases
      /\ \A o \in Custody : InMemory(o)' <=> InMemory(o) /\ ~(o[1] = 1 /\ o[2] = d)
  <2>1. QueueFits' /\ \A o \in Custody : InMemory(o)' <=> InMemory(o) /\ ~(o[1] = 1 /\ o[2] \in {d})
    BY <1>2, SettlePlaces DEF InCustody, OnePlace
  <2> QED BY <1>2, <2>1 DEF Settle
<1>4. pc \in Steps /\ pc \in Owning
  BY OwningIs DEF Steps, Saving
<1>5. job[w].batch = {}
  BY <1>2 DEF InCustody, OnePlace, BatchFits
<1>6. OthersWait(w) /\ job'[w].pc = pc /\ job'[w].msg = d[1] /\ job'[w].batch = {}
  BY <1>1, <1>2, <1>4, <1>5, HoldIs, JobFields
<1>7. /\ BatchFits(job'[w]) /\ Taking(w)'
      /\ \A x : (Owns(w, x)' <=> x = d[1]) /\ (Carries(w, x)' => x = d[1])
  BY <1>4, <1>6, OwnsNext DEF BatchFits, Taking
<1>8. /\ LeaseObject(d) \in Custody /\ Of(LeaseObject(d)) = d[1]
      /\ InMemory(LeaseObject(d)) /\ ~InMemory(LeaseObject(d))'
  <2>1. /\ LeaseObject(d) \in Custody /\ Of(LeaseObject(d)) = d[1]
        /\ LeaseObject(d)[1] = 1 /\ LeaseObject(d)[2] = d
    BY CustodyIs
  <2>2. InMemory(LeaseObject(d))
    BY <1>1, <2>1 DEF InMemory
  <2> QED BY <1>3, <2>1, <2>2
<1>9. \A x \in Msgs : Exists(x) => Exists(x)'
  BY <1>2, ExistsStays DEF TypeInv
<1>10. \A x \in Msgs : Owns(w, x)' \/ Carries(w, x)' =>
         Taking(w)' /\ \E o \in Custody : Of(o) = x /\ InMemory(o) /\ ~InMemory(o)'
  BY <1>7, <1>8
<1> QED BY <1>2, <1>3, <1>6, <1>7, <1>9, <1>10, CallTakes DEF At

LEMMA SweepKeeps ==
  ASSUME TypeInv, InCustody, MemoryOK', NEW w \in Workers, Sweep(w)
  PROVE  InCustody'
<1> DEFINE overdue == leases \cap due
           back == {d[1] : d \in {x \in overdue : Exists(x[1])}}
           pc == IF back = {} THEN "dequeue" ELSE "sweeping"
           j == [job[w] EXCEPT !.pc = pc, !.batch = back]
<1>1. /\ job[w].pc = "sweep" /\ Unlocked /\ Settle(overdue, "queued")
      /\ job' = [job EXCEPT ![w] = j] /\ UNCHANGED <<setup, acked, published>>
      /\ IF back = {} THEN UNCHANGED <<bucket, saved, save>> ELSE StartSave(w)
  BY DEF Sweep, At, env, told
<1>2. /\ overdue \subseteq leases /\ overdue \subseteq Deliveries
      /\ back \subseteq Msgs /\ \A m : m \in back <=> \E d \in overdue : d[1] = m
  BY DEF InCustody, RecordsKept, LeasedExist, TypeInv, MemoryOK, Deliveries
<1>3. pc \in {"dequeue", "sweeping"} /\ (back = {} <=> pc = "dequeue")
  OBVIOUS
<1> HIDE DEF pc, back, overdue
<1>4. /\ pc \in Steps /\ pc \notin Owning \cup Carrying
  BY <1>3, OwningIs DEF Steps, Saving
<1>5. j \in Jobs /\ j.pc = pc /\ j.batch = back
  <2>1. pc \in Steps /\ back \subseteq Msgs
    BY <1>2, <1>4
  <2> QED BY <2>1, JobFields DEF Jobs
<1> HIDE DEF j
<1>6. OthersWait(w) /\ job'[w] = j
  BY <1>1, <1>5, JobIs, JobFields
<1>7. /\ BatchFits(job'[w])
      /\ \A x : (Owns(w, x)' <=> x \in back) /\ (Carries(w, x)' <=> x \in back)
  <2>1. BatchFits(job'[w])
    BY <1>3, <1>5, <1>6 DEF BatchFits
  <2> QED BY <1>4, <1>5, <1>6, <2>1, OwnsNext
<1>8. "queued" \in Statuses
  BY DEF Statuses
<1>9. CASE back = {}
  <2>1. overdue = {}
    BY <1>2, <1>9
  <2>2. UNCHANGED <<queue, leases, record>>
    <3>1. record' = [m \in Msgs |-> record[m]] /\ leases' = leases /\ queue' = queue
      BY <1>1, <2>1 DEF Settle
    <3> QED BY <3>1 DEF TypeInv, MemoryOK
  <2>3. UNCHANGED <<bucket, saved, save>>
    BY <1>1, <1>9
  <2>4. RecordsStay
    BY <2>2, <2>3 DEF RecordsStay, Exists, InBucket
  <2>5. ~Taking(w)
    BY <1>1 DEF Taking
  <2>6. CarriedHaveRecords(w)'
    <3>1. job'[w].pc = "dequeue" /\ \A x : ~Carries(w, x)'
      BY <1>3, <1>5, <1>6, <1>7, <1>9
    <3> QED BY <3>1 DEF CarriedHaveRecords, At
  <2> QED BY <1>1, <1>6, <1>7, <1>9, <2>2, <2>3, <2>4, <2>5, <2>6, QuietKeeps
<1>10. CASE back # {}
  <2>1. Call(w) /\ job'[w].pc = "sweeping" /\ Taking(w)'
    BY <1>1, <1>3, <1>5, <1>6, <1>10 DEF Call, Taking
  <2>2. /\ QueueFits' /\ leases' \subseteq leases
        /\ \A o \in Custody : InMemory(o)' <=> InMemory(o) /\ ~(o[1] = 1 /\ o[2] \in overdue)
    BY <1>1, SettlePlaces DEF InCustody, OnePlace, Settle
  <2>3. \A m \in Msgs : Exists(m) => Exists(m)'
    BY <1>1, <1>8, ExistsStays DEF TypeInv
  <2>4. \A m \in back : \E o \in Custody : Of(o) = m /\ InMemory(o) /\ ~InMemory(o)'
    <3> SUFFICES ASSUME NEW m \in back
                 PROVE  \E o \in Custody : Of(o) = m /\ InMemory(o) /\ ~InMemory(o)'
      OBVIOUS
    <3>1. PICK d \in overdue : d[1] = m
      BY <1>2
    <3>2. /\ LeaseObject(d) \in Custody /\ Of(LeaseObject(d)) = m
          /\ LeaseObject(d)[1] = 1 /\ LeaseObject(d)[2] = d
      BY <1>2, <3>1, CustodyIs
    <3>3. InMemory(LeaseObject(d))
      BY <1>2, <3>2 DEF InMemory
    <3> QED BY <2>2, <3>2, <3>3
  <2> QED BY <1>1, <1>6, <1>7, <2>1, <2>2, <2>3, <2>4, CallTakes DEF At
<1> QED BY <1>9, <1>10

LEMMA ClaimKeeps ==
  ASSUME TypeInv, InCustody, MemoryOK', NEW w \in Workers, Claim(w)
  PROVE  InCustody'
<1>0. PICK m, n : m = job[w].msg /\ n = made[m] + 1
  OBVIOUS
<1> DEFINE d == <<m, n>>
           p == LeaseObject(d)
           j == [job[w] EXCEPT !.pc = "leasing", !.last = n]
<1>1. /\ job[w].pc \in {"claim", "relock"} /\ Exists(m) /\ Lease(d) /\ Call(w)
      /\ job' = [job EXCEPT ![w] = j] /\ UNCHANGED <<setup, acked, published>>
  BY <1>0 DEF Claim, At, Msg, told
<1>2. d \in Deliveries
  BY <1>0, ClaimTypes DEF Msg
<1>3. d[1] = m /\ m \in Msgs /\ n \in 0 .. MaxDeliveries
  BY <1>2, BoundAssumption DEF Deliveries
<1> HIDE DEF d
<1>4. job[w].batch = {} /\ Carries(w, m)
  BY <1>0, <1>1, OwnsIs, OwningIs DEF InCustody, OnePlace, BatchFits
<1>5. "leasing" \in Steps /\ "leasing" \notin Owning \cup Carrying
  BY OwningIs DEF Steps, Saving
<1>6. j \in Jobs /\ j.pc = "leasing" /\ j.batch = {}
  BY <1>3, <1>4, <1>5, JobFields DEF Jobs
<1> HIDE DEF j
<1>7. OthersWait(w) /\ job'[w] = j
  BY <1>1, <1>6, JobIs, JobFields
<1>8. BatchFits(job'[w]) /\ \A x : ~Owns(w, x)' /\ ~Carries(w, x)'
  BY <1>5, <1>6, <1>7, OwnsNext DEF BatchFits
<1>9. p \in Custody /\ Of(p) = m /\ Stored(p)
  BY <1>2, <1>3, CustodyIs DEF Stored
<1>10. QueueFits' /\ \A o \in Custody : InMemory(o)' <=> InMemory(o) \/ o = p
  BY <1>1, <1>2, LeasePlaces DEF InCustody, OnePlace
<1> HIDE DEF p
<1>11. \A x \in Msgs : Exists(x) => Exists(x)'
  BY <1>1, <1>2, <1>3, ExistsStays DEF TypeInv
<1>12. LeasedExist'
  <2>1. leases' = leases \cup {d} /\ \A x \in leases : x[1] \in Msgs
    BY <1>1, CustodyIs DEF Lease, TypeInv, MemoryOK
  <2> QED BY <1>1, <1>3, <1>11, <2>1 DEF InCustody, RecordsKept, LeasedExist
<1> QED BY <1>1, <1>4, <1>6, <1>7, <1>8, <1>9, <1>10, <1>11, <1>12, CallPuts

(* The message a request is about to put back, and what it has besides.    *)
LEMMA EnqueuerIs ==
  ASSUME TypeInv, InCustody, NEW w \in Workers,
         job[w].pc \in {"enqueue", "requeueOne", "putBack", "return"}
  PROVE  /\ job[w].msg \in Msgs /\ Carries(w, job[w].msg) /\ ~Taking(w)
         /\ ~Found(QueueObject(job[w].msg)) /\ job[w].msg \notin job[w].batch
         /\ job[w].pc # "requeueOne" => job[w].batch = {}
<1>1. job[w].msg \in Msgs
  BY JobFields DEF WithMessage
<1>2. Carries(w, job[w].msg) /\ Owns(w, job[w].msg)
  BY OwnsIs, OwningIs
<1>3. QueueObject(job[w].msg) \in Custody /\ Of(QueueObject(job[w].msg)) = job[w].msg
  BY <1>1, CustodyIs
<1>4. OwnedIsTaken(w) /\ BatchFits(job[w])
  BY DEF InCustody, OnePlace
<1>5. ~Found(QueueObject(job[w].msg))
  BY <1>2, <1>3, <1>4 DEF OwnedIsTaken
<1>6. ~Taking(w)
  BY DEF Taking
<1>7. /\ job[w].msg \notin job[w].batch
      /\ job[w].pc # "requeueOne" => job[w].batch = {}
  BY <1>4 DEF BatchFits
<1> QED BY <1>1, <1>2, <1>5, <1>6, <1>7

LEMMA AppendsKeep ==
  ASSUME TypeInv, InCustody, MemoryOK', NEW w \in Workers,
         job[w].pc \in {"enqueue", "requeueOne", "putBack", "return"},
         NEW pc \in {"enqueuing", "requeuing", "puttingBack", "returning"},
         pc = "requeuing" <=> job[w].pc = "requeueOne", AppendAndSave(w, pc)
  PROVE  InCustody'
<1>0. PICK m \in Msgs : m = job[w].msg
  BY EnqueuerIs
<1>1. /\ Carries(w, m) /\ ~Found(QueueObject(m)) /\ m \notin job[w].batch
      /\ job[w].pc # "requeueOne" => job[w].batch = {}
  BY <1>0, EnqueuerIs
<1>2. /\ ~ObjectQueue /\ AppendMessage(m) /\ Call(w) /\ Become(w, pc)
      /\ UNCHANGED <<leases, record, setup, acked, published>>
  BY <1>0 DEF AppendAndSave, AppendMessage, Msg, env, told
<1>3. pc \in Steps /\ pc \notin Owning \cup Carrying
  BY OwningIs DEF Steps, Saving
<1>4. /\ \A x : Owns(w, x)' <=> x \in job[w].batch
      /\ \A x : Carries(w, x)' <=> x \in job[w].batch
      /\ OthersWait(w) /\ job'[w].pc = pc /\ BatchFits(job'[w])
  BY <1>0, <1>1, <1>2, <1>3, BecomeOwns DEF Batches
<1>5. QueueObject(m) \in Custody /\ Of(QueueObject(m)) = m /\ Stored(QueueObject(m))
  BY <1>2, CustodyIs DEF Stored
<1>6. QueueFits' /\ \A o \in Custody : InMemory(o)' <=> InMemory(o) \/ o = QueueObject(m)
  BY <1>1, <1>2, AppendPlaces DEF InCustody, OnePlace, TypeInv, Found
<1>7. (\A x \in Msgs : Exists(x) => Exists(x)') /\ LeasedExist'
  BY <1>2 DEF InCustody, RecordsKept, LeasedExist, Exists
<1>8. \A x : (Owns(w, x)' => Owns(w, x)) /\ (Carries(w, x)' => Carries(w, x))
  BY <1>4, OwnsIs
<1>9. ~Owns(w, Of(QueueObject(m)))'
  <2>1. \A x : x = m => ~Owns(w, x)'
    BY <1>1, <1>4
  <2> QED BY <1>5, <2>1
<1> QED BY <1>1, <1>2, <1>4, <1>5, <1>6, <1>7, <1>8, <1>9, CallPuts

(* What a put or a delete of a queue object does not touch.                *)
LEMMA ObjectIs ==
  ASSUME TypeInv, InCustody, NEW m \in Msgs, NEW v \in {Absent, Present}, ObjectQueue,
         bucket' = [bucket EXCEPT ![QueueObject(m)] = v],
         UNCHANGED <<memory, saved, save, setup>>
  PROVE  /\ Synced' /\ QueueFits' /\ RecordsStay /\ LeasedExist'
         /\ \A x \in Msgs : RecordFit(x)'
         /\ \A o \in Custody : o # QueueObject(m) =>
              (Traced(o)' <=> Traced(o)) /\ (Found(o)' <=> Found(o))
         /\ ~Stored(QueueObject(m)) /\ (Found(QueueObject(m))' <=> v = Present)
         /\ QueueObject(m) \in Custody /\ Of(QueueObject(m)) = m
<1>1. /\ bucket'[QueueObject(m)] = v
      /\ \A o \in Objects : o # QueueObject(m) => bucket'[o] = bucket[o]
  BY BucketPutIs DEF TypeInv
<1>2. /\ QueueObject(m) \in Custody /\ Of(QueueObject(m)) = m /\ ~Stored(QueueObject(m))
      /\ \A o \in Custody : o \in Objects
      /\ \A x \in Msgs : RecordObject(x) \in Objects /\ RecordObject(x) # QueueObject(m)
  <2>1. QueueObject(m) \in Custody /\ Of(QueueObject(m)) = m /\ QueueObject(m)[1] = 3
    BY CustodyIs
  <2>2. \A x \in Msgs : RecordObject(x) \in Objects /\ RecordObject(x) # QueueObject(m)
    BY <2>1, ObjectNames, CustodyIs
  <2> QED BY <2>1, <2>2, CustodyIs DEF Stored
<1>3. /\ QueueFits'
      /\ \A o \in Custody : (InMemory(o)' <=> InMemory(o)) /\ (Stored(o)' <=> Stored(o))
  BY SamePlaces DEF memory, InCustody, OnePlace
<1>4. Synced'
  BY <1>1, <1>2, <1>3, SyncedStays DEF InCustody
<1>5. RecordsStay
  BY <1>1, <1>2 DEF RecordsStay, Exists, InBucket, memory
<1>6. LeasedExist' /\ \A x \in Msgs : RecordFit(x)'
  BY <1>5, RecordsWait DEF InCustody, RecordsKept, LeasedExist, Exists, memory
<1>7. \A o \in Custody : o # QueueObject(m) =>
        (Traced(o)' <=> Traced(o)) /\ (Found(o)' <=> Found(o))
  BY <1>1, <1>2, <1>3 DEF Traced, Found, InBucket
<1>8. Found(QueueObject(m))' <=> v = Present
  <2>1. ~InMemory(QueueObject(m))'
    BY <1>2, <1>3, MemoryIsStored
  <2>2. InBucket(QueueObject(m))' <=> v = Present
    BY <1>1, ValuesDiffer DEF InBucket
  <2>3. ~Stored(QueueObject(m))'
    BY <1>2, <1>3
  <2> QED BY <2>1, <2>2, <2>3 DEF Found
<1> QED BY <1>2, <1>3, <1>4, <1>5, <1>6, <1>7, <1>8

LEMMA PutObjectKeeps ==
  ASSUME TypeInv, InCustody, NEW w \in Workers,
         job[w].pc \in {"enqueue", "requeueOne", "putBack", "return"},
         NEW pc \in {"idle", "requeue"},
         pc = "requeue" <=> job[w].pc = "requeueOne", PutObject(w, pc), acked' = acked
  PROVE  InCustody'
<1>0. PICK m \in Msgs : m = job[w].msg
  BY EnqueuerIs
<1>1. /\ Carries(w, m) /\ ~Taking(w) /\ m \notin job[w].batch
      /\ job[w].pc # "requeueOne" => job[w].batch = {}
  BY <1>0, EnqueuerIs
<1>2. /\ ObjectQueue /\ bucket' = [bucket EXCEPT ![QueueObject(m)] = Present]
      /\ Become(w, pc) /\ UNCHANGED <<memory, saved, save, setup, published>>
  BY <1>0 DEF PutObject, PutMessage, Msg, env
<1>3. pc \in Steps /\ pc \notin Owning \cup Carrying
  BY OwningIs DEF Steps
<1>4. /\ \A x : (Owns(w, x)' => x \in job[w].batch) /\ (Carries(w, x)' => x \in job[w].batch)
      /\ OthersWait(w) /\ job'[w].pc = pc /\ BatchFits(job'[w])
  BY <1>0, <1>1, <1>2, <1>3, BecomeOwns DEF Batches
<1>5. /\ Synced' /\ QueueFits' /\ RecordsStay /\ LeasedExist'
      /\ \A x \in Msgs : RecordFit(x)'
      /\ \A o \in Custody : o # QueueObject(m) =>
           (Traced(o)' <=> Traced(o)) /\ (Found(o)' <=> Found(o))
      /\ QueueObject(m) \in Custody /\ Of(QueueObject(m)) = m
  BY <1>2, ObjectIs
<1>6. \A x : (Owns(w, x)' => Owns(w, x)) /\ (Carries(w, x)' => Carries(w, x))
  BY <1>4, OwnsIs
<1>7. Owns(w, Of(QueueObject(m))) /\ ~Owns(w, Of(QueueObject(m)))'
  <2>1. \A x : x = m => ~Owns(w, x)' /\ Owns(w, x)
    BY <1>1, <1>4 DEF Owns
  <2> QED BY <1>5, <2>1
<1>8. OnePlace' /\ \A x \in Msgs : Around(x)' => Around(x)
  BY <1>1, <1>4, <1>5, <1>6, <1>7, PutKeeps DEF InCustody
<1>9. InTime'
  BY <1>2, <1>8, NothingIsZero, MsgsAssumption, TimeStays DEF InCustody, TypeInv
<1>10. CarriedHaveRecords(w)'
  <2>1. \A x \in Msgs : Carries(w, x)' => InBucket(RecordObject(x))'
    BY <1>5, <1>6 DEF InCustody, RecordsKept, CarriedHaveRecords, RecordsStay
  <2> QED BY <1>4, <2>1 DEF CarriedHaveRecords, At
<1>11. PlacedHaveRecords' /\ \A v \in Workers : CarriedHaveRecords(v)'
  BY <1>1, <1>2, <1>4, <1>5, <1>10, RecordsGoAlong DEF InCustody
<1> QED BY <1>5, <1>8, <1>9, <1>11 DEF InCustody, RecordsKept

LEMMA DequeueObjectKeeps ==
  ASSUME TypeInv, InCustody, NEW w \in Workers, DequeueObject(w)
  PROVE  InCustody'
<1>1. PICK m \in Oldest : /\ bucket' = [bucket EXCEPT ![QueueObject(m)] = Absent]
                          /\ Hold(w, "claim", m)
  BY DEF DequeueObject
<1>2. /\ m \in Msgs /\ InBucket(QueueObject(m)) /\ job[w].pc = "dequeue" /\ ObjectQueue
      /\ UNCHANGED <<memory, saved, save, setup, published, acked>>
  BY DEF Oldest, DequeueObject, At, env, told
<1>3. /\ Synced' /\ QueueFits' /\ RecordsStay /\ LeasedExist'
      /\ \A x \in Msgs : RecordFit(x)'
      /\ \A o \in Custody : o # QueueObject(m) =>
           (Traced(o)' <=> Traced(o)) /\ (Found(o)' <=> Found(o))
      /\ ~Stored(QueueObject(m)) /\ ~Found(QueueObject(m))'
      /\ QueueObject(m) \in Custody /\ Of(QueueObject(m)) = m
  BY <1>1, <1>2, ObjectIs, ValuesDiffer
<1>4. Found(QueueObject(m)) /\ Traced(QueueObject(m)) /\ ~Traced(QueueObject(m))'
  <2>1. ~Stored(QueueObject(m))'
    BY <1>2, <1>3 DEF Stored, ObjectQueue
  <2>2. Found(QueueObject(m)) /\ Traced(QueueObject(m))
    BY <1>2, <1>3 DEF Found, Traced
  <2>3. Synced' => \A o \in Custody : ~Stored(o)' => (Traced(o)' <=> Found(o)')
    BY DEF Synced, Traced, Found
  <2> QED BY <1>3, <2>1, <2>2, <2>3
<1>5. job[w].batch = {} /\ "claim" \in Steps
  BY <1>2, OwningIs DEF InCustody, OnePlace, BatchFits
<1>6. OthersWait(w) /\ job'[w].pc = "claim" /\ job'[w].msg = m /\ job'[w].batch = {}
  BY <1>1, <1>2, <1>5, HoldIs, JobFields
<1>7. /\ BatchFits(job'[w])
      /\ \A x : (Owns(w, x)' => x = m) /\ (Carries(w, x)' => x = m)
  BY <1>6, OwnsNext DEF BatchFits
<1>8. \A o \in Custody : (Traced(o)' => Traced(o)) /\ (Found(o)' => Found(o))
  BY <1>3, <1>4
<1>9. OnePlace' /\ \A x \in Msgs : Around(x)' => Around(x) \/ x = 0
  <2>1. \A o \in Custody : Owns(w, Of(o))' => ~Traced(o)'
    <3> SUFFICES ASSUME NEW o \in Custody, Owns(w, Of(o))', Traced(o)'
                 PROVE  FALSE
      OBVIOUS
    <3>1. Of(o) = m
      BY <1>7
    <3>2. o = QueueObject(m)
      BY <1>3, <1>4, <1>8, <3>1 DEF InCustody, OnePlace, OneTrace
    <3> QED BY <1>4, <3>2
  <2>2. \A x \in Msgs : Owns(w, x)' => \E o \in Custody : Of(o) = x /\ Found(o) /\ ~Found(o)'
    BY <1>3, <1>4, <1>7
  <2>3. OnePlace /\ ~Around(0)
    BY NothingIsZero DEF InCustody
  <2> QED BY <1>3, <1>6, <1>7, <1>8, <2>1, <2>2, <2>3, TakeKeeps
<1>10. InTime'
  BY <1>2, <1>9, NothingIsZero, MsgsAssumption, TimeStays DEF InCustody, TypeInv
<1>11. CarriedHaveRecords(w)'
  <2>1. InBucket(RecordObject(m))'
    BY <1>2, <1>3, <1>4 DEF InCustody, RecordsKept, PlacedHaveRecords, RecordsStay
  <2>2. \A x \in Msgs : Carries(w, x)' => InBucket(RecordObject(x))'
    <3>1. \A x : x = m => InBucket(RecordObject(x))'
      BY <2>1 DEF InBucket
    <3> QED BY <1>7, <3>1
  <2> QED BY <1>6, <2>2 DEF CarriedHaveRecords, At
<1>12. PlacedHaveRecords' /\ \A v \in Workers : CarriedHaveRecords(v)'
  BY <1>2, <1>3, <1>6, <1>8, <1>11, RecordsGoAlong DEF InCustody
<1> QED BY <1>3, <1>9, <1>10, <1>12 DEF InCustody, RecordsKept

(* A save goes on: it puts or deletes one object.                          *)
LEMMA SavingKeeps ==
  ASSUME TypeInv, InCustody, NEW w \in Workers, Save(w)
  PROVE  InCustody'
<1>1. PICK o \in NextCalls : SaveObject(w, o)
  BY DEF Save
<1>2. /\ save.by = w /\ save'.desired = save.desired /\ bucket'[o] = save.desired[o]
      /\ \A p \in Objects : p # o => bucket'[p] = bucket[p]
      /\ UNCHANGED <<queue, record, leases, saved>> /\ o \in save.puts \cup save.deletes
      /\ w # "nobody"
  BY <1>1, SaveObjectIs, NextCallsAre, WorkersAssumption DEF TypeInv, memory
<1>3. UNCHANGED <<job, setup, published, acked>>
  BY DEF Save, env, told
<1>4. /\ QueueFits'
      /\ \A p \in Custody : (InMemory(p)' <=> InMemory(p)) /\ (Stored(p)' <=> Stored(p))
  BY <1>2, <1>3, SamePlaces DEF InCustody, OnePlace
<1>5. Synced'
  BY <1>1, <1>3, SyncedSaves DEF InCustody
<1>6. \A p \in Custody : p = o => Stored(p) /\ (bucket'[p] # Absent <=> InMemory(p))
  BY <1>2 DEF InCustody, Synced, Unlocked
<1>7. \A p \in Custody : (Traced(p)' => Traced(p)) /\ (Found(p)' => Found(p))
  <2> SUFFICES ASSUME NEW p \in Custody
               PROVE  (Traced(p)' => Traced(p)) /\ (Found(p)' => Found(p))
    OBVIOUS
  <2>1. CASE p = o
    BY <1>2, <1>4, <1>6, <2>1 DEF Traced, Found, InBucket
  <2>2. CASE p # o
    BY <1>2, <1>4, <2>2, CustodyIs DEF Traced, Found, InBucket
  <2> QED BY <2>1, <2>2
<1>8. OthersWait(w) /\ job'[w] = job[w] /\ BatchFits(job'[w])
  BY <1>3 DEF OthersWait, InCustody, OnePlace
<1>9. \A x : /\ Owns(w, x)' <=> Owns(w, x)
             /\ Carries(w, x)' <=> Carries(w, x)
  BY <1>3 DEF Owns, Carries, Msg
<1>10. Taking(w)' <=> Taking(w)
  BY <1>3 DEF Taking
<1>11. OnePlace' /\ \A x \in Msgs : Around(x)' => Around(x) \/ x = 0
  <2>1. OnePlace /\ ~Around(0)
    BY NothingIsZero DEF InCustody
  <2>2. \A p \in Custody : Owns(w, Of(p))' =>
          \/ Taking(w)' \/ ~Traced(p)' \/ (Owns(w, Of(p)) /\ ~Taking(w)) \/ Of(p) = 0
    BY <1>9, <1>10
  <2>3. \A x \in Msgs : Owns(w, x)' =>
          \/ Owns(w, x) \/ x = 0
          \/ \E p \in Custody : Of(p) = x /\ Found(p) /\ ~Found(p)'
    BY <1>9
  <2> QED BY <1>4, <1>7, <1>8, <2>1, <2>2, <2>3, TakeKeeps
<1>12. InTime'
  BY <1>3, <1>11, NothingIsZero, MsgsAssumption, TimeStays DEF InCustody, TypeInv
<1>13. RecordsStay /\ \A m \in Msgs : RecordFit(m)'
  BY <1>1, RecordsSave DEF InCustody
<1>14. LeasedExist'
  BY <1>2 DEF InCustody, RecordsKept, LeasedExist, Exists
<1>15. CarriedHaveRecords(w)'
  <2>1. \A x \in Msgs : Carries(w, x)' => InBucket(RecordObject(x))'
    BY <1>9, <1>13 DEF InCustody, RecordsKept, CarriedHaveRecords, RecordsStay
  <2>2. CarriedHaveRecords(w) /\ Msg(w)' = Msg(w)
    BY <1>3 DEF InCustody, RecordsKept, Msg
  <2> QED BY <1>2, <1>3, <2>1, <2>2 DEF CarriedHaveRecords, At
<1>16. PlacedHaveRecords' /\ \A v \in Workers : CarriedHaveRecords(v)'
  BY <1>2, <1>7, <1>8, <1>13, <1>15, RecordsGoAlong DEF InCustody
<1> QED BY <1>5, <1>11, <1>12, <1>13, <1>14, <1>16 DEF InCustody, RecordsKept

(* The end of a save: what its request had taken is no longer in the       *)
(* bucket, and what it has put is.                                         *)
LEMMA SavedKeeps ==
  ASSUME TypeInv, InCustody, NEW w \in Workers, Saved(w)
  PROVE  InCustody'
<1>1. /\ FinishSave(w) /\ Become(w, AfterSave(job[w].pc))
      /\ UNCHANGED <<setup, published>>
      /\ \A m \in acked' : m \in acked \/ (m = job[w].msg /\ job[w].pc = "acking")
      /\ acked \subseteq acked'
  BY DEF Saved, Answer, AddIf, env, At, Msg
<1>2. /\ save.by = w /\ UNCHANGED <<queue, record, leases, bucket>> /\ w # "nobody"
  BY <1>1, FinishIs, WorkersAssumption DEF TypeInv, memory
<1>3. job[w].pc \in Saving /\ \A v \in Workers : v # w => job[v].pc \notin Saving
  BY <1>2, OneSaves DEF TypeInv
<1> DEFINE pc == AfterSave(job[w].pc)
<1>4. pc \in Steps
  BY <1>3, AfterIs
<1>5. /\ pc \in {"enqueue", "requeue", "claim", "return", "idle"}
      /\ pc = "enqueue" => job[w].pc = "registering"
      /\ pc = "claim" => job[w].pc = "dequeuing"
      /\ pc = "return" => job[w].pc = "nacking"
      /\ job[w].pc \in {"sweeping", "requeuing"} => pc = "requeue"
      /\ job[w].pc = "acking" => pc = "idle"
  BY DEF AfterSave
<1>6. Become(w, pc)
  BY <1>1
<1> HIDE DEF pc
<1>7. BatchFits(job[w]) /\ CarriedHaveRecords(w)
  BY DEF InCustody, OnePlace, RecordsKept
<1>8. job[w].batch # {} => pc = "requeue"
  BY <1>3, <1>5, <1>7 DEF BatchFits, Saving
<1>9. /\ \A x : Owns(w, x)' <=>
              pc # "idle" /\ (x \in job[w].batch \/ (job[w].msg = x /\ pc \in Owning))
      /\ \A x : Carries(w, x)' <=>
              pc # "idle" /\ (x \in job[w].batch \/ (job[w].msg = x /\ pc \in Carrying))
      /\ OthersWait(w) /\ job'[w].pc = pc /\ BatchFits(job'[w])
  BY <1>4, <1>5, <1>6, <1>8, BecomeOwns DEF Batches
<1>10. \A x : /\ Owns(w, x)' => Owns(w, x)
              /\ Carries(w, x)' => Carries(w, x) \/ (job[w].pc = "registering" /\ job[w].msg = x)
  BY <1>5, <1>9, OwnsIs, OwningIs
<1>11. /\ QueueFits'
       /\ \A p \in Custody : (InMemory(p)' <=> InMemory(p)) /\ (Stored(p)' <=> Stored(p))
  BY <1>1, <1>2, SamePlaces DEF InCustody, OnePlace
<1>12. Synced' /\ Unlocked'
  BY <1>1, SyncedFinishes DEF InCustody
<1>13. \A p \in Custody : (Found(p)' <=> Found(p)) /\ (Traced(p)' => Found(p))
  <2>1. \A p \in Custody : Found(p)' <=> Found(p)
    BY <1>2, <1>11 DEF Found, InBucket
  <2>2. \A p \in Custody : Traced(p)' => Found(p)'
    BY <1>12 DEF Synced, Traced, Found
  <2> QED BY <2>1, <2>2
<1>14. \A p \in Custody : Owns(w, Of(p)) => ~Found(p)
  BY DEF InCustody, OnePlace, OwnedIsTaken
<1>15. OnePlace' /\ \A x \in Msgs : Around(x)' => Around(x) \/ x = 0
  <2>1. OnePlace /\ ~Around(0)
    BY NothingIsZero DEF InCustody
  <2>2. \A p \in Custody : (Traced(p)' => Traced(p)) /\ (Found(p)' => Found(p))
    BY <1>13, FoundIsTraced
  <2>3. \A p \in Custody : Owns(w, Of(p))' => ~Traced(p)'
    BY <1>10, <1>13, <1>14
  <2> QED BY <1>9, <1>10, <1>11, <2>1, <2>2, <2>3, TakeKeeps
<1>16. InTime'
  <2>1. \A m \in Msgs : Around(m)' => Around(m)
    BY <1>15, MsgsAssumption
  <2>2. ASSUME NEW m \in acked'
        PROVE  m <= published /\ ~Around(m)'
    <3>1. CASE m \in acked
      BY <2>1, <3>1 DEF InCustody, InTime, TypeInv, RestOK
    <3>2. CASE m = job[w].msg /\ job[w].pc = "acking"
      <4>1. m \in Msgs
        BY <3>2, JobFields DEF WithMessage
      <4>2. Owns(w, m) /\ ~Owns(w, m)'
        BY <1>5, <1>9, <3>2, OwnsIs, OwningIs
      <4>3. m <= published
        BY <4>1, <4>2, AroundIs DEF InCustody, InTime
      <4>4. \A p \in Custody : Of(p) = m => ~Traced(p)'
        BY <1>13, <1>14, <4>2
      <4>5. ASSUME NEW v \in Workers, Owns(v, m)'
            PROVE  FALSE
        <5>1. v # w
          BY <4>2, <4>5
        <5>2. Owns(v, m)
          BY <1>9, <4>5, <5>1 DEF OthersWait, Owns, Carries, Msg
        <5> QED BY <4>1, <4>2, <5>1, <5>2 DEF InCustody, OnePlace, OneOwner
      <4> QED BY <4>3, <4>4, <4>5 DEF Around
    <3> QED BY <1>1, <2>2, <3>1, <3>2
  <2> QED BY <1>1, <2>1, <2>2 DEF InCustody, InTime
<1>17. /\ RecordsStay /\ \A m \in Msgs : RecordFit(m)'
       /\ \A m \in Msgs : save.desired[RecordObject(m)] # Absent => InBucket(RecordObject(m))
  BY <1>1, RecordsFinish DEF InCustody
<1>18. LeasedExist'
  BY <1>2 DEF InCustody, RecordsKept, LeasedExist, Exists
<1>19. CarriedHaveRecords(w)'
  <2>1. \A x \in Msgs : job[w].pc = "registering" /\ job[w].msg = x =>
                          InBucket(RecordObject(x))
    BY <1>7, <1>17 DEF CarriedHaveRecords, At, Msg
  <2>2. \A x \in Msgs : Carries(w, x) => InBucket(RecordObject(x))
    BY <1>7 DEF CarriedHaveRecords
  <2>3. \A x \in Msgs : Carries(w, x)' => InBucket(RecordObject(x))'
    BY <1>10, <1>17, <2>1, <2>2 DEF RecordsStay
  <2> QED BY <1>5, <1>9, <2>3 DEF CarriedHaveRecords, At
<1>20. PlacedHaveRecords' /\ \A v \in Workers : CarriedHaveRecords(v)'
  <2>1. \A v \in Workers : v # w => ~At(v, "registering")
    BY <1>3 DEF At, Saving
  <2>2. \A p \in Custody : Traced(p)' => Traced(p)
    BY <1>13, FoundIsTraced
  <2> QED BY <1>9, <1>17, <1>19, <2>1, <2>2, RecordsGoAlong DEF InCustody
<1> QED BY <1>12, <1>15, <1>16, <1>17, <1>18, <1>20 DEF InCustody, RecordsKept

LEMMA CrashKeeps ==
  ASSUME TypeInv, InCustody, Crash
  PROVE  InCustody'
<1>1. /\ Load /\ UNCHANGED <<setup, published, acked>> /\ job' = [w \in Workers |-> Idle]
  BY DEF Crash, env
<1>2. /\ Synced' /\ Unlocked' /\ QueueFits' /\ bucket' = bucket
      /\ \A o \in Custody : Traced(o)' => InBucket(o)
  BY <1>1, SyncedLoads
<1>3. \A w \in Workers : job'[w] = Idle
  BY <1>1
<1>4. Idle.pc = "idle" /\ Idle.batch = {}
  BY DEF Idle
<1>5. \A w \in Workers, m \in Msgs : ~Owns(w, m)' /\ ~Carries(w, m)'
  <2> SUFFICES ASSUME NEW w \in Workers, NEW m \in Msgs
               PROVE  ~Owns(w, m)' /\ ~Carries(w, m)'
    OBVIOUS
  <2> QED BY <1>3, <1>4, OwnsNext, OwningIs
<1>6. \A o \in Custody : Traced(o)' => Traced(o)
  BY <1>2 DEF Traced
<1>7. OnePlace'
  <2>1. OneTrace'
    BY <1>6 DEF InCustody, OnePlace, OneTrace
  <2>2. OneOwner'
    BY <1>5 DEF OneOwner
  <2>3. \A w \in Workers : OwnedIsTaken(w)'
    BY <1>5, CustodyIs DEF OwnedIsTaken
  <2>4. \A w \in Workers : BatchFits(job'[w])
    BY <1>3, <1>4 DEF BatchFits
  <2> QED BY <1>2, <2>1, <2>2, <2>3, <2>4 DEF OnePlace
<1>8. InTime'
  <2>1. \A m \in Msgs : Around(m)' => Around(m)
    BY <1>5, <1>6 DEF Around
  <2> QED BY <1>1, <2>1 DEF InCustody, InTime, TypeInv, RestOK
<1>9. /\ MemoryOK' /\ saved' = Wanted' /\ leases' = LoadedLeases /\ record' = LoadedRecord
      /\ save'.puts = {} /\ save'.deletes = {}
  BY <1>1, LoadIs DEF TypeInv
<1>10. \A m \in Msgs : record'[m] # Absent <=> m \in Active /\ InBucket(RecordObject(m))
  BY <1>9 DEF LoadedRecord, InBucket
<1>11. \A m \in Msgs : RecordFit(m)'
  <2>1. record' \in [Msgs -> Records \cup {Absent}]
    BY <1>9 DEF MemoryOK
  <2>2. \A m \in Msgs : saved'[RecordObject(m)] = record'[m]
    BY <1>1, <1>9, <2>1, WantedNext
  <2> QED BY <1>2, <1>9, <1>10, <2>2 DEF RecordFit, Exists, InBucket
<1>12. \A o \in Custody : InBucket(o) => InBucket(RecordObject(Of(o)))
  BY DEF InCustody, RecordsKept, PlacedHaveRecords, Traced
<1>13. LeasedExist'
  <2> SUFFICES ASSUME NEW d \in LoadedLeases
               PROVE  record'[d[1]] # Absent
    BY <1>9 DEF LeasedExist, Exists
  <2>1. /\ LeaseObject(d) \in Custody /\ Of(LeaseObject(d)) = d[1] /\ d[1] \in Msgs
        /\ InBucket(LeaseObject(d)) /\ d[1] \in Active
    BY CustodyIs DEF LoadedLeases, Active
  <2>2. InBucket(RecordObject(d[1]))
    BY <1>12, <2>1
  <2> QED BY <1>10, <2>1, <2>2
<1>14. PlacedHaveRecords'
  BY <1>2, <1>12 DEF PlacedHaveRecords, InBucket
<1>15. \A w \in Workers : CarriedHaveRecords(w)'
  BY <1>3, <1>4, <1>5 DEF CarriedHaveRecords, At
<1> QED BY <1>2, <1>7, <1>8, <1>11, <1>13, <1>14, <1>15 DEF InCustody, RecordsKept

LEMMA CustodyNext ==
  ASSUME TypeInv, CustodyInv, [Next]_vars
  PROVE  CustodyInv'
<1> SUFFICES ASSUME failures' = 0
             PROVE  InCustody'
  BY DEF CustodyInv
<1>0. MemoryOK' /\ setup.workers \subseteq Workers /\ setup.entries \subseteq Entries
  BY TypeNext, SetupFields DEF TypeInv
<1>1. failures \in Nat
  BY DEF TypeInv, RestOK
<1>2. failures = 0 => InCustody
  BY DEF CustodyInv
<1>3. ASSUME NEW w \in Workers, PutFails(w, "abort") \/ PutFails(w, "dequeue")
                                  \/ PutFails(w, "idle") \/ DequeueFails(w) \/ SaveFails(w)
      PROVE  FALSE
  BY <1>1, <1>3 DEF PutFails, DequeueFails, SaveFails
<1>4. ASSUME NEW w \in Workers, Enqueues(w)
      PROVE  InCustody'
  <2>1. CASE \E pc \in {"enqueuing", "requeuing", "puttingBack", "returning"} :
               /\ AppendAndSave(w, pc)
               /\ pc = "requeuing" <=> job[w].pc = "requeueOne"
    <3>1. failures = 0
      BY <2>1 DEF AppendAndSave, count
    <3>2. job[w].pc \in {"enqueue", "requeueOne", "putBack", "return"}
      BY <1>4, EnqueueIs
    <3> QED BY <1>0, <1>2, <2>1, <3>1, <3>2, AppendsKeep
  <2>2. CASE \E pc \in {"idle", "requeue"} :
               /\ PutObject(w, pc) /\ UNCHANGED <<handed, acked, created, removed, lost>>
               /\ pc = "requeue" <=> job[w].pc = "requeueOne"
    <3>1. failures = 0
      BY <2>2 DEF PutObject, count
    <3>2. job[w].pc \in {"enqueue", "requeueOne", "putBack", "return"}
      BY <1>4, EnqueueIs
    <3> QED BY <1>2, <2>2, <3>1, <3>2, PutObjectKeeps
  <2>3. CASE \E pc \in {"abort", "dequeue", "idle"} : PutFails(w, pc)
    BY <1>3, <2>3
  <2> QED BY <1>4, <2>1, <2>2, <2>3, EnqueueIs
<1>5. ASSUME NEW w \in Workers, Proceed(w)
      PROVE  InCustody'
  <2>1. CASE Register(w) \/ RegisterReplay(w)
    BY <1>0, <1>2, <2>1, RegistersKeep DEF Register, RegisterReplay, count
  <2>2. CASE Abort(w)
    BY <1>2, <2>2 DEF Abort, At, count, InCustody, RecordsKept, CarriedHaveRecords
  <2>3. CASE Sweep(w)
    BY <1>0, <1>2, <2>3, SweepKeeps DEF Sweep, count
  <2>4. CASE RequeueNext(w) \/ NothingQueued(w) \/ ReadRecord(w)
    <3>1. failures = 0
      BY <2>4 DEF RequeueNext, NothingQueued, ReadRecord, count
    <3> QED BY <1>2, <2>4, <3>1, MovesKeep
  <2>5. CASE Dequeue(w)
    BY <1>0, <1>2, <2>5, DequeueKeeps DEF Dequeue, count
  <2>6. CASE DequeueObject(w)
    BY <1>2, <2>6, DequeueObjectKeeps DEF DequeueObject, count
  <2>7. CASE Claim(w)
    BY <1>0, <1>2, <2>7, ClaimKeeps DEF Claim, count
  <2>8. CASE CacheLoaded(w) \/ CacheRecord(w)
    BY <1>2, <2>8, CachesKeep DEF CacheLoaded, CacheRecord, count
  <2>9. CASE Save(w)
    BY <1>2, <2>9, SavingKeeps DEF Save, count
  <2>10. CASE Saved(w)
    BY <1>2, <2>10, SavedKeeps DEF Saved, count
  <2> QED BY <1>4, <1>5, <2>1, <2>2, <2>3, <2>4, <2>5, <2>6, <2>7, <2>8, <2>9, <2>10
          DEF Proceed, Enqueues
<1>6. ASSUME NEW w \in Workers, NEW m, m \in Msgs,
             Pull(w) \/ ClaimFails(w) \/ Publish(w, m) \/ Query(w, m)
      PROVE  InCustody'
  <2>1. failures = 0
    BY <1>1, <1>6 DEF Pull, ClaimFails, Publish, Query, count
  <2> QED BY <1>2, <1>6, <2>1, MovesKeep
<1>7. ASSUME NEW w \in Workers, Pull(w) \/ ClaimFails(w)
      PROVE  InCustody'
  <2>1. failures = 0
    BY <1>1, <1>7 DEF Pull, ClaimFails, count
  <2> QED BY <1>2, <1>7, <2>1, MovesKeep
<1>8. ASSUME NEW w \in Workers, NEW e \in Entries, CreateEntry(w, e) \/ RemoveEntry(w, e)
      PROVE  InCustody'
  BY <1>0, <1>2, <1>8, ControlsKeep DEF CreateEntry, RemoveEntry, count
<1>9. ASSUME NEW w \in Workers, NEW d \in handed, Ack(w, d) \/ Nack(w, d)
      PROVE  InCustody'
  <2>1. d \in Deliveries /\ {"acked", "queued"} \subseteq Statuses
    BY DEF TypeInv, RestOK, Statuses
  <2>2. Settles(w, d, "acked", "acking") \/ Settles(w, d, "queued", "nacking")
    BY <1>9 DEF Ack, Nack
  <2>3. failures = 0
    BY <2>2 DEF Settles, count
  <2> QED BY <1>0, <1>2, <2>1, <2>2, <2>3, SettlesKeep
<1>10. ASSUME UNCHANGED <<store, job, published, setup, acked, failures>>
       PROVE  InCustody'
  BY <1>2, <1>10 DEF InCustody, OnePlace, QueueFits, OneTrace, OneOwner, OwnedIsTaken,
     Synced, InTime, RecordsKept, LeasedExist, RecordFit, PlacedHaveRecords,
     CarriedHaveRecords, Traced, Found, InMemory, Stored, ObjectQueue, InBucket, Owns,
     Carries, Taking, Around, At, Msg, Unlocked, Exists, store, memory
<1>11. ASSUME NEW d, LeaseElapses(d)
       PROVE  InCustody'
  BY <1>10, <1>11 DEF LeaseElapses, count, told
<1>12. CASE Crash
  BY <1>2, <1>12, CrashKeeps DEF Crash
<1>13. CASE UNCHANGED vars
  BY <1>10, <1>13 DEF vars, env, count, told
<1> QED
  BY <1>0, <1>3, <1>5, <1>6, <1>7, <1>8, <1>9, <1>11, <1>12, <1>13 DEF Next, ControlCall

LEMMA CustodyInit ==
  ASSUME Init
  PROVE  CustodyInv
<1>1. /\ queue = <<>> /\ leases = {} /\ record = [m \in Msgs |-> Absent]
      /\ bucket = [o \in Objects |-> Absent] /\ saved = bucket /\ save = NoSave
      /\ job = [w \in Workers |-> Idle] /\ acked = {}
  BY DEF Init, StoreInit
<1>2. Idle.pc = "idle" /\ Idle.batch = {}
  BY DEF Idle
<1>3. \A w \in Workers : job[w] = Idle
  BY <1>1
<1>4. \A w \in Workers, m \in Msgs : ~Owns(w, m) /\ ~Carries(w, m)
  BY <1>2, <1>3, OwnsIs, OwningIs
<1>5. \A o \in Custody : bucket[o] = Absent /\ saved[o] = Absent /\ ~InMemory(o)
  BY <1>1, CustodyIs, ToSetIs DEF InMemory
<1>6. \A o \in Custody : ~Traced(o) /\ ~Found(o)
  BY <1>5 DEF Traced, Found, InBucket
<1>7. Unlocked /\ save.puts = {} /\ save.deletes = {}
  BY <1>1, NoSaveIs DEF Unlocked
<1>8. OnePlace
  BY <1>1, <1>2, <1>3, <1>4, <1>6, CustodyIs
     DEF OnePlace, QueueFits, OneTrace, OneOwner, OwnedIsTaken, BatchFits
<1>9. Synced
  <2>1. \A o \in Custody : save.desired[o] = Absent
    BY <1>1, CustodyIs DEF NoSave
  <2> QED BY <1>5, <1>7, <2>1 DEF Synced, InBucket
<1>10. InTime
  BY <1>1, <1>4, <1>6 DEF InTime, Around
<1>11. RecordsKept
  <2>1. \A m \in Msgs : saved[RecordObject(m)] = Absent
    BY <1>1, ObjectNames
  <2> QED BY <1>1, <1>2, <1>3, <1>4, <1>6, <1>7, <2>1
          DEF RecordsKept, LeasedExist, RecordFit, PlacedHaveRecords, CarriedHaveRecords, At
<1> QED BY <1>8, <1>9, <1>10, <1>11 DEF CustodyInv, InCustody

-----------------------------------------------------------------------------
(* The theorems about custody. *)

LEMMA AtMostOne ==
  ASSUME NEW S, \A x, y \in S : x = y
  PROVE  Cardinality(S) \in Nat /\ Cardinality(S) <= 1 /\ (S # {} <=> Cardinality(S) = 1)
<1>1. CASE S = {}
  BY <1>1, FS_EmptySet
<1>2. CASE S # {}
  <2>1. PICK x \in S : S = {x}
    BY <1>2
  <2>2. Cardinality({x}) = 1
    BY FS_Singleton
  <2> QED BY <1>2, <2>1, <2>2
<1> QED BY <1>1, <1>2

(* Where the copies that are counted are.                                  *)
LEMMA CopiesAre ==
  ASSUME TypeInv, InCustody, NEW m \in Msgs
  PROVE  Copies(m) \in Nat /\ Copies(m) <= 1 /\ (~Around(m) => Copies(m) = 0)
<1> DEFINE A == {i \in DOMAIN queue : queue[i] = m}
           B == {d \in leases : d[1] = m}
           C == {w \in Workers : Carries(w, m)}
           inObject == ObjectQueue /\ InBucket(QueueObject(m))
<1>1. Copies(m) = Cardinality(A) + Cardinality(B) + Cardinality(C)
                    + IF inObject THEN 1 ELSE 0
  BY DEF Copies
<1>2. QueueObject(m) \in Custody /\ Of(QueueObject(m)) = m /\ QueueObject(m)[1] = 3
      /\ QueueObject(m)[2] = m
  BY CustodyIs
<1>3. \A x, y \in A : x = y
  BY DEF InCustody, OnePlace, QueueFits
<1>4. \A x, y \in B : x = y
  <2> SUFFICES ASSUME NEW x \in B, NEW y \in B
               PROVE  x = y
    OBVIOUS
  <2>1. x \in Deliveries /\ y \in Deliveries /\ x[1] = m /\ y[1] = m
    BY DEF TypeInv, MemoryOK
  <2>2. \A d \in B : /\ LeaseObject(d) \in Custody /\ Of(LeaseObject(d)) = m
                     /\ Traced(LeaseObject(d)) /\ LeaseObject(d)[2] = d
    BY CustodyIs DEF TypeInv, MemoryOK, Traced, InMemory
  <2>3. LeaseObject(x) = LeaseObject(y)
    BY <2>2 DEF InCustody, OnePlace, OneTrace
  <2> QED BY <2>2, <2>3
<1>5. \A x, y \in C : x = y
  BY DEF InCustody, OnePlace, OneOwner, Owns
<1>6. /\ A # {} => ~ObjectQueue /\ InMemory(QueueObject(m))
      /\ inObject => Found(QueueObject(m))
  <2>1. A # {} => m \in ToSet(queue) /\ queue # <<>>
    BY ToSetIs
  <2> QED BY <1>2, <2>1 DEF InMemory, Found, Stored, InCustody, OnePlace, QueueFits
<1>7. B # {} => \E o \in Custody : Of(o) = m /\ Found(o) /\ o[1] = 1
  <2> SUFFICES ASSUME NEW d \in B
               PROVE  \E o \in Custody : Of(o) = m /\ Found(o) /\ o[1] = 1
    OBVIOUS
  <2>1. d \in Deliveries
    BY DEF TypeInv, MemoryOK
  <2>2. /\ LeaseObject(d) \in Custody /\ Of(LeaseObject(d)) = m
        /\ Found(LeaseObject(d)) /\ LeaseObject(d)[1] = 1
    BY <2>1, CustodyIs DEF Found, InMemory
  <2> QED BY <2>2
<1>8. A # {} \/ inObject => Found(QueueObject(m))
  BY <1>6 DEF Found
<1>9. ~(A # {} /\ B # {}) /\ ~(A # {} /\ inObject) /\ ~(B # {} /\ inObject)
  <2>1. \A o \in Custody : o[1] = 1 /\ Of(o) = m /\ Found(o) => ~Found(QueueObject(m))
    BY <1>2, FoundIsTraced DEF InCustody, OnePlace, OneTrace
  <2> QED BY <1>6, <1>7, <1>8, <2>1
<1>10. C # {} => A = {} /\ B = {} /\ ~inObject
  <2>1. C # {} => \A o \in Custody : Of(o) = m => ~Found(o)
    BY DEF InCustody, OnePlace, OwnedIsTaken, Owns
  <2> QED BY <1>2, <1>7, <1>8, <2>1
<1>11. ~Around(m) => A = {} /\ B = {} /\ C = {} /\ ~inObject
  <2>1. Found(QueueObject(m)) => Around(m)
    BY <1>2, FoundIsTraced, AroundIs
  <2>2. B # {} => Around(m)
    BY <1>7, FoundIsTraced, AroundIs
  <2>3. C # {} => Around(m)
    BY AroundIs DEF Owns
  <2> QED BY <1>8, <2>1, <2>2, <2>3
<1>12. /\ Cardinality(A) \in Nat /\ Cardinality(A) <= 1 /\ (A # {} <=> Cardinality(A) = 1)
       /\ Cardinality(B) \in Nat /\ Cardinality(B) <= 1 /\ (B # {} <=> Cardinality(B) = 1)
       /\ Cardinality(C) \in Nat /\ Cardinality(C) <= 1 /\ (C # {} <=> Cardinality(C) = 1)
  <2> HIDE DEF A, B, C
  <2> QED BY <1>3, <1>4, <1>5, AtMostOne
<1> HIDE DEF A, B, C, inObject
<1> QED BY <1>1, <1>9, <1>10, <1>11, <1>12

LEMMA CustodyIsKept == Spec => [](TypeInv /\ CustodyInv)
<1>1. Init => TypeInv /\ CustodyInv
  BY TypeInit, CustodyInit
<1>2. TypeInv /\ CustodyInv /\ [Next]_vars => (TypeInv /\ CustodyInv)'
  BY TypeNext, CustodyNext
<1> QED BY <1>1, <1>2, PTL DEF Spec

(* A message is at one place only, in a queue, leased, or in the hands of  *)
(* one request, also after a restart from a half-finished save.            *)
THEOREM OneCopyEach == Spec => []OneCopy
<1>1. TypeInv /\ CustodyInv => OneCopy
  BY CopiesAre DEF CustodyInv, OneCopy
<1> QED BY <1>1, CustodyIsKept, PTL

(* Once the receiver has its ack answered, the message is neither queued   *)
(* nor leased again, in memory or in the bucket, whatever crashes.         *)
THEOREM AckedStaysSettled == Spec => []AckedIsSettled
<1>1. ASSUME TypeInv, CustodyInv
      PROVE  AckedIsSettled
  <2> SUFFICES ASSUME failures = 0, NEW m \in acked
               PROVE  /\ Copies(m) = 0 /\ ~InBucket(QueueObject(m))
                      /\ \A d \in Deliveries : d[1] = m => ~InBucket(LeaseObject(d))
    BY DEF AckedIsSettled
  <2>1. InCustody /\ m \in Msgs /\ ~Around(m)
    BY <1>1 DEF CustodyInv, InCustody, InTime, TypeInv, RestOK
  <2>2. \A o \in Custody : Of(o) = m => ~InBucket(o)
    BY <2>1 DEF Around, Traced
  <2> QED BY <1>1, <2>1, <2>2, CopiesAre, CustodyIs
<1> QED BY <1>1, CustodyIsKept, PTL

-----------------------------------------------------------------------------
(* Records and their writing. *)

(* Nothing of a save changes.                                              *)
LEMMA WrittenWaits ==
  ASSUME Written, UNCHANGED <<saved, save>>,
         \A m \in Msgs : bucket'[RecordObject(m)] = bucket[RecordObject(m)]
  PROVE  Written'
BY DEF Written, PutsAreWanted, RecordWritten, Unlocked

LEMMA WrittenStarts ==
  ASSUME TypeInv, MemoryOK', setup' = setup, Written, NEW w \in Workers, Unlocked, StartSave(w)
  PROVE  Written'
<1>1. /\ save'.by = w /\ save'.desired = Wanted' /\ save'.puts = Differs(Wanted')
      /\ UNCHANGED <<bucket, saved>>
  BY StartIs DEF TypeInv, MemoryOK
<1>2. ~Unlocked'
  BY <1>1, WorkersAssumption DEF Unlocked
<1>3. \A o \in Objects : o \in save'.puts <=> Wanted'[o] # Absent /\ saved[o] # Wanted'[o]
  <2> DEFINE D == Wanted'
  <2>1. save'.puts = Differs(D)
    BY <1>1
  <2> HIDE DEF D
  <2>2. \A o \in Objects : o \in save'.puts <=> D[o] # Absent /\ saved[o] # D[o]
    BY <2>1, ListsAre
  <2> QED BY <2>2 DEF D
<1>4. save'.puts \subseteq Objects
  BY <1>1, StartIs DEF TypeInv, MemoryOK, SavesOK
<1>5. PutsAreWanted'
  BY <1>1, <1>2, <1>3, <1>4 DEF PutsAreWanted
<1>6. ASSUME NEW m \in Msgs PROVE RecordWritten(m)'
  <2>1. RecordObject(m) \in Objects
    BY ObjectNames
  <2>2. saved[RecordObject(m)] # Absent => bucket[RecordObject(m)] = saved[RecordObject(m)]
    BY DEF Written, RecordWritten
  <2> QED BY <1>1, <1>2, <1>3, <2>1, <2>2 DEF RecordWritten
<1> QED BY <1>5, <1>6 DEF Written

LEMMA WrittenSaves ==
  ASSUME TypeInv, Written, NEW w \in Workers, NEW o \in NextCalls, SaveObject(w, o)
  PROVE  Written'
<1>1. /\ save.by = w /\ save'.by = w /\ save'.desired = save.desired
      /\ save'.puts = save.puts \ {o} /\ bucket'[o] = save.desired[o]
      /\ \A p \in Objects : p # o => bucket'[p] = bucket[p]
  BY SaveObjectIs DEF TypeInv
<1>2. ~Unlocked /\ ~Unlocked'
  BY <1>1, WorkersAssumption DEF Unlocked
<1>3. \A m \in Msgs : RecordObject(m) \in Objects
  BY ObjectNames
<1> QED BY <1>1, <1>2, <1>3 DEF Written, PutsAreWanted, RecordWritten

LEMMA WrittenFinishes ==
  ASSUME TypeInv, Written, NEW w \in Workers, FinishSave(w)
  PROVE  Written'
<1>1. /\ save.by = w /\ save'.by = "nobody" /\ saved' = save.desired
      /\ save.puts = {} /\ save'.puts = {} /\ bucket' = bucket
  BY FinishIs DEF TypeInv
<1>2. ~Unlocked /\ Unlocked'
  BY <1>1, WorkersAssumption DEF Unlocked
<1> QED BY <1>1, <1>2 DEF Written, PutsAreWanted, RecordWritten

LEMMA WrittenLoads ==
  ASSUME TypeInv, Load, setup' = setup
  PROVE  Written'
<1>1. /\ MemoryOK' /\ Unlocked' /\ saved' = Wanted' /\ record' = LoadedRecord
      /\ save'.puts = {} /\ bucket' = bucket
  BY LoadIs DEF TypeInv
<1>2. \A m \in Msgs : saved'[RecordObject(m)] = record'[m]
  <2>1. record' \in [Msgs -> Records \cup {Absent}]
    BY <1>1 DEF MemoryOK
  <2> QED BY <1>1, <2>1, WantedNext
<1>3. \A m \in Msgs : record'[m] # Absent => record'[m] = bucket[RecordObject(m)]
  BY <1>1 DEF LoadedRecord
<1> QED BY <1>1, <1>2, <1>3 DEF Written, PutsAreWanted, RecordWritten

-----------------------------------------------------------------------------
(* Messages in memory, and the requests that are saving them. *)

LEMMA InMemoryIsThere ==
  ASSUME Synced, Unlocked
  PROVE  \A o \in Custody : InMemory(o) => InBucket(o)
BY MemoryIsStored DEF Synced

LEMMA StoringIsSaving ==
  /\ Storing \subseteq Saving
  /\ \A pc : pc \in Storing <=>
       pc \in {"enqueuing", "leasing", "puttingBack", "returning", "requeuing"}
BY DEF Storing, Saving

(* With the save of another request in progress, if any.                   *)
LEMMA StoredWaits ==
  ASSUME TypeInv, InCustody', \A o \in Custody : StoredSoon(o), NEW w \in Workers,
         OthersWait(w), job[w].pc \notin Saving, UNCHANGED <<save, setup>>,
         \A o \in Custody : /\ InMemory(o)' => InMemory(o)
                            /\ InMemory(o) /\ InBucket(o) => InBucket(o)'
  PROVE  \A o \in Custody : StoredSoon(o)'
<1>1. CASE Unlocked'
  BY <1>1, MemoryIsStored DEF InCustody, Synced, StoredSoon
<1>2. CASE ~Unlocked'
  <2> SUFFICES ASSUME NEW o \in Custody, InMemory(o)', ~InBucket(o)'
               PROVE  \E v \in Workers : job'[v].pc \in Storing /\ job'[v].msg = Of(o)
    BY DEF StoredSoon, Msg
  <2>1. PICK v \in Workers : job[v].pc \in Storing /\ Msg(v) = Of(o)
    BY DEF StoredSoon
  <2>2. v # w
    BY <2>1, StoringIsSaving
  <2> QED BY <2>1, <2>2 DEF OthersWait, Msg
<1> QED BY <1>1, <1>2

LEMMA StoredStarts ==
  ASSUME TypeInv, InCustody, \A o \in Custody : StoredSoon(o), NEW w \in Workers,
         Unlocked, bucket' = bucket,
         \A o \in Custody : InMemory(o)' =>
           InMemory(o) \/ (job'[w].pc \in Storing /\ job'[w].msg = Of(o))
  PROVE  \A o \in Custody : StoredSoon(o)'
<1>1. \A o \in Custody : InMemory(o) => InBucket(o)'
  BY InMemoryIsThere DEF InCustody, InBucket
<1> QED BY <1>1 DEF StoredSoon, Msg

LEMMA StoredSaves ==
  ASSUME TypeInv, InCustody, \A o \in Custody : StoredSoon(o), NEW w \in Workers,
         NEW p \in NextCalls, SaveObject(w, p), UNCHANGED <<job, setup>>
  PROVE  \A o \in Custody : StoredSoon(o)'
<1>1. /\ save.by = w /\ bucket'[p] = save.desired[p]
      /\ \A o \in Objects : o # p => bucket'[o] = bucket[o]
      /\ UNCHANGED memory
  BY SaveObjectIs DEF TypeInv
<1>2. ~Unlocked
  BY <1>1, WorkersAssumption DEF Unlocked
<1>3. \A o \in Custody : /\ o \in Objects /\ (InMemory(o)' <=> InMemory(o))
                         /\ InMemory(o) => save.desired[o] # Absent
  BY <1>1, <1>2, CustodyIs, SamePlaces, MemoryIsStored DEF InCustody, Synced, memory
<1>4. \A o \in Custody : InMemory(o) /\ InBucket(o) => InBucket(o)'
  BY <1>1, <1>3 DEF InBucket
<1> QED BY <1>3, <1>4 DEF StoredSoon, Msg

LEMMA StoredUnlocked ==
  ASSUME InCustody', Unlocked'
  PROVE  \A o \in Custody : StoredSoon(o)'
BY MemoryIsStored DEF InCustody, Synced, StoredSoon

-----------------------------------------------------------------------------
(* Messages that are kept, and messages that are over. *)

LEMMA HavingIs ==
  /\ Carrying \subseteq Having /\ Having \subseteq Owning /\ "idle" \notin Having
  /\ \A pc : pc \in Having <=>
       pc \in {"enqueue", "dequeuing", "claim", "loaded", "relock", "putBack", "nacking",
               "return", "requeueOne", "registering"}
BY DEF Having, Owning, Carrying

LEMMA HasIs ==
  /\ \A w, m : (Has(w, m) => Owns(w, m)) /\ (Carries(w, m) => Has(w, m))
  /\ \A w, m : Has(w, m)' <=> m \in job'[w].batch \/ (job'[w].msg = m /\ job'[w].pc \in Having)
<1>1. \A w, m : Has(w, m) <=> m \in job[w].batch \/ (job[w].msg = m /\ job[w].pc \in Having)
  BY DEF Has, Msg
<1>2. ASSUME NEW w, NEW m
      PROVE  Has(w, m)' <=> m \in job'[w].batch \/ (job'[w].msg = m /\ job'[w].pc \in Having)
  BY DEF Has, Msg
<1> QED BY <1>1, <1>2, OwnsIs, HavingIs

LEMMA BecomeHas ==
  ASSUME TypeInv, NEW w \in Workers, NEW pc \in Steps, Become(w, pc)
  PROVE  \A m : Has(w, m)' <=>
           pc # "idle" /\ (m \in job[w].batch \/ (job[w].msg = m /\ pc \in Having))
<1>1. /\ job'[w].pc = pc
      /\ pc = "idle" => job'[w] = Idle
      /\ pc # "idle" => job'[w].msg = job[w].msg /\ job'[w].batch = job[w].batch
  BY BecomeIs DEF TypeInv, JobsOK
<1>2. Idle.pc = "idle" /\ Idle.batch = {}
  BY DEF Idle
<1> QED BY <1>1, <1>2, HasIs, HavingIs

(* A request w goes on: what it has, or finds, it still has or it put into *)
(* a place, and nobody gets a message from elsewhere.                      *)
LEMMA KeptGoes ==
  ASSUME NEW w \in Workers, OthersWait(w),
         \A o \in Custody : Found(o) => Found(o)' \/ Has(w, Of(o))',
         \A m \in Msgs : Has(w, m) => Has(w, m)' \/ \E o \in Custody : Of(o) = m /\ Found(o)'
  PROVE  \A m \in Msgs : Kept(m) => Kept(m)'
<1>1. \A v \in Workers, m \in Msgs : v # w => (Has(v, m)' <=> Has(v, m))
  BY HasIs DEF OthersWait, Has, Msg
<1> QED BY <1>1 DEF Kept

(* The record that memory has of a message does not lose its ack.          *)
StaysAcked(m) == Exists(m)' /\ record'[m].status # "acked" =>
                   Exists(m) /\ record[m].status # "acked"

LEMMA OverWaits ==
  ASSUME NEW w \in Workers, NEW m \in Msgs, Over(m), OthersWait(w), UNCHANGED <<saved, save>>,
         bucket'[RecordObject(m)] = bucket[RecordObject(m)], StaysAcked(m),
         \A o \in Custody : Of(o) = m /\ InBucket(o) => InBucket(o)',
         At(w, "fetched")' /\ job'[w].msg = m => job'[w].read.status = "acked"
  PROVE  Over(m)'
<1>1. \A v \in Workers : At(v, "fetched")' /\ Msg(v)' = m => job'[v].read.status = "acked"
  BY DEF Over, At, Msg, OthersWait
<1>2. Exists(m)' => record'[m].status = "acked"
  BY DEF Over, StaysAcked
<1> QED BY <1>1, <1>2 DEF Over, Unlocked

LEMMA OverStarts ==
  ASSUME TypeInv, MemoryOK', setup' = setup, Written, NEW w \in Workers, NEW m \in Msgs,
         Over(m), OthersWait(w), Unlocked, StartSave(w), StaysAcked(m), ~At(w, "fetched")'
  PROVE  Over(m)'
<1>1. /\ save'.desired = Wanted' /\ UNCHANGED <<bucket, saved>>
  BY StartIs DEF TypeInv, MemoryOK
<1>2. Wanted'[RecordObject(m)] = record'[m]
  BY WantedNext DEF MemoryOK
<1>3. bucket[RecordObject(m)].status = "acked"
  BY DEF Over, Written, PutsAreWanted
<1>4. \A v \in Workers : At(v, "fetched")' /\ Msg(v)' = m => job'[v].read.status = "acked"
  BY DEF Over, At, Msg, OthersWait
<1>5. Exists(m)' => record'[m].status = "acked"
  BY DEF Over, StaysAcked
<1> QED BY <1>1, <1>2, <1>3, <1>4, <1>5 DEF Over, Exists

LEMMA OverSaves ==
  ASSUME TypeInv, InCustody, Written, NEW w \in Workers, NEW o \in NextCalls,
         SaveObject(w, o), UNCHANGED <<job, setup>>, NEW m \in Msgs, Over(m)
  PROVE  Over(m)'
<1>1. /\ save.by = w /\ save'.by = w /\ save'.desired = save.desired
      /\ save'.puts = save.puts \ {o} /\ bucket'[o] = save.desired[o]
      /\ \A p \in Objects : p # o => bucket'[p] = bucket[p]
      /\ UNCHANGED memory
  BY SaveObjectIs DEF TypeInv
<1>2. /\ ~Unlocked /\ o \in Objects /\ (o \in save.puts \/ (save.puts = {} /\ o \in save.deletes))
  BY <1>1, NextCallsAre, WorkersAssumption DEF TypeInv, Unlocked
<1>3. RecordObject(m) \in Objects /\ RecordObject(m) \notin save.deletes
  BY ObjectNames DEF InCustody, RecordsKept, RecordFit
<1>4. save.desired[RecordObject(m)] # Absent => save.desired[RecordObject(m)].status = "acked"
  BY <1>2 DEF Over
<1>5. \/ bucket'[RecordObject(m)].status = "acked"
      \/ RecordObject(m) \in save'.puts /\ \E p \in Custody : Of(p) = m /\ InBucket(p)'
  <2>1. CASE o = RecordObject(m)
    <3>1. save.desired[RecordObject(m)] # Absent
      BY <1>2, <1>3, <2>1 DEF Written, PutsAreWanted
    <3> QED BY <1>1, <1>4, <2>1, <3>1
  <2>2. CASE o # RecordObject(m) /\ bucket[RecordObject(m)].status = "acked"
    BY <1>1, <1>3, <2>2
  <2>3. CASE /\ o # RecordObject(m) /\ RecordObject(m) \in save.puts
             /\ \E p \in Custody : Of(p) = m /\ InBucket(p)
    <3>1. PICK p \in Custody : Of(p) = m /\ InBucket(p)
      BY <2>3
    <3>2. p \in Objects /\ (p = o => save.desired[o] # Absent)
      BY <1>2, <2>3, CustodyIs DEF Written, PutsAreWanted
    <3>3. InBucket(p)'
      BY <1>1, <3>1, <3>2 DEF InBucket
    <3> QED BY <1>1, <2>3, <3>1, <3>3
  <2> QED BY <2>1, <2>2, <2>3 DEF Over
<1> QED BY <1>1, <1>2, <1>4, <1>5 DEF Over, Exists, At, Msg, memory

LEMMA OverFinishes ==
  ASSUME TypeInv, NEW w \in Workers, FinishSave(w), OthersWait(w), ~At(w, "fetched")',
         NEW m \in Msgs, Over(m)
  PROVE  Over(m)'
<1>1. /\ save'.by = "nobody" /\ save.puts = {} /\ UNCHANGED <<memory, bucket>>
  BY FinishIs DEF TypeInv
<1>2. \A v \in Workers : At(v, "fetched")' /\ Msg(v)' = m => job'[v].read.status = "acked"
  BY DEF Over, At, Msg, OthersWait
<1> QED BY <1>1, <1>2 DEF Over, Exists, Unlocked, memory

-----------------------------------------------------------------------------
(* What a step of request w has to see to. *)

(* Nothing that is known is forgotten, and nothing is known too early.     *)
LEMMA TraceGoes ==
  ASSUME TypeInv, RestOK', InCustody, Traceable, NEW w \in Workers, OthersWait(w),
         UNCHANGED <<setup, lost>>, published <= published', accepted \subseteq accepted',
         \A m \in Msgs : Exists(m) => Exists(m)',
         \A m \in Msgs : Exists(m)' => Exists(m) \/ m \in accepted \/ (Owns(w, m) /\ Kept(m)'),
         \A m \in accepted' : \/ m \in accepted \/ (Owns(w, m) /\ Kept(m)')
                              \/ Exists(m) /\ job[w].pc \in Saving,
         \A m \in Msgs : Kept(m) => Kept(m)' \/ Over(m)',
         \A m \in Msgs : Kept(m)' => Kept(m) \/ (At(w, "register") /\ Msg(w) = m /\ Exists(m)'),
         \A m \in Msgs : Over(m) => Kept(m) \/ Kept(m)' \/ Over(m)',
         \A m \in Msgs : Ended(m)' => Ended(m) \/ Over(m)',
         PublishFits(w)', QueryFits(w)'
  PROVE  Traceable'
<1>1. published \in Nat /\ published' \in Nat /\ accepted' \subseteq Msgs /\ Msgs \subseteq Nat
  BY MsgsAssumption DEF TypeInv, RestOK
<1>2. \A m \in Msgs : Known(m)' => Known(m) \/ (Owns(w, m) /\ Kept(m)')
  BY <1>1 DEF Known
<1>3. \A m \in Msgs : Known(m)' => m <= published'
  <2>1. \A m \in Msgs : Owns(w, m) => m <= published
    BY AroundIs DEF InCustody, InTime
  <2> QED BY <1>1, <1>2, <2>1 DEF Traceable
<1>4. \A m \in Msgs : Accounted(m)'
  BY <1>2 DEF Traceable, Accounted
<1>5. KeptExist'
  BY DEF Traceable, KeptExist, ObjectQueue
<1>6. ASSUME NEW v \in Workers, v # w
      PROVE  PublishFits(v)' /\ QueryFits(v)'
  <2>1. job'[v] = job[v]
    BY <1>6 DEF OthersWait
  <2>2. /\ PublishFits(v) /\ QueryFits(v) /\ PublishFits(w)
        /\ job[v].pc \in {"register", "registering", "replaying", "enqueue", "enqueuing",
                          "fetched"} => Msg(v) \in Msgs
    BY JobFields DEF Traceable, Msg, WithMessage
  <2>3. PICK n : n = Msg(v)
    OBVIOUS
  <2>4. job[v].pc \in {"register", "registering"} => ~Owns(w, n)
    BY <1>6, <2>2, <2>3, OwnsIs, OwningIs DEF InCustody, OnePlace, OneOwner, Msg
  <2>5. At(v, "registering") => job[w].pc \notin Saving
    BY <1>6 DEF TypeInv, JobsOK, At, Saving
  <2>6. At(v, "register") => n \in Msgs /\ ~Exists(n)' /\ n \notin accepted'
    BY <2>2, <2>3, <2>4 DEF PublishFits, At
  <2>7. At(v, "registering") => n \notin accepted'
    BY <2>2, <2>3, <2>4, <2>5 DEF PublishFits, At
  <2>8. job[v].pc \in {"registering", "replaying", "enqueue", "enqueuing"} => Exists(n)'
    BY <2>2, <2>3 DEF PublishFits
  <2>9. At(v, "fetched") => n \in accepted' /\ ~Kept(n)'
    BY <2>2, <2>3 DEF QueryFits, PublishFits, At
  <2>10. Msg(v)' = n /\ \A pc : At(v, pc)' <=> At(v, pc)
    BY <2>1, <2>3 DEF Msg, At
  <2>11. (Exists(Msg(v))' <=> Exists(n)') /\ (Kept(Msg(v))' <=> Kept(n)')
    BY <2>10 DEF Exists, Kept
  <2>12. PublishFits(v)'
    BY <2>1, <2>6, <2>7, <2>8, <2>10, <2>11 DEF PublishFits, At
  <2>13. QueryFits(v)'
    BY <2>9, <2>10, <2>11 DEF QueryFits
  <2> QED BY <2>12, <2>13
<1> QED BY <1>3, <1>4, <1>5, <1>6 DEF Traceable

LEMMA EndedStays ==
  ASSUME NEW w \in Workers, OthersWait(w), acked' = acked, ~At(w, "acking")'
  PROVE  \A m \in Msgs : Ended(m)' => Ended(m)
BY DEF Ended, OthersWait, At, Msg

(* A request that goes on and leaves the store as it is.                   *)
LEMMA QuietGoes ==
  ASSUME TypeInv, RestOK', InCustody, InCustody', Secured, NEW w \in Workers, OthersWait(w),
         job[w].pc \notin Saving,
         UNCHANGED <<store, setup, lost, accepted, acked>>, published <= published',
         \A m \in Msgs : Has(w, m)' <=> Has(w, m),
         PublishFits(w)', ~At(w, "acking")',
         At(w, "fetched")' => /\ Msg(w)' \in accepted /\ ~Kept(Msg(w)')
                              /\ Over(Msg(w)') => job'[w].read.status = "acked"
  PROVE  Secured'
<1>1. /\ \A m : Exists(m)' <=> Exists(m)
      /\ \A o \in Custody : /\ Found(o)' <=> Found(o)
                            /\ InMemory(o)' <=> InMemory(o)
                            /\ InBucket(o)' <=> InBucket(o)
  BY DEF Exists, Found, Stored, InMemory, InBucket, ObjectQueue, store, memory
<1>2. \A m \in Msgs : Kept(m)' <=> Kept(m)
  BY <1>1, HasIs DEF Kept, OthersWait, Has, Msg
<1>3. \A m \in Msgs : Over(m) => Over(m)'
  <2>1. \A m \in Msgs : StaysAcked(m)
    BY <1>1 DEF StaysAcked, store, memory
  <2>2. \A m \in Msgs : Over(m) /\ At(w, "fetched")' /\ job'[w].msg = m
                          => job'[w].read.status = "acked"
    BY DEF Msg
  <2> QED BY <1>1, <2>1, <2>2, OverWaits DEF store
<1>4. QueryFits(w)'
  <2>1. At(w, "fetched")' => Msg(w)' \in Msgs
    BY DEF TypeInv, RestOK
  <2> QED BY <1>2, <2>1 DEF QueryFits, At, Msg
<1>5. Traceable'
  BY <1>1, <1>2, <1>3, <1>4, EndedStays, TraceGoes DEF Secured
<1>6. Written'
  BY WrittenWaits DEF Secured, store
<1>7. \A o \in Custody : StoredSoon(o)'
  BY <1>1, StoredWaits DEF Secured, store
<1> QED BY <1>5, <1>6, <1>7 DEF Secured

(* A call of the state store, and the start of its save.                   *)
LEMMA CallGoes ==
  ASSUME TypeInv, TypeInv', InCustody, Secured, NEW w \in Workers, OthersWait(w), Call(w),
         UNCHANGED <<setup, lost, accepted, acked, published>>,
         \A m \in Msgs : Exists(m) => Exists(m)',
         \A m \in Msgs : Exists(m)' => Exists(m) \/ (Owns(w, m) /\ Kept(m)'),
         \A o \in Custody : InMemory(o)' =>
           InMemory(o) \/ (job'[w].pc \in Storing /\ job'[w].msg = Of(o)),
         \A m \in Msgs : Kept(m) => Kept(m)' \/ Over(m)',
         \A m \in Msgs : Kept(m)' => Kept(m) \/ (At(w, "register") /\ Msg(w) = m /\ Exists(m)'),
         \A m \in Msgs : Kept(m) \/ Kept(m)' \/ StaysAcked(m),
         PublishFits(w)', ~At(w, "fetched")',
         \A m \in Msgs : Ended(m)' => Ended(m) \/ Over(m)'
  PROVE  Secured'
<1>1. Unlocked /\ StartSave(w) /\ UNCHANGED <<bucket, saved>>
  BY DEF Call, StartSave
<1>2. Written'
  BY <1>1, WrittenStarts DEF Secured, TypeInv
<1>3. \A o \in Custody : StoredSoon(o)'
  BY <1>1, StoredStarts DEF Secured
<1>4. \A m \in Msgs : Over(m) => Kept(m) \/ Kept(m)' \/ Over(m)'
  BY <1>1, OverStarts DEF Secured, TypeInv
<1>5. QueryFits(w)' /\ RestOK' /\ published <= published'
  BY DEF QueryFits, TypeInv, RestOK
<1>6. Traceable'
  BY <1>4, <1>5, TraceGoes DEF Secured
<1> QED BY <1>2, <1>3, <1>6 DEF Secured

-----------------------------------------------------------------------------
(* The actions. *)

LEMMA NoPublish ==
  ASSUME NEW w,
         job'[w].pc \notin {"register", "registering", "replaying", "enqueue", "enqueuing"}
  PROVE  PublishFits(w)'
BY DEF PublishFits, At

(* A request that has nothing but its message, or not even that.           *)
LEMMA NoBatch ==
  ASSUME InCustody, NEW w \in Workers,
         job[w].pc \notin {"sweeping", "requeue", "requeueOne", "requeuing"}
  PROVE  job[w].batch = {}
BY DEF InCustody, OnePlace, BatchFits

LEMMA MovesGo ==
  ASSUME TypeInv, TypeInv', InCustody, InCustody', QueriesAreFresh, Secured,
         NEW w \in Workers, NEW m,
         \/ Pull(w) \/ RequeueNext(w) \/ NothingQueued(w) \/ ReadRecord(w) \/ ClaimFails(w)
         \/ m \in Msgs /\ (Publish(w, m) \/ Query(w, m))
  PROVE  Secured'
<1> USE JobFields DEF At
<1>1. /\ UNCHANGED <<store, setup, lost, accepted, acked>> /\ RestOK'
      /\ job[w].pc \in {"idle", "requeue", "dequeue", "claim", "relock"}
      /\ job[w].pc \notin Saving
  BY DEF Publish, Pull, RequeueNext, NothingQueued, ReadRecord, ClaimFails, Query,
     env, told, TypeInv, Saving
<1>2. \A x : Has(w, x) <=> x \in job[w].batch \/ (job[w].msg = x /\ job[w].pc \in Having)
  BY DEF Has, Msg
<1>3. published \in Nat /\ published' \in Nat
  BY DEF TypeInv, RestOK
<1>4. ASSUME NEW pc \in {"sweep", "dequeue", "idle", "putBack"}, Become(w, pc),
             published' = published,
             \/ job[w].pc = "idle" /\ pc = "sweep"
             \/ job[w].pc = "requeue" /\ pc = "dequeue" /\ job[w].batch = {}
             \/ job[w].pc = "dequeue" /\ pc = "idle"
             \/ job[w].pc \in {"claim", "relock"} /\ pc = "putBack"
      PROVE  Secured'
  <2>1. pc \in Steps
    BY DEF Steps, WithMessage
  <2>2. job[w].batch = {}
    BY <1>4, NoBatch
  <2>3. OthersWait(w) /\ job'[w].pc = pc
    BY <1>4, <2>1, BecomeOwns
  <2>4. \A x : Has(w, x)' <=> Has(w, x)
    BY <1>2, <1>4, <2>1, <2>2, BecomeHas, HavingIs
  <2>5. PublishFits(w)'
    BY <1>4, <2>3, NoPublish
  <2> QED BY <1>1, <1>3, <1>4, <2>3, <2>4, <2>5, QuietGoes
<1>5. ASSUME NEW j \in Jobs, job' = [job EXCEPT ![w] = j], published <= published',
             \A x : (j.msg = x /\ j.pc \in Having) \/ x \in j.batch <=> Has(w, x),
             j.pc = "register" => ~Exists(j.msg) /\ j.msg \notin accepted,
             j.pc \notin {"registering", "replaying", "enqueue", "enqueuing", "acking"},
             j.pc = "fetched" => /\ j.msg \in accepted /\ ~Kept(j.msg)
                                 /\ Over(j.msg) => j.read.status = "acked"
      PROVE  Secured'
  <2>1. OthersWait(w) /\ job'[w] = j
    BY <1>5, JobIs
  <2>2. \A x : Has(w, x)' <=> Has(w, x)
    BY <1>5, <2>1, HasIs
  <2>3. PublishFits(w)'
    BY <1>1, <1>5, <2>1 DEF PublishFits, Msg, Exists, store, memory
  <2>4. Msg(w)' = j.msg
    BY <2>1 DEF Msg
  <2> QED BY <1>1, <1>5, <2>1, <2>2, <2>3, <2>4, QuietGoes
<1>6. CASE Pull(w)
  BY <1>4, <1>6 DEF Pull, env
<1>7. CASE NothingQueued(w)
  BY <1>4, <1>7 DEF NothingQueued, env
<1>8. CASE ClaimFails(w)
  BY <1>4, <1>8 DEF ClaimFails, env
<1>9. CASE RequeueNext(w)
  <2>1. CASE job[w].batch = {} /\ Become(w, "dequeue")
    BY <1>4, <1>9, <2>1 DEF RequeueNext, env
  <2>2. ASSUME NEW n \in job[w].batch, job[w].pc = "requeue",
               job' = [job EXCEPT ![w] = [job[w] EXCEPT !.pc = "requeueOne", !.msg = n,
                                                        !.batch = job[w].batch \ {n}]]
        PROVE  Secured'
    <3> DEFINE j == [job[w] EXCEPT !.pc = "requeueOne", !.msg = n, !.batch = job[w].batch \ {n}]
    <3>1. "requeueOne" \in Steps /\ n \in Msgs
      BY DEF Steps, WithMessage
    <3>2. /\ j \in Jobs /\ j.pc = "requeueOne" /\ j.msg = n /\ j.batch = job[w].batch \ {n}
          /\ job' = [job EXCEPT ![w] = j]
      BY <2>2, <3>1 DEF Jobs
    <3> HIDE DEF j
    <3>3. \A x : (j.msg = x /\ j.pc \in Having) \/ x \in j.batch <=> Has(w, x)
      BY <1>2, <2>2, <3>2, HavingIs
    <3>4. published' = published
      BY <1>9 DEF RequeueNext, env
    <3>5. published <= published'
      BY <1>3, <3>4
    <3>6. j.pc = "requeueOne"
      BY <3>2
    <3> QED BY <1>5, <3>2, <3>3, <3>5, <3>6
  <2> QED BY <2>1, <2>2, <1>9 DEF RequeueNext
<1>10. CASE ReadRecord(w)
  <2>1. CASE job[w].pc = "claim" /\ Become(w, "putBack")
    BY <1>4, <1>10, <2>1 DEF ReadRecord, env
  <2>2. CASE /\ job[w].pc = "claim" /\ bucket[RecordObject(Msg(w))] # Absent
             /\ job' = [job EXCEPT ![w] = [job[w] EXCEPT !.pc = "loaded",
                                             !.read = bucket[RecordObject(Msg(w))]]]
    <3> DEFINE j == [job[w] EXCEPT !.pc = "loaded", !.read = bucket[RecordObject(Msg(w))]]
    <3>1. "loaded" \in Steps /\ job[w].msg \in Msgs
      BY <2>2 DEF Steps, WithMessage
    <3>2. bucket[RecordObject(Msg(w))] \in Records \cup {Absent}
      BY <3>1, ObjectNames, ContentsIs DEF TypeInv, SavesOK, Msg
    <3>3. /\ j \in Jobs /\ j.pc = "loaded" /\ j.msg = job[w].msg /\ j.batch = job[w].batch
          /\ job' = [job EXCEPT ![w] = j]
      BY <2>2, <3>1, <3>2 DEF Jobs
    <3> HIDE DEF j
    <3>4. \A x : (j.msg = x /\ j.pc \in Having) \/ x \in j.batch <=> Has(w, x)
      BY <1>2, <2>2, <3>3, HavingIs
    <3>5. published <= published'
      BY <1>3, <1>10 DEF ReadRecord, env
    <3> QED BY <1>5, <3>3, <3>4, <3>5
  <2> QED BY <2>1, <2>2, <1>10 DEF ReadRecord
<1>11. CASE m \in Msgs /\ Publish(w, m)
  <2> DEFINE j == [job[w] EXCEPT !.pc = "register", !.msg = m]
  <2>1. /\ job[w].pc = "idle" /\ m = published + 1 /\ published' = m
        /\ job' = [job EXCEPT ![w] = j]
    BY <1>11 DEF Publish, Hold
  <2>2. "register" \in Steps
    BY DEF Steps, WithMessage
  <2>3. j \in Jobs /\ j.pc = "register" /\ j.msg = m /\ j.batch = job[w].batch
    BY <1>11, <2>2 DEF Jobs
  <2> HIDE DEF j
  <2>4. \A x : (j.msg = x /\ j.pc \in Having) \/ x \in j.batch <=> Has(w, x)
    BY <1>2, <2>1, <2>3, HavingIs
  <2>5. ~Exists(m) /\ m \notin accepted /\ published <= published'
    BY <1>3, <1>11, <2>1 DEF Secured, Traceable, Known
  <2> QED BY <1>5, <2>1, <2>3, <2>4, <2>5
<1>12. CASE m \in Msgs /\ Query(w, m)
  <2> DEFINE j == [job[w] EXCEPT !.pc = "fetched", !.msg = m, !.read = bucket[RecordObject(m)]]
  <2>1. /\ job[w].pc = "idle" /\ setup.queries /\ m \in accepted /\ ~Exists(m)
        /\ published' = published /\ job' = [job EXCEPT ![w] = j]
    BY <1>12 DEF Query, env
  <2>2. "fetched" \in Steps
    BY DEF Steps, WithMessage
  <2>3. bucket[RecordObject(m)] \in Records \cup {Absent}
    BY <1>12, ObjectNames, ContentsIs DEF TypeInv, SavesOK
  <2>4. /\ j \in Jobs /\ j.pc = "fetched" /\ j.msg = m /\ j.batch = job[w].batch
        /\ j.read = bucket[RecordObject(m)]
    BY <1>12, <2>2, <2>3 DEF Jobs
  <2> HIDE DEF j
  <2>5. \A x : (j.msg = x /\ j.pc \in Having) \/ x \in j.batch <=> Has(w, x)
    BY <1>2, <2>1, <2>4, HavingIs
  <2>6. ~Kept(m)
    BY <1>12, <2>1 DEF QueriesAreFresh, ObjectQueue, Secured, Traceable, KeptExist
  <2>7. RecordObject(m) \notin save.puts
    BY <1>12, <2>1 DEF InCustody, RecordsKept, RecordFit, Secured, Written, PutsAreWanted
  <2>8. Over(m) => j.read.status = "acked"
    BY <2>4, <2>7 DEF Over
  <2>9. published <= published'
    BY <1>3, <2>1
  <2> QED BY <1>5, <2>1, <2>4, <2>5, <2>6, <2>8, <2>9
<1> QED BY <1>6, <1>7, <1>8, <1>9, <1>10, <1>11, <1>12

(* A record that was read from the bucket goes into memory.                *)
LEMMA CachesGo ==
  ASSUME TypeInv, TypeInv', InCustody, InCustody', Secured, NEW w \in Workers,
         CacheLoaded(w) \/ CacheRecord(w)
  PROVE  Secured'
<1>0. PICK m \in Msgs : m = job[w].msg
  BY JobFields DEF CacheLoaded, CacheRecord, At, WithMessage
<1>1. /\ Cache(m, job[w].read)
      /\ UNCHANGED <<queue, leases, setup, bucket, saved, save, lost, accepted, acked, published>>
      /\ \/ job[w].pc = "loaded" /\ Become(w, "relock")
         \/ job[w].pc = "fetched" /\ Become(w, "idle")
  BY <1>0 DEF CacheLoaded, CacheRecord, Cache, At, Msg, env, told
<1>2. job[w].read \in Records \cup {Absent} /\ job[w].read # Absent /\ job[w].batch = {}
  BY <1>1, JobFields, NoBatch DEF InCustody, RecordsKept, CarriedHaveRecords, At
<1>3. \A x \in Msgs : Exists(x) => Exists(x)'
  BY <1>1, <1>2, ExistsStays DEF TypeInv
<1>4. \A x \in Msgs : /\ x # m => record'[x] = record[x]
                      /\ x = m => record'[x] = job[w].read
  BY <1>1 DEF Cache, TypeInv, MemoryOK
<1>5. PICK pc \in {"relock", "idle"} : /\ Become(w, pc)
                                       /\ pc = "relock" <=> job[w].pc = "loaded"
  BY <1>1
<1>6. /\ OthersWait(w) /\ job'[w].pc = pc
      /\ \A x : Has(w, x)' <=> pc # "idle" /\ job[w].msg = x
  <2>1. pc \in Steps /\ (pc = "relock" => pc \in Having)
    BY HavingIs DEF Steps, WithMessage
  <2> QED BY <1>2, <1>5, <2>1, BecomeOwns, BecomeHas
<1>7. /\ \A x : Has(w, x)' <=> Has(w, x)
      /\ \A x : Has(w, x) => x = m
      /\ job[w].pc = "loaded" => Has(w, m) /\ Owns(w, m)
  <2>1. \A x : Has(w, x) <=> job[w].msg = x /\ job[w].pc \in Having
    BY <1>2 DEF Has, Msg
  <2>2. job[w].pc \in Having <=> job[w].pc = "loaded"
    BY <1>1, HavingIs
  <2> QED BY <1>0, <1>1, <1>5, <1>6, <2>1, <2>2, HasIs
<1>8. \A o \in Custody : /\ Found(o)' <=> Found(o)
                         /\ InMemory(o)' <=> InMemory(o)
                         /\ InBucket(o)' <=> InBucket(o)
  BY <1>1, SamePlaces DEF Found, InBucket
<1>9. \A x \in Msgs : Kept(x)' <=> Kept(x)
  BY <1>6, <1>7, <1>8, HasIs DEF Kept, OthersWait, Has, Msg
<1>10. job[w].pc = "fetched" => m \in accepted /\ ~Kept(m)
  BY <1>0 DEF Secured, Traceable, QueryFits, At, Msg
<1>11. \A x \in Msgs : Exists(x)' => Exists(x) \/ x \in accepted \/ (Owns(w, x) /\ Kept(x)')
  <2>1. job[w].pc = "loaded" => Kept(m)
    BY <1>7 DEF Kept
  <2> QED BY <1>1, <1>4, <1>7, <1>9, <1>10, <2>1 DEF Exists
<1>12. \A x \in Msgs : Over(x) => Kept(x) \/ Over(x)'
  <2> SUFFICES ASSUME NEW x \in Msgs, Over(x), ~Kept(x)
               PROVE  Over(x)'
    OBVIOUS
  <2>1. x = m => job[w].pc = "fetched" /\ job[w].read.status = "acked"
    BY <1>0, <1>1, <1>7 DEF Kept, Over, At, Msg
  <2>2. StaysAcked(x)
    BY <1>4, <2>1 DEF StaysAcked, Exists
  <2>3. ~At(w, "fetched")'
    BY <1>6 DEF At
  <2> QED BY <1>1, <1>6, <1>8, <2>2, <2>3, OverWaits
<1>13. PublishFits(w)' /\ QueryFits(w)' /\ RestOK' /\ published <= published'
  BY <1>1, <1>6, NoPublish DEF QueryFits, At, TypeInv, RestOK
<1>14. Traceable'
  <2>1. \A x \in Msgs : Ended(x)' => Ended(x)
    BY <1>1, <1>6, EndedStays DEF At
  <2> QED BY <1>1, <1>3, <1>6, <1>9, <1>11, <1>12, <1>13, <2>1, TraceGoes DEF Secured
<1>15. Written'
  BY <1>1, WrittenWaits DEF Secured
<1>16. job[w].pc \notin Saving
  BY <1>1 DEF Saving
<1>17. \A o \in Custody : StoredSoon(o)'
  BY <1>1, <1>6, <1>8, <1>16, StoredWaits DEF Secured
<1> QED BY <1>14, <1>15, <1>17 DEF Secured

(* A call that takes messages from their places or puts them into one.     *)
LEMMA CallMoves ==
  ASSUME TypeInv, TypeInv', InCustody, Secured, NEW w \in Workers, OthersWait(w), Call(w),
         UNCHANGED <<setup, lost, accepted, acked, published>>,
         \A m \in Msgs : Exists(m) => Exists(m)',
         \A m \in Msgs : Exists(m)' =>
           Exists(m) \/ (At(w, "register") /\ Msg(w) = m /\ Has(w, m)'),
         \A o \in Custody : InMemory(o)' =>
           \/ InMemory(o)
           \/ job'[w].pc \in Storing /\ job'[w].msg = Of(o) /\ Has(w, Of(o)),
         \A o \in Custody : InMemory(o) => InMemory(o)' \/ Has(w, Of(o))',
         \A m \in Msgs : Has(w, m) => Has(w, m)' \/ \E o \in Custody : Of(o) = m /\ InMemory(o)',
         \A m \in Msgs : Has(w, m)' =>
           \/ Has(w, m) \/ (At(w, "register") /\ Msg(w) = m /\ Exists(m)')
           \/ \E o \in Custody : Of(o) = m /\ InMemory(o),
         \A m \in Msgs : Kept(m) \/ Kept(m)' \/ StaysAcked(m),
         PublishFits(w)', ~At(w, "fetched")', ~At(w, "acking")'
  PROVE  Secured'
<1>1. \A o \in Custody : /\ Found(o) <=> InMemory(o) \/ (~Stored(o) /\ InBucket(o))
                         /\ Found(o)' <=> InMemory(o)' \/ (~Stored(o) /\ InBucket(o))
  <2>1. bucket' = bucket
    BY DEF Call, StartSave
  <2> QED BY <2>1 DEF Found, Stored, ObjectQueue, InBucket
<1>2. \A m \in Msgs : Kept(m) => Kept(m)'
  BY <1>1, KeptGoes
<1>3. \A m \in Msgs : Kept(m)' => Kept(m) \/ (At(w, "register") /\ Msg(w) = m /\ Exists(m)')
  <2>1. \A v \in Workers, m \in Msgs : v # w => (Has(v, m)' <=> Has(v, m))
    BY HasIs DEF OthersWait, Has, Msg
  <2> QED BY <1>1, <2>1 DEF Kept
<1>4. \A m \in Msgs : Exists(m)' => Exists(m) \/ (Owns(w, m) /\ Kept(m)')
  <2>1. \A m : At(w, "register") /\ Msg(w) = m => Owns(w, m)
    BY OwnsIs, OwningIs DEF At, Msg
  <2> QED BY <2>1 DEF Kept
<1> QED BY <1>2, <1>3, <1>4, EndedStays, CallGoes

LEMMA ControlsGo ==
  ASSUME TypeInv, TypeInv', InCustody, Secured, NEW w \in Workers, NEW e \in Entries,
         CreateEntry(w, e) \/ RemoveEntry(w, e)
  PROVE  Secured'
<1>1. PICK pc \in {"creating", "removing"} :
        /\ job' = [job EXCEPT ![w] = [job[w] EXCEPT !.pc = pc, !.entry = e]]
        /\ Call(w) /\ UNCHANGED <<queue, record, leases, setup, lost, accepted, acked, published>>
        /\ job[w].pc = "idle"
  BY DEF CreateEntry, RemoveEntry, At, env, told
<1> DEFINE j == [job[w] EXCEPT !.pc = pc, !.entry = e]
<1>2. pc \in Steps /\ pc \notin Having
  BY HavingIs DEF Steps, Saving
<1>3. j \in Jobs /\ j.pc = pc /\ j.batch = job[w].batch
  BY <1>2, JobFields DEF Jobs
<1>4. OthersWait(w) /\ job'[w] = j
  BY <1>1, <1>3, JobIs, JobFields
<1> HIDE DEF j
<1>5. job[w].batch = {}
  BY <1>1, NoBatch
<1>6. \A m : ~Has(w, m)' /\ ~Has(w, m)
  <2>1. \A m : ~Has(w, m)'
    BY <1>2, <1>3, <1>4, <1>5, HasIs
  <2> QED BY <1>1, <1>5, <2>1, HavingIs DEF Has
<1>7. /\ \A o \in Custody : InMemory(o)' <=> InMemory(o)
      /\ \A m : (Exists(m)' <=> Exists(m)) /\ StaysAcked(m)
  BY <1>1, SamePlaces DEF Exists, StaysAcked
<1>8. PublishFits(w)' /\ ~At(w, "fetched")' /\ ~At(w, "acking")'
  BY <1>3, <1>4, NoPublish DEF At
<1> QED BY <1>1, <1>4, <1>6, <1>7, <1>8, CallMoves

LEMMA RegistersGo ==
  ASSUME TypeInv, TypeInv', InCustody, Secured, NEW w \in Workers,
         Register(w) \/ RegisterReplay(w)
  PROVE  Secured'
<1>0. PICK m \in Msgs : m = job[w].msg
  BY JobFields DEF Register, RegisterReplay, At, WithMessage
<1>1. /\ job[w].pc = "register" /\ Call(w)
      /\ UNCHANGED <<queue, leases, setup, lost, accepted, acked, published>>
  BY DEF Register, RegisterReplay, CreateRecord, CountReplay, At, env, told
<1>2. /\ job[w].batch = {} /\ \A x : ~Has(w, x)
  BY <1>1, NoBatch, HavingIs DEF Has
<1>3. \A o \in Custody : InMemory(o)' <=> InMemory(o)
  BY <1>1, SamePlaces
<1>4. CASE Register(w)
  <2>1. CreateRecord(m) /\ Become(w, "registering") /\ "registering" \in Steps
    BY <1>0, <1>4 DEF Register, Msg, Steps, Saving
  <2>2. \A x \in Msgs : Exists(x) => Exists(x)'
    BY <2>1, ExistsStays DEF TypeInv
  <2>3. \A x \in Msgs : x # m => record'[x] = record[x]
    BY <2>1 DEF CreateRecord, TypeInv, MemoryOK
  <2>4. record'[m] # Absent
    <3>1. Value("queued", 0, 0) # Absent
      BY DEF Absent, Value
    <3>2. record' = [record EXCEPT ![m] = Value("queued", 0, 0)]
      BY <2>1 DEF CreateRecord
    <3> QED BY <3>1, <3>2 DEF TypeInv, MemoryOK
  <2>5. OthersWait(w) /\ job'[w].pc = "registering" /\ job'[w].msg = m
    BY <1>0, <2>1, BecomeOwns
  <2>6. \A x : Has(w, x)' <=> x = m
    BY <1>0, <1>2, <2>1, BecomeHas, HavingIs
  <2>7. m \notin accepted
    BY <1>0, <1>1 DEF Secured, Traceable, PublishFits, Msg
  <2>8. PublishFits(w)' /\ ~At(w, "fetched")' /\ ~At(w, "acking")'
    BY <1>1, <2>4, <2>5, <2>7 DEF PublishFits, At, Msg, Exists
  <2>9. \A x \in Msgs : Kept(x)' \/ StaysAcked(x)
    BY <2>3, <2>6 DEF Kept, StaysAcked, Exists
  <2>10. \A x \in Msgs : Exists(x)' =>
           Exists(x) \/ (At(w, "register") /\ Msg(w) = x /\ Has(w, x)')
    BY <1>0, <1>1, <2>3, <2>6 DEF Exists, At, Msg
  <2>11. \A x \in Msgs : Has(w, x)' => At(w, "register") /\ Msg(w) = x /\ Exists(x)'
    BY <1>0, <1>1, <2>4, <2>6 DEF Exists, At, Msg
  <2> QED BY <1>1, <1>2, <1>3, <2>2, <2>5, <2>8, <2>9, <2>10, <2>11, CallMoves
<1>5. CASE RegisterReplay(w)
  <2>1. PICK n \in Msgs : Exists(n) /\ CountReplay(n) /\ Hold(w, "replaying", n)
    BY <1>5 DEF RegisterReplay, ReplayOf
  <2>2. \A x \in Msgs : Exists(x) => Exists(x)'
    BY <2>1, ExistsStays DEF TypeInv
  <2>3. \A x \in Msgs : /\ x # n => record'[x] = record[x]
                        /\ record'[x].status = record[x].status
    <3>1. record[n] \in Records
      BY <2>1 DEF TypeInv, MemoryOK, Exists
    <3> QED BY <2>1, <3>1 DEF CountReplay, TypeInv, MemoryOK, Records
  <2>4. \A x \in Msgs : (Exists(x)' => Exists(x)) /\ StaysAcked(x)
    BY <2>1, <2>3 DEF Exists, StaysAcked
  <2>5. "replaying" \in Steps /\ "replaying" \notin Having
    BY HavingIs DEF Steps, Saving
  <2>6. OthersWait(w) /\ job'[w].pc = "replaying" /\ job'[w].msg = n /\ job'[w].batch = {}
    BY <1>2, <2>1, <2>5, HoldIs, JobFields
  <2>7. \A x : ~Has(w, x)'
    BY <2>5, <2>6, HasIs
  <2>8. PublishFits(w)' /\ ~At(w, "fetched")' /\ ~At(w, "acking")'
    BY <2>1, <2>2, <2>6 DEF PublishFits, At, Msg, Exists
  <2> QED BY <1>1, <1>2, <1>3, <2>2, <2>4, <2>6, <2>7, <2>8, CallMoves
<1> QED BY <1>4, <1>5

LEMMA DequeueGoes ==
  ASSUME TypeInv, TypeInv', InCustody, Secured, NEW w \in Workers, Dequeue(w)
  PROVE  Secured'
<1>0. PICK m : m = Head(queue)
  OBVIOUS
<1>1. /\ job[w].pc = "dequeue" /\ ~ObjectQueue /\ queue # <<>> /\ TakeHead /\ Call(w)
      /\ Hold(w, "dequeuing", m) /\ UNCHANGED <<record, setup, lost, accepted, acked, published>>
  BY <1>0 DEF Dequeue, TakeHead, At, env, told
<1>2. /\ m \in Msgs /\ InMemory(QueueObject(m))
      /\ \A o \in Custody : InMemory(o)' <=> InMemory(o) /\ o # QueueObject(m)
  BY <1>0, <1>1, TakePlaces DEF InCustody, OnePlace, TypeInv
<1>3. "dequeuing" \in Steps /\ "dequeuing" \in Having
  BY HavingIs DEF Steps, Saving
<1>4. job[w].batch = {} /\ \A x : ~Has(w, x)
  BY <1>1, NoBatch, HavingIs DEF Has
<1>5. OthersWait(w) /\ job'[w].pc = "dequeuing" /\ job'[w].msg = m /\ job'[w].batch = {}
  BY <1>1, <1>2, <1>3, <1>4, HoldIs, JobFields
<1>6. \A x : Has(w, x)' <=> x = m
  BY <1>3, <1>5, HasIs
<1>7. QueueObject(m) \in Custody /\ Of(QueueObject(m)) = m
  BY <1>2, CustodyIs
<1>8. \A o \in Custody : InMemory(o) => InMemory(o)' \/ Has(w, Of(o))'
  <2> SUFFICES ASSUME NEW o \in Custody, InMemory(o), ~InMemory(o)'
               PROVE  Has(w, Of(o))'
    OBVIOUS
  <2>1. Of(o) = m
    BY <1>2, <1>7
  <2>2. Has(w, m)'
    BY <1>6
  <2> QED BY <1>6, <2>1
<1>9. \A x \in Msgs : Has(w, x)' => \E o \in Custody : Of(o) = x /\ InMemory(o)
  BY <1>2, <1>6, <1>7
<1>10. \A x : (Exists(x)' <=> Exists(x)) /\ StaysAcked(x)
  BY <1>1 DEF Exists, StaysAcked
<1>11. PublishFits(w)' /\ ~At(w, "fetched")' /\ ~At(w, "acking")'
  BY <1>5, NoPublish DEF At
<1> QED BY <1>1, <1>2, <1>4, <1>5, <1>8, <1>9, <1>10, <1>11, CallMoves

(* What becomes of the leases that end, and of the records of others.      *)
LEMMA SettleIs ==
  ASSUME TypeInv, NEW D, NEW status \in Statuses, Settle(D, status)
  PROVE  /\ \A m \in Msgs : Exists(m)' <=> Exists(m)
         /\ \A m \in Msgs : (\E d \in D : d[1] = m) /\ Exists(m) => record'[m].status = status
         /\ \A m \in Msgs : (\A d \in D : d[1] # m) => record'[m] = record[m]
<1>1. MemoryOK'
  BY SettleOK DEF TypeInv
<1>2. \A m \in Msgs :
        record'[m] = IF Exists(m) /\ \E d \in D : d[1] = m
                     THEN [record[m] EXCEPT !.status = status] ELSE record[m]
  BY DEF Settle
<1>3. \A m \in Msgs : Exists(m) => record[m] \in Records
  BY DEF TypeInv, MemoryOK, Exists
<1>4. \A r \in Records : [r EXCEPT !.status = status] \in Records
                           /\ [r EXCEPT !.status = status].status = status
  BY DEF Records
<1> QED BY <1>2, <1>3, <1>4, ValuesDiffer DEF Exists

LEMMA NackGoes ==
  ASSUME TypeInv, TypeInv', InCustody, Secured, NEW w \in Workers, NEW d \in Deliveries,
         Settles(w, d, "queued", "nacking")
  PROVE  Secured'
<1>0. "queued" \in Statuses
  BY DEF Statuses
<1>1. d \in leases /\ d[1] \in Msgs /\ Exists(d[1])
  BY CustodyIs DEF Settles, InCustody, RecordsKept, LeasedExist
<1>2. /\ job[w].pc = "idle" /\ Settle({d}, "queued") /\ Call(w) /\ Hold(w, "nacking", d[1])
      /\ UNCHANGED <<setup, lost, accepted, acked, published>>
  BY <1>1 DEF Settles, At, Call, env, told
<1>3. \A o \in Custody : InMemory(o)' <=> InMemory(o) /\ ~(o[1] = 1 /\ o[2] \in {d})
  BY <1>2, SettlePlaces DEF InCustody, OnePlace
<1>4. "nacking" \in Steps /\ "nacking" \in Having
  BY HavingIs DEF Steps, Saving
<1>5. job[w].batch = {} /\ \A x : ~Has(w, x)
  BY <1>2, NoBatch, HavingIs DEF Has
<1>6. OthersWait(w) /\ job'[w].pc = "nacking" /\ job'[w].msg = d[1] /\ job'[w].batch = {}
  BY <1>1, <1>2, <1>4, <1>5, HoldIs, JobFields
<1>7. \A x : Has(w, x)' <=> x = d[1]
  BY <1>4, <1>6, HasIs
<1>8. LeaseObject(d) \in Custody /\ Of(LeaseObject(d)) = d[1] /\ InMemory(LeaseObject(d))
  BY <1>1, CustodyIs DEF InMemory
<1>9. \A o \in Custody : InMemory(o) => InMemory(o)' \/ Has(w, Of(o))'
  <2> SUFFICES ASSUME NEW o \in Custody, InMemory(o), ~InMemory(o)'
               PROVE  Has(w, Of(o))'
    OBVIOUS
  <2>1. Of(o) = d[1]
    BY <1>3 DEF Of
  <2> QED BY <1>7, <2>1
<1>10. \A x \in Msgs : Has(w, x)' => \E o \in Custody : Of(o) = x /\ InMemory(o)
  BY <1>7, <1>8
<1>11. \A x \in Msgs : Exists(x)' <=> Exists(x)
  BY <1>0, <1>2, SettleIs
<1>12. \A x \in Msgs : Kept(x) \/ StaysAcked(x)
  <2>1. Kept(d[1])
    BY <1>8 DEF Kept, Found
  <2>2. \A x \in Msgs : x # d[1] => record'[x] = record[x]
    BY <1>0, <1>2, SettleIs
  <2> QED BY <2>1, <2>2 DEF StaysAcked, Exists
<1>13. PublishFits(w)' /\ ~At(w, "fetched")' /\ ~At(w, "acking")'
  BY <1>6, NoPublish DEF At
<1> QED BY <1>2, <1>3, <1>5, <1>6, <1>9, <1>10, <1>11, <1>12, <1>13, CallMoves

(* The message that is acked is over: its record is put before its lease   *)
(* is deleted.                                                             *)
LEMMA AckGoes ==
  ASSUME TypeInv, TypeInv', InCustody, Secured, NEW w \in Workers, NEW d \in Deliveries,
         Settles(w, d, "acked", "acking")
  PROVE  Secured'
<1>0. "acked" \in Statuses
  BY DEF Statuses
<1>1. PICK m \in Msgs : m = d[1]
  BY CustodyIs
<1>2. d \in leases /\ Exists(m)
  BY <1>1 DEF Settles, InCustody, RecordsKept, LeasedExist
<1>3. /\ job[w].pc = "idle" /\ Settle({d}, "acked") /\ Call(w) /\ Hold(w, "acking", m)
      /\ UNCHANGED <<setup, lost, accepted, acked, published>>
  BY <1>1, <1>2 DEF Settles, At, Call, env, told
<1>4. \A o \in Custody : InMemory(o)' <=> InMemory(o) /\ ~(o[1] = 1 /\ o[2] \in {d})
  BY <1>3, SettlePlaces DEF InCustody, OnePlace
<1>5. "acking" \in Steps /\ "acking" \notin Having
  BY HavingIs DEF Steps, Saving
<1>6. job[w].batch = {} /\ \A x : ~Has(w, x)
  BY <1>3, NoBatch, HavingIs DEF Has
<1>7. OthersWait(w) /\ job'[w].pc = "acking" /\ job'[w].msg = m
      /\ job'[w].batch = {}
  BY <1>3, <1>5, <1>6, HoldIs, JobFields
<1>8. \A x : ~Has(w, x)'
  BY <1>5, <1>7, HasIs
<1>9. /\ LeaseObject(d) \in Custody /\ Of(LeaseObject(d)) = m
      /\ InMemory(LeaseObject(d)) /\ Kept(m)
  <2>1. LeaseObject(d) \in Custody /\ Of(LeaseObject(d)) = m /\ InMemory(LeaseObject(d))
    BY <1>1, <1>2, CustodyIs DEF InMemory
  <2> QED BY <2>1 DEF Kept, Found
<1>10. /\ Unlocked /\ StartSave(w) /\ UNCHANGED <<bucket, saved>>
       /\ save'.desired = Wanted' /\ save'.puts = Differs(Wanted')
  <2>1. Unlocked /\ StartSave(w) /\ UNCHANGED <<bucket, saved>>
    BY <1>3 DEF Call, StartSave
  <2> QED BY <1>3, <2>1, StartIs DEF TypeInv, MemoryOK
<1>11. /\ \A x \in Msgs : Exists(x)' <=> Exists(x)
       /\ record'[m].status = "acked"
       /\ \A x \in Msgs : x # m => record'[x] = record[x]
  BY <1>0, <1>1, <1>2, <1>3, SettleIs
<1>12. \A o \in Custody : /\ Found(o)' => Found(o)
                          /\ Found(o) => Found(o)' \/ Of(o) = m
  <2>1. \A o \in Custody : InMemory(o) => InMemory(o)' \/ Of(o) = m
    BY <1>1, <1>4 DEF Of
  <2> QED BY <1>3, <1>4, <1>10, <2>1 DEF Found, Stored, ObjectQueue, InBucket
<1>13. \A x \in Msgs : /\ Kept(x)' => Kept(x)
                       /\ Kept(x) => Kept(x)' \/ x = m
  <2>1. \A v \in Workers, x \in Msgs : Has(v, x)' <=> Has(v, x)
    BY <1>6, <1>7, <1>8, HasIs DEF OthersWait, Has, Msg
  <2> QED BY <1>12, <2>1 DEF Kept
<1>14. Over(m)'
  <2>1. Wanted'[RecordObject(m)] = record'[m] /\ RecordObject(m) \in Objects
    BY <1>3, WantedNext, ObjectNames DEF TypeInv, MemoryOK
  <2>2. \A v \in Workers : ~(At(v, "fetched")' /\ Msg(v)' = m)
    <3> SUFFICES ASSUME NEW v \in Workers, At(v, "fetched")', Msg(v)' = m
                 PROVE  FALSE
      OBVIOUS
    <3>1. At(v, "fetched") /\ Msg(v) = m
      BY <1>7 DEF At, Msg, OthersWait
    <3> QED BY <1>9, <3>1 DEF Secured, Traceable, QueryFits
  <2>3. \/ bucket'[RecordObject(m)].status = "acked"
        \/ RecordObject(m) \in save'.puts
    <3>1. record'[m] # Absent
      BY <1>2, <1>11 DEF Exists
    <3> DEFINE D == Wanted'
    <3>2. save'.puts = Differs(D) /\ D[RecordObject(m)] = record'[m]
      BY <1>10, <2>1
    <3> HIDE DEF D
    <3>3. RecordObject(m) \in save'.puts \/ saved[RecordObject(m)] = record'[m]
      BY <2>1, <3>1, <3>2, ListsAre
    <3>4. saved[RecordObject(m)] # Absent => bucket[RecordObject(m)] = saved[RecordObject(m)]
      BY <1>10 DEF Secured, Written, RecordWritten
    <3> QED BY <1>10, <1>11, <3>1, <3>3, <3>4
  <2>4. InBucket(LeaseObject(d))'
    BY <1>9, <1>10, InMemoryIsThere DEF InCustody, InBucket
  <2> QED BY <1>9, <1>10, <1>11, <2>1, <2>2, <2>3, <2>4 DEF Over
<1>15. \A x \in Msgs : Kept(x) \/ StaysAcked(x)
  BY <1>9, <1>11 DEF StaysAcked, Exists
<1>16. PublishFits(w)' /\ ~At(w, "fetched")'
  BY <1>7, NoPublish DEF At
<1>17. \A x \in Msgs : Kept(x) => Kept(x)' \/ Over(x)'
  BY <1>13, <1>14
<1>18. \A x \in Msgs : Ended(x)' => Ended(x) \/ Over(x)'
  BY <1>3, <1>7, <1>14 DEF Ended, OthersWait, At, Msg
<1> QED BY <1>3, <1>4, <1>7, <1>11, <1>13, <1>15, <1>16, <1>17, <1>18, CallGoes

LEMMA SweepGoes ==
  ASSUME TypeInv, TypeInv', InCustody, InCustody', Secured, NEW w \in Workers, Sweep(w)
  PROVE  Secured'
<1> DEFINE overdue == leases \cap due
           back == {d[1] : d \in {x \in overdue : Exists(x[1])}}
           pc == IF back = {} THEN "dequeue" ELSE "sweeping"
           j == [job[w] EXCEPT !.pc = pc, !.batch = back]
<1>1. /\ job[w].pc = "sweep" /\ Unlocked /\ Settle(overdue, "queued")
      /\ job' = [job EXCEPT ![w] = j] /\ UNCHANGED <<setup, lost, accepted, acked, published>>
      /\ IF back = {} THEN UNCHANGED <<bucket, saved, save>> ELSE StartSave(w)
  BY DEF Sweep, At, env, told
<1>2. /\ overdue \subseteq leases /\ overdue \subseteq Deliveries
      /\ back \subseteq Msgs /\ \A m : m \in back <=> \E d \in overdue : d[1] = m
  BY DEF InCustody, RecordsKept, LeasedExist, TypeInv, MemoryOK, Deliveries
<1>3. pc \in {"dequeue", "sweeping"} /\ (back = {} <=> pc = "dequeue")
  OBVIOUS
<1> HIDE DEF pc, back, overdue
<1>4. pc \in Steps /\ pc \notin Having
  BY <1>3, HavingIs DEF Steps, Saving
<1>5. j \in Jobs /\ j.pc = pc /\ j.batch = back
  <2>1. pc \in Steps /\ back \subseteq Msgs
    BY <1>2, <1>4
  <2> QED BY <2>1, JobFields DEF Jobs
<1> HIDE DEF j
<1>6. OthersWait(w) /\ job'[w] = j
  BY <1>1, <1>5, JobIs, JobFields
<1>7. /\ \A x : Has(w, x)' <=> x \in back
      /\ \A x : ~Has(w, x)
  <2>1. job[w].batch = {} /\ job[w].pc \notin Having
    BY <1>1, NoBatch, HavingIs
  <2> QED BY <1>4, <1>5, <1>6, <2>1, HasIs DEF Has
<1>8. PublishFits(w)' /\ ~At(w, "fetched")' /\ ~At(w, "acking")'
  BY <1>3, <1>5, <1>6, NoPublish DEF At
<1>9. "queued" \in Statuses
  BY DEF Statuses
<1>10. CASE back = {}
  <2>1. overdue = {}
    BY <1>2, <1>10
  <2>2. UNCHANGED store
    <3>1. record' = [m \in Msgs |-> record[m]] /\ UNCHANGED <<leases, queue, byKey, entries>>
      BY <1>1, <2>1 DEF Settle
    <3>2. record' = record
      BY <3>1 DEF TypeInv, MemoryOK
    <3> QED BY <1>1, <1>10, <3>1, <3>2 DEF store, memory
  <2>3. job[w].pc \notin Saving /\ RestOK' /\ published <= published'
    BY <1>1 DEF Saving, TypeInv, RestOK
  <2>4. \A x \in Msgs : Has(w, x)' <=> Has(w, x)
    BY <1>7, <1>10
  <2> QED BY <1>1, <1>6, <1>8, <2>2, <2>3, <2>4, QuietGoes
<1>11. CASE back # {}
  <2>1. Call(w)
    BY <1>1, <1>11 DEF Call
  <2>2. \A o \in Custody : InMemory(o)' <=> InMemory(o) /\ ~(o[1] = 1 /\ o[2] \in overdue)
    BY <1>1, SettlePlaces DEF InCustody, OnePlace
  <2>3. \A x \in Msgs : Exists(x)' <=> Exists(x)
    BY <1>1, <1>9, SettleIs
  <2>4. \A o \in Custody : InMemory(o) => InMemory(o)' \/ Has(w, Of(o))'
    <3> SUFFICES ASSUME NEW o \in Custody, InMemory(o), ~InMemory(o)'
                 PROVE  Has(w, Of(o))'
      OBVIOUS
    <3>1. Of(o) \in back
      BY <1>2, <2>2 DEF Of
    <3> QED BY <1>7, <3>1
  <2>5. \A x \in back : \E o \in Custody : Of(o) = x /\ InMemory(o)
    <3> SUFFICES ASSUME NEW x \in back
                 PROVE  \E o \in Custody : Of(o) = x /\ InMemory(o)
      OBVIOUS
    <3>1. PICK d \in overdue : d[1] = x
      BY <1>2
    <3>2. LeaseObject(d) \in Custody /\ Of(LeaseObject(d)) = x /\ InMemory(LeaseObject(d))
      BY <1>2, <3>1, CustodyIs DEF InMemory
    <3> QED BY <3>2
  <2>6. \A x \in Msgs : Kept(x) \/ StaysAcked(x)
    <3> SUFFICES ASSUME NEW x \in Msgs, ~Kept(x)
                 PROVE  StaysAcked(x)
      OBVIOUS
    <3>1. x \notin back
      BY <2>5 DEF Kept, Found
    <3>2. record'[x] = record[x]
      BY <1>1, <1>2, <1>9, <3>1, SettleIs
    <3> QED BY <3>2 DEF StaysAcked, Exists
  <2>7. \A x \in Msgs : Has(w, x)' => \E o \in Custody : Of(o) = x /\ InMemory(o)
    BY <1>7, <2>5
  <2> QED BY <1>1, <1>6, <1>7, <1>8, <2>1, <2>2, <2>3, <2>4, <2>6, <2>7, CallMoves
<1> QED BY <1>10, <1>11

LEMMA ClaimGoes ==
  ASSUME TypeInv, TypeInv', InCustody, Secured, NEW w \in Workers, Claim(w)
  PROVE  Secured'
<1>0. PICK m, n : m = job[w].msg /\ n = made[m] + 1
  OBVIOUS
<1> DEFINE d == <<m, n>>
           p == LeaseObject(d)
           j == [job[w] EXCEPT !.pc = "leasing", !.last = n]
<1>1. /\ job[w].pc \in {"claim", "relock"} /\ Exists(m) /\ Lease(d) /\ Call(w)
      /\ job' = [job EXCEPT ![w] = j] /\ UNCHANGED <<setup, lost, accepted, acked, published>>
  BY <1>0 DEF Claim, At, Msg, told
<1>2. d \in Deliveries
  BY <1>0, ClaimTypes DEF Msg
<1>3. d[1] = m /\ m \in Msgs /\ n \in 0 .. MaxDeliveries
  BY <1>2, BoundAssumption DEF Deliveries
<1> HIDE DEF d
<1>4. job[w].batch = {} /\ \A x : Has(w, x) <=> x = m
  <2>1. job[w].batch = {}
    BY <1>1, NoBatch
  <2> QED BY <1>0, <1>1, <2>1, HavingIs DEF Has, Msg
<1>5. "leasing" \in Steps /\ "leasing" \notin Having /\ "leasing" \in Storing
  BY HavingIs DEF Steps, Saving, Storing
<1>6. j \in Jobs /\ j.pc = "leasing" /\ j.batch = {} /\ j.msg = m
  BY <1>0, <1>3, <1>4, <1>5, JobFields DEF Jobs
<1> HIDE DEF j
<1>7. OthersWait(w) /\ job'[w] = j
  BY <1>1, <1>6, JobIs, JobFields
<1>8. \A x : ~Has(w, x)'
  BY <1>5, <1>6, <1>7, HasIs
<1>9. p \in Custody /\ Of(p) = m
  BY <1>2, <1>3, CustodyIs
<1>10. \A o \in Custody : InMemory(o)' <=> InMemory(o) \/ o = p
  BY <1>1, <1>2, LeasePlaces DEF InCustody, OnePlace
<1> HIDE DEF p
<1>11. \A x \in Msgs : Exists(x) => Exists(x)'
  BY <1>1, <1>2, <1>3, ExistsStays DEF TypeInv
<1>12. \A x \in Msgs : x # m => record'[x] = record[x]
  BY <1>1, <1>3 DEF Lease, TypeInv, MemoryOK
<1>13. \A x \in Msgs : Exists(x)' => Exists(x)
  BY <1>1, <1>12 DEF Exists
<1>14. \A x \in Msgs : Kept(x) \/ StaysAcked(x)
  <2>1. Kept(m)
    BY <1>4 DEF Kept
  <2> QED BY <1>12, <2>1 DEF StaysAcked, Exists
<1>15. PublishFits(w)' /\ ~At(w, "fetched")' /\ ~At(w, "acking")'
  BY <1>6, <1>7, NoPublish DEF At
<1>16. \A o \in Custody : InMemory(o)' =>
         \/ InMemory(o)
         \/ job'[w].pc \in Storing /\ job'[w].msg = Of(o) /\ Has(w, Of(o))
  BY <1>4, <1>5, <1>6, <1>7, <1>9, <1>10
<1>17. \A x \in Msgs : Has(w, x) => \E o \in Custody : Of(o) = x /\ InMemory(o)'
  BY <1>4, <1>9, <1>10
<1> QED BY <1>1, <1>7, <1>8, <1>10, <1>11, <1>13, <1>14, <1>15, <1>16, <1>17, CallMoves

LEMMA AppendsGo ==
  ASSUME TypeInv, TypeInv', InCustody, Secured, NEW w \in Workers,
         job[w].pc \in {"enqueue", "requeueOne", "putBack", "return"},
         NEW pc \in {"enqueuing", "requeuing", "puttingBack", "returning"},
         pc = "enqueuing" => job[w].pc = "enqueue", AppendAndSave(w, pc)
  PROVE  Secured'
<1>0. PICK m \in Msgs : m = job[w].msg
  BY EnqueuerIs
<1>1. /\ ~Found(QueueObject(m)) /\ Has(w, m)
      /\ \A x : Has(w, x) <=> x \in job[w].batch \/ x = m
  <2>1. job[w].pc \in Having
    BY HavingIs
  <2> QED BY <1>0, <2>1, EnqueuerIs DEF Has, Msg
<1>2. /\ ~ObjectQueue /\ AppendMessage(m) /\ Call(w) /\ Become(w, pc)
      /\ UNCHANGED <<leases, record, setup, lost, accepted, acked, published>>
  BY <1>0 DEF AppendAndSave, AppendMessage, Msg, env, told
<1>3. pc \in Steps /\ pc \notin Having /\ pc # "idle" /\ pc \in Storing
  BY HavingIs DEF Steps, Saving, Storing
<1>4. /\ \A x : Has(w, x)' <=> x \in job[w].batch
      /\ OthersWait(w) /\ job'[w].pc = pc /\ job'[w].msg = m
  BY <1>0, <1>2, <1>3, BecomeOwns, BecomeHas
<1>5. QueueObject(m) \in Custody /\ Of(QueueObject(m)) = m
  BY CustodyIs
<1>6. \A o \in Custody : InMemory(o)' <=> InMemory(o) \/ o = QueueObject(m)
  BY <1>1, <1>2, AppendPlaces DEF InCustody, OnePlace, TypeInv, Found
<1>7. \A x : (Exists(x)' <=> Exists(x)) /\ StaysAcked(x)
  BY <1>2 DEF Exists, StaysAcked
<1>8. PublishFits(w)' /\ ~At(w, "fetched")' /\ ~At(w, "acking")'
  <2>1. pc = "enqueuing" => Exists(m)
    BY <1>0 DEF Secured, Traceable, PublishFits, Msg
  <2>2. Msg(w)' = m
    BY <1>4 DEF Msg
  <2> QED BY <1>4, <1>7, <2>1, <2>2 DEF PublishFits, At, Exists
<1>9. \A o \in Custody : InMemory(o)' =>
        \/ InMemory(o)
        \/ job'[w].pc \in Storing /\ job'[w].msg = Of(o) /\ Has(w, Of(o))
  BY <1>1, <1>3, <1>4, <1>5, <1>6
<1>10. \A x \in Msgs : Has(w, x) => Has(w, x)' \/ \E o \in Custody : Of(o) = x /\ InMemory(o)'
  BY <1>1, <1>4, <1>5, <1>6
<1>11. \A x \in Msgs : Has(w, x)' => Has(w, x)
  BY <1>1, <1>4
<1> QED BY <1>2, <1>4, <1>6, <1>7, <1>8, <1>9, <1>10, <1>11, CallMoves

(* A message is put into s3QueueStore by the request that has it, or taken *)
(* from there by the request that then has it.                             *)
LEMMA ObjectGoes ==
  ASSUME TypeInv, TypeInv', InCustody, InCustody', Secured, NEW w \in Workers, OthersWait(w),
         NEW m \in Msgs, NEW v \in {Absent, Present}, ObjectQueue,
         bucket' = [bucket EXCEPT ![QueueObject(m)] = v],
         UNCHANGED <<memory, saved, save, setup, lost, acked, published>>,
         job[w].pc \notin Saving, PublishFits(w)', ~At(w, "fetched")', ~At(w, "acking")',
         IF v = Present THEN Has(w, m) ELSE Found(QueueObject(m)) /\ Has(w, m)',
         \A x \in Msgs : Has(w, x) => Has(w, x)' \/ (x = m /\ v = Present),
         \A x \in Msgs : Has(w, x)' => Has(w, x) \/ (x = m /\ v = Absent),
         accepted' = accepted \/ (v = Present /\ accepted' = accepted \cup {m})
  PROVE  Secured'
<1> DEFINE q == QueueObject(m)
<1>1. /\ q \in Custody /\ Of(q) = m /\ ~Stored(q) /\ (Found(q)' <=> v = Present)
      /\ \A o \in Custody : o # q => (Found(o)' <=> Found(o))
  BY ObjectIs
<1>2. /\ bucket'[q] = v /\ \A o \in Objects : o # q => bucket'[o] = bucket[o]
      /\ \A o \in Custody : o \in Objects
      /\ \A x \in Msgs : bucket'[RecordObject(x)] = bucket[RecordObject(x)]
  <2>1. bucket'[q] = v /\ \A o \in Objects : o # q => bucket'[o] = bucket[o]
    BY BucketPutIs DEF TypeInv
  <2>2. \A x \in Msgs : RecordObject(x) \in Objects /\ RecordObject(x) # q
    BY <1>1, CustodyIs, ObjectNames
  <2> HIDE DEF q
  <2> QED BY <2>1, <2>2, CustodyIs
<1> HIDE DEF q
<1>3. /\ \A x : (Exists(x)' <=> Exists(x)) /\ StaysAcked(x)
      /\ \A o \in Custody : InMemory(o)' <=> InMemory(o)
      /\ UNCHANGED <<saved, save>>
  BY SamePlaces DEF Exists, StaysAcked, memory
<1>4. Kept(m) /\ Kept(m)' /\ (v = Present => Owns(w, m)) /\ (v # Present => v = Absent)
  <2>1. v = Present => Has(w, m) /\ Owns(w, m) /\ Found(q)'
    BY <1>1, HasIs
  <2>2. v # Present => Found(q) /\ Has(w, m)'
    BY DEF q
  <2> QED BY <1>1, <2>1, <2>2 DEF Kept
<1>5. \A x \in Msgs : Kept(x)' <=> Kept(x)
  <2>1. \A u \in Workers, x \in Msgs : u # w => (Has(u, x)' <=> Has(u, x))
    BY HasIs DEF OthersWait, Has, Msg
  <2>2. \A x \in Msgs : x # m => (Has(w, x)' <=> Has(w, x))
    OBVIOUS
  <2>3. \A o \in Custody : Of(o) # m => (Found(o)' <=> Found(o))
    BY <1>1
  <2> QED BY <1>4, <2>1, <2>2, <2>3 DEF Kept
<1>6. \A x \in Msgs : Over(x) => Kept(x) \/ Over(x)'
  <2> SUFFICES ASSUME NEW x \in Msgs, Over(x), x # m
               PROVE  Over(x)'
    BY <1>4
  <2>1. \A o \in Custody : Of(o) = x /\ InBucket(o) => InBucket(o)'
    BY <1>1, <1>2 DEF InBucket
  <2>2. bucket'[RecordObject(x)] = bucket[RecordObject(x)] /\ StaysAcked(x)
    BY <1>2, <1>3
  <2> QED BY <1>3, <2>1, <2>2, OverWaits
<1>7. QueryFits(w)' /\ RestOK' /\ published <= published' /\ accepted \subseteq accepted'
  BY DEF QueryFits, TypeInv, RestOK
<1>8. \A x \in accepted' : x \in accepted \/ (Owns(w, x) /\ Kept(x)')
  BY <1>4
<1>9. Traceable'
  BY <1>3, <1>5, <1>6, <1>7, <1>8, EndedStays, TraceGoes DEF Secured
<1>10. Written'
  BY <1>2, <1>3, WrittenWaits DEF Secured
<1>11. \A o \in Custody : InMemory(o) /\ InBucket(o) => InBucket(o)'
  BY <1>1, <1>2, MemoryIsStored DEF InBucket
<1>12. \A o \in Custody : StoredSoon(o)'
  BY <1>3, <1>11, StoredWaits DEF Secured
<1> QED BY <1>9, <1>10, <1>12 DEF Secured

LEMMA PutObjectGoes ==
  ASSUME TypeInv, TypeInv', InCustody, InCustody', Secured, NEW w \in Workers,
         job[w].pc \in {"enqueue", "requeueOne", "putBack", "return"},
         NEW pc \in {"idle", "requeue"},
         pc = "requeue" <=> job[w].pc = "requeueOne", PutObject(w, pc),
         UNCHANGED <<lost, acked>>,
         accepted' \in {accepted, accepted \cup {Msg(w)}}
  PROVE  Secured'
<1>0. PICK m \in Msgs : m = job[w].msg
  BY EnqueuerIs
<1>1. /\ Has(w, m) /\ (job[w].pc # "requeueOne" => job[w].batch = {})
      /\ \A x : Has(w, x) <=> x \in job[w].batch \/ x = m
  <2>1. job[w].pc \in Having
    BY HavingIs
  <2> QED BY <1>0, <2>1, EnqueuerIs DEF Has, Msg
<1>2. /\ ObjectQueue /\ bucket' = [bucket EXCEPT ![QueueObject(m)] = Present]
      /\ Become(w, pc) /\ UNCHANGED <<memory, saved, save, setup, published>>
      /\ accepted' = accepted \/ accepted' = accepted \cup {m}
  BY <1>0 DEF PutObject, PutMessage, Msg, env
<1>3. pc \in Steps /\ pc \notin Having
  BY HavingIs DEF Steps
<1>4. /\ \A x : Has(w, x)' <=> pc # "idle" /\ x \in job[w].batch
      /\ OthersWait(w) /\ job'[w].pc = pc
  BY <1>0, <1>2, <1>3, BecomeOwns, BecomeHas
<1>5. /\ \A x \in Msgs : Has(w, x) => Has(w, x)' \/ x = m
      /\ \A x \in Msgs : Has(w, x)' => Has(w, x)
  BY <1>1, <1>4
<1>6. PublishFits(w)' /\ ~At(w, "fetched")' /\ ~At(w, "acking")' /\ job[w].pc \notin Saving
  BY <1>4, NoPublish DEF At, Saving
<1>7. UNCHANGED <<memory, saved, save, setup, lost, acked, published>>
  BY <1>2
<1> QED BY <1>1, <1>2, <1>4, <1>5, <1>6, <1>7, ObjectGoes

LEMMA DequeueObjectGoes ==
  ASSUME TypeInv, TypeInv', InCustody, InCustody', Secured, NEW w \in Workers,
         DequeueObject(w)
  PROVE  Secured'
<1>1. PICK m \in Oldest : /\ bucket' = [bucket EXCEPT ![QueueObject(m)] = Absent]
                          /\ Hold(w, "claim", m)
  BY DEF DequeueObject
<1>2. /\ m \in Msgs /\ InBucket(QueueObject(m)) /\ job[w].pc = "dequeue" /\ ObjectQueue
      /\ UNCHANGED <<memory, saved, save, setup, lost, acked, published>> /\ accepted' = accepted
  BY DEF Oldest, DequeueObject, At, env, told
<1>3. Found(QueueObject(m))
  BY <1>2, CustodyIs DEF Found, Stored
<1>4. job[w].batch = {} /\ "claim" \in Steps /\ \A x : ~Has(w, x)
  <2>1. job[w].batch = {} /\ job[w].pc \notin Having
    BY <1>2, NoBatch, HavingIs
  <2> QED BY <2>1 DEF Has, Steps, WithMessage
<1>5. OthersWait(w) /\ job'[w].pc = "claim" /\ job'[w].msg = m /\ job'[w].batch = {}
  BY <1>1, <1>2, <1>4, HoldIs, JobFields
<1>6. \A x : Has(w, x)' <=> x = m
  BY <1>5, HasIs, HavingIs
<1>7. PublishFits(w)' /\ ~At(w, "fetched")' /\ ~At(w, "acking")' /\ job[w].pc \notin Saving
  BY <1>2, <1>5, NoPublish DEF At, Saving
<1> QED BY <1>1, <1>2, <1>3, <1>4, <1>5, <1>6, <1>7, ValuesDiffer, ObjectGoes

LEMMA SavingGoes ==
  ASSUME TypeInv, TypeInv', InCustody, Secured, NEW w \in Workers, Save(w)
  PROVE  Secured'
<1>1. PICK o \in NextCalls : SaveObject(w, o)
  BY DEF Save
<1>2. /\ save.by = w /\ o \in save.puts \cup save.deletes
      /\ \A p \in Objects : p # o => bucket'[p] = bucket[p]
      /\ UNCHANGED memory
  BY <1>1, SaveObjectIs, NextCallsAre DEF TypeInv
<1>3. UNCHANGED <<job, setup, lost, accepted, acked, published>> /\ OthersWait(w)
  BY DEF Save, env, told, OthersWait
<1>4. \A p \in Custody : Found(p)' <=> Found(p)
  <2>1. \A p \in Custody : /\ p \in Objects /\ (InMemory(p)' <=> InMemory(p))
                           /\ Stored(p)' <=> Stored(p)
    BY <1>2, <1>3, CustodyIs, SamePlaces DEF memory
  <2>2. \A p \in Custody : p = o => Stored(p)
    BY <1>2 DEF InCustody, Synced
  <2> QED BY <1>2, <2>1, <2>2 DEF Found, InBucket
<1>5. \A x \in Msgs : /\ Kept(x)' <=> Kept(x)
                      /\ Exists(x)' <=> Exists(x)
  BY <1>2, <1>3, <1>4 DEF Kept, Has, Msg, Exists, memory
<1>6. \A x \in Msgs : Over(x) => Over(x)'
  BY <1>1, <1>3, OverSaves DEF Secured
<1>7. PublishFits(w)' /\ QueryFits(w)'
  <2>1. PublishFits(w) /\ QueryFits(w)
    BY DEF Secured, Traceable
  <2>2. job[w].pc \in Saving
    BY <1>2, OneSaves DEF TypeInv
  <2>3. ~At(w, "fetched") /\ Msg(w)' = Msg(w) /\ \A pc : At(w, pc)' <=> At(w, pc)
    BY <1>3, <2>2 DEF At, Msg, Saving
  <2> QED BY <1>2, <1>3, <2>1, <2>3 DEF PublishFits, QueryFits, Exists, memory
<1>8. RestOK' /\ published <= published' /\ accepted \subseteq accepted'
  BY <1>3 DEF TypeInv, RestOK
<1>9. Traceable'
  <2>1. \A x \in Msgs : Ended(x)' => Ended(x)
    BY <1>3 DEF Ended, At, Msg
  <2> QED BY <1>3, <1>5, <1>6, <1>7, <1>8, <2>1, TraceGoes DEF Secured
<1>10. Written' /\ \A p \in Custody : StoredSoon(p)'
  BY <1>1, <1>3, WrittenSaves, StoredSaves DEF Secured
<1> QED BY <1>9, <1>10 DEF Secured

LEMMA SavedGoes ==
  ASSUME TypeInv, TypeInv', InCustody, InCustody', Secured, NEW w \in Workers, Saved(w)
  PROVE  Secured'
<1>1. /\ FinishSave(w) /\ UNCHANGED <<setup, published, lost>>
      /\ accepted \subseteq accepted'
      /\ \A m \in accepted' : \/ m \in accepted
                              \/ m = job[w].msg /\ job[w].pc \in {"enqueuing", "replaying"}
  BY DEF Saved, Answer, AddIf, env, At, Msg
<1>2. save.by = w /\ save'.by = "nobody" /\ UNCHANGED <<memory, bucket>>
  BY <1>1, FinishIs DEF TypeInv
<1>3. job[w].pc \in Saving
  BY <1>2, OneSaves DEF TypeInv
<1> DEFINE pc == AfterSave(job[w].pc)
<1>4. pc \in Steps /\ Become(w, pc)
  BY <1>3, AfterIs DEF Saved
<1>5. /\ pc \in {"enqueue", "requeue", "claim", "return", "idle"}
      /\ pc = "enqueue" <=> job[w].pc = "registering"
      /\ pc = "claim" <=> job[w].pc = "dequeuing"
      /\ pc = "return" <=> job[w].pc = "nacking"
      /\ job[w].pc \in {"sweeping", "requeuing"} => pc = "requeue"
  BY DEF AfterSave
<1> HIDE DEF pc
<1>6. job[w].batch # {} => pc = "requeue"
  BY <1>3, <1>5 DEF InCustody, OnePlace, BatchFits, Saving
<1>7. /\ \A x : Has(w, x)' <=>
              pc # "idle" /\ (x \in job[w].batch \/ (job[w].msg = x /\ pc \in Having))
      /\ OthersWait(w) /\ job'[w].pc = pc
      /\ pc # "idle" => job'[w].msg = job[w].msg
  BY <1>4, BecomeOwns, BecomeHas
<1>8. pc \in Having <=> job[w].pc \in Having
  BY <1>3, <1>5, HavingIs DEF Saving
<1>9. \A x : Has(w, x)' <=> Has(w, x)
  BY <1>6, <1>7, <1>8, HavingIs DEF Has, Msg
<1>10. \A o \in Custody : Found(o)' <=> Found(o)
  BY <1>1, <1>2, SamePlaces DEF Found, InBucket, memory
<1>11. \A x : Exists(x)' <=> Exists(x)
  BY <1>2 DEF Exists, memory
<1>12. \A x \in Msgs : Kept(x)' <=> Kept(x)
  BY <1>7, <1>9, <1>10, HasIs DEF Kept, OthersWait, Has, Msg
<1>13. ~At(w, "fetched")'
  BY <1>5, <1>7 DEF At
<1>14. \A x \in Msgs : Over(x) => Over(x)'
  BY <1>1, <1>7, <1>13, OverFinishes
<1>15. PublishFits(w)
  BY DEF Secured, Traceable
<1>16. PublishFits(w)'
  <2>1. pc = "enqueue" => Exists(job[w].msg)
    BY <1>5, <1>15 DEF PublishFits, Msg
  <2> QED BY <1>5, <1>7, <1>11, <2>1 DEF PublishFits, At, Msg, Exists
<1>17. \A x \in accepted' : x \in accepted \/ (Exists(x) /\ job[w].pc \in Saving)
  BY <1>1, <1>3, <1>15 DEF PublishFits, Msg
<1>18. QueryFits(w)' /\ RestOK' /\ published <= published'
  BY <1>1, <1>13 DEF QueryFits, TypeInv, RestOK
<1>19. Traceable'
  <2>1. \A x \in Msgs : Ended(x)' => Ended(x)
    <3>1. \A x \in acked' : x \in acked \/ (x = Msg(w) /\ At(w, "acking"))
      BY DEF Saved, Answer, AddIf
    <3>2. pc # "acking"
      BY <1>5
    <3> QED BY <1>7, <3>1, <3>2 DEF Ended, OthersWait, At, Msg
  <2> QED
    BY <1>1, <1>7, <1>11, <1>12, <1>14, <1>16, <1>17, <1>18, <2>1, TraceGoes DEF Secured
<1>20. Written' /\ \A o \in Custody : StoredSoon(o)'
  BY <1>1, <1>2, WrittenFinishes, StoredUnlocked DEF Secured, Unlocked
<1> QED BY <1>19, <1>20 DEF Secured

(* A message whose ack was answered is nowhere.                            *)
LEMMA AckedIsAway ==
  ASSUME InCustody, NEW m \in acked
  PROVE  /\ \A o \in Custody : Of(o) = m => ~InBucket(o)
         /\ ~Kept(m)
<1>1. ~Around(m)
  BY DEF InCustody, InTime
<1> QED BY <1>1, HasIs DEF Around, Traced, Found, Kept

(* A restart finds what the bucket has of a message; what it does not find *)
(* was in the hands of a request, or is over.                              *)
LEMMA CrashGoes ==
  ASSUME TypeInv, TypeInv', InCustody, InCustody', Secured, Crash
  PROVE  Secured'
<1>1. /\ Load /\ UNCHANGED <<setup, published, accepted, acked>> /\ lost' = lost \cup InHands
      /\ job' = [w \in Workers |-> Idle]
  BY DEF Crash, env
<1>2. /\ Unlocked' /\ bucket' = bucket /\ leases' = LoadedLeases /\ record' = LoadedRecord
      /\ ToSet(queue') = LoadedMessages
  BY <1>1, LoadIs DEF TypeInv
<1>3. Idle.pc = "idle" /\ Idle.batch = {}
  BY DEF Idle
<1>4. \A w \in Workers : job'[w].pc = "idle" /\ job'[w].batch = {}
  BY <1>1, <1>3
<1>5. /\ \A w \in Workers, m \in Msgs : ~Has(w, m)'
      /\ \A w \in Workers : PublishFits(w)' /\ QueryFits(w)' /\ ~At(w, "fetched")'
  <2> SUFFICES ASSUME NEW w \in Workers
               PROVE  /\ \A m \in Msgs : ~Has(w, m)'
                      /\ PublishFits(w)' /\ QueryFits(w)' /\ ~At(w, "fetched")'
    OBVIOUS
  <2>1. \A m \in Msgs : ~Has(w, m)'
    BY <1>4, HasIs, HavingIs
  <2> QED BY <1>4, <2>1 DEF PublishFits, QueryFits, At
<1>6. \A o \in Custody : Found(o)' <=> InBucket(o)
  <2> SUFFICES ASSUME NEW o \in Custody
               PROVE  Found(o)' <=> InBucket(o)
    OBVIOUS
  <2>1. CASE o[1] = 1
    <3>1. o[2] \in Deliveries /\ o = LeaseObject(o[2])
      BY <2>1, CustodyIs
    <3>2. InMemory(o)' <=> InBucket(o)
      BY <1>2, <2>1, <3>1 DEF InMemory, LoadedLeases
    <3> QED BY <2>1, <3>2 DEF Found, Stored
  <2>2. CASE o[1] # 1
    <3>1. o[2] \in Msgs /\ o = QueueObject(o[2])
      BY <2>2, CustodyIs
    <3>2. InMemory(o)' <=> ~ObjectQueue /\ InBucket(o)
      BY <1>1, <1>2, <2>2, <3>1 DEF InMemory, LoadedMessages, ObjectQueue
    <3> QED BY <1>1, <1>2, <2>2, <3>2 DEF Found, Stored, InBucket, ObjectQueue
  <2> QED BY <2>1, <2>2
<1>7. \A m \in Msgs : Kept(m)' <=> \E o \in Custody : Of(o) = m /\ InBucket(o)
  BY <1>5, <1>6 DEF Kept
<1>8. \A m \in Msgs : m \in Active => \E o \in Custody : Of(o) = m /\ InBucket(o)
  <2> SUFFICES ASSUME NEW m \in Active, m \in Msgs
               PROVE  \E o \in Custody : Of(o) = m /\ InBucket(o)
    OBVIOUS
  <2>1. CASE m \in LoadedMessages
    BY <2>1, CustodyIs DEF LoadedMessages
  <2>2. CASE \E d \in LoadedLeases : d[1] = m
    BY <2>2, CustodyIs DEF LoadedLeases
  <2> QED BY <2>1, <2>2 DEF Active
<1>9. \A m \in Msgs : Exists(m)' => m \in Active
  BY <1>2 DEF Exists, LoadedRecord
<1>10. \A m \in Msgs : Known(m)' => m <= published'
  <2>1. \A m \in Msgs : Exists(m)' => Around(m)
    BY <1>8, <1>9 DEF Around, Traced
  <2> QED BY <1>1, <2>1 DEF Known, InCustody, InTime, Secured, Traceable
<1>11. KeptExist'
  <2> SUFFICES ASSUME ~ObjectQueue', NEW m \in Msgs, Kept(m)'
               PROVE  Exists(m)'
    BY DEF KeptExist
  <2>1. PICK o \in Custody : Of(o) = m /\ InBucket(o)
    BY <1>7
  <2>2. ~ObjectQueue
    BY <1>1 DEF ObjectQueue
  <2>3. m \in Active
    <3>1. CASE o[1] = 1
      BY <2>1, <3>1, CustodyIs DEF Of, Active, LoadedLeases
    <3>2. CASE o[1] # 1
      BY <2>1, <2>2, <3>2, CustodyIs DEF Of, Active, LoadedMessages
    <3> QED BY <3>1, <3>2
  <2>4. InBucket(RecordObject(m))
    BY <2>1 DEF InCustody, RecordsKept, PlacedHaveRecords, Traced
  <2> QED BY <1>2, <2>3, <2>4 DEF Exists, LoadedRecord, InBucket
<1>12. ASSUME NEW m \in Msgs
       PROVE  Accounted(m)'
  <2> SUFFICES ASSUME ((Known(m) /\ m \notin lost) \/ Ended(m))', ~Kept(m)'
               PROVE  Over(m)'
    BY DEF Accounted
  <2>1. ~\E o \in Custody : Of(o) = m /\ InBucket(o)
    BY <1>7
  <2>2. ~Exists(m)'
    BY <1>8, <1>9, <2>1
  <2>3. ~Kept(m) /\ ((m \in accepted /\ m \notin lost) \/ m \in acked)
    <3>1. CASE m \in acked
      BY <3>1, AckedIsAway DEF Secured
    <3>2. CASE m \notin acked
      <4>1. m \in accepted /\ m \notin lost /\ m \notin InHands
        BY <1>1, <1>4, <2>2, <3>2 DEF Known, Ended, At
      <4>2. \A w \in Workers : ~Carries(w, m) /\ ~(Msg(w) = m /\ job[w].pc \in Storing)
        BY <4>1 DEF InHands
      <4>3. \A w \in Workers : ~Has(w, m)
        <5> SUFFICES ASSUME NEW w \in Workers, Has(w, m)
                     PROVE  FALSE
          OBVIOUS
        <5>1. At(w, "registering") /\ Msg(w) = m
          BY <4>2 DEF Has, Having, Carries, At
        <5> QED BY <4>1, <5>1 DEF Secured, Traceable, PublishFits, At
      <4> QED BY <2>1, <4>1, <4>2, <4>3 DEF Kept, Found, Secured, StoredSoon
    <3> QED BY <3>1, <3>2
  <2>6. bucket[RecordObject(m)].status = "acked"
    BY <2>1, <2>3 DEF Secured, Traceable, Accounted, Known, Ended, Over
  <2>7. Exists(m)' => record'[m].status = "acked"
    BY <2>2
  <2>8. \A w \in Workers : ~(At(w, "fetched") /\ Msg(w) = m)'
    BY <1>5
  <2> QED BY <1>2, <2>6, <2>7, <2>8 DEF Over
<1>13. Written' /\ \A o \in Custody : StoredSoon(o)'
  BY <1>1, <1>2, WrittenLoads, StoredUnlocked
<1> QED BY <1>5, <1>10, <1>11, <1>12, <1>13 DEF Secured, Traceable

LEMMA SetupStays ==
  ASSUME [Next]_vars
  PROVE  setup' = setup
BY DEF Next, Proceed, Register, RegisterReplay, PublishEnqueue, Abort, Sweep, RequeueNext,
   Requeue, Dequeue, DequeueObject, NothingQueued, Claim, ReadRecord, CacheLoaded, PutBack,
   NackEnqueue, CacheRecord, Save, Saved, Pull, DequeueFails, ClaimFails, SaveFails,
   ControlCall, CreateEntry, RemoveEntry, Publish, Query, Ack, Nack, Settles, LeaseElapses,
   Crash, AppendAndSave, PutObject, PutFails, env, vars

LEMMA WindowNext ==
  ASSUME TypeInv, CustodyInv, WindowInv, [Next]_vars
  PROVE  WindowInv'
<1> SUFFICES ASSUME failures' = 0, QueriesAreFresh'
             PROVE  Secured'
  BY DEF WindowInv
<1>0. /\ TypeInv' /\ InCustody' /\ QueriesAreFresh
      /\ setup.workers \subseteq Workers /\ setup.entries \subseteq Entries
  BY TypeNext, CustodyNext, SetupFields, SetupStays DEF CustodyInv, QueriesAreFresh
<1>1. failures \in Nat
  BY DEF TypeInv, RestOK
<1>2. failures = 0 => InCustody /\ Secured
  BY <1>0 DEF CustodyInv, WindowInv
<1>3. ASSUME NEW w \in Workers, PutFails(w, "abort") \/ PutFails(w, "dequeue")
                                  \/ PutFails(w, "idle") \/ DequeueFails(w) \/ SaveFails(w)
      PROVE  FALSE
  BY <1>1, <1>3 DEF PutFails, DequeueFails, SaveFails
<1>4. ASSUME NEW w \in Workers, Enqueues(w)
      PROVE  Secured'
  <2>1. job[w].pc \in {"enqueue", "requeueOne", "putBack", "return"}
    BY <1>4, EnqueueIs
  <2>2. CASE \E pc \in {"enqueuing", "requeuing", "puttingBack", "returning"} :
               AppendAndSave(w, pc)
    <3>1. PICK pc \in {"enqueuing", "requeuing", "puttingBack", "returning"} :
            AppendAndSave(w, pc) /\ (pc = "enqueuing" => job[w].pc = "enqueue")
      <4>1. PICK pc \in {"enqueuing", "requeuing", "puttingBack", "returning"} :
              AppendAndSave(w, pc)
        BY <2>2
      <4>2. ~ObjectQueue
        BY <4>1 DEF AppendAndSave
      <4> QED BY <1>4, <4>2 DEF Enqueues, PublishEnqueue, Requeue, PutBack, NackEnqueue,
              PutObject, PutFails, At
    <3>2. failures = 0
      BY <3>1 DEF AppendAndSave, count
    <3> QED BY <1>0, <1>2, <2>1, <3>1, <3>2, AppendsGo
  <2>3. CASE \E pc \in {"idle", "requeue"} :
               /\ PutObject(w, pc) /\ UNCHANGED <<handed, acked, created, removed, lost>>
               /\ pc = "requeue" <=> job[w].pc = "requeueOne"
               /\ accepted' \in {accepted, accepted \cup {Msg(w)}}
    <3>1. failures = 0
      BY <2>3 DEF PutObject, count
    <3> QED BY <1>0, <1>2, <2>1, <2>3, <3>1, PutObjectGoes
  <2>4. CASE \E pc \in {"abort", "dequeue", "idle"} : PutFails(w, pc)
    BY <1>3, <2>4
  <2> QED BY <1>4, <2>2, <2>3, <2>4, EnqueueIs
<1>5. ASSUME NEW w \in Workers, Proceed(w)
      PROVE  Secured'
  <2>1. CASE Register(w) \/ RegisterReplay(w)
    BY <1>0, <1>2, <2>1, RegistersGo DEF Register, RegisterReplay, count
  <2>2. CASE Abort(w)
    BY <1>2, <2>2 DEF Abort, At, count, InCustody, RecordsKept, CarriedHaveRecords
  <2>3. CASE Sweep(w)
    BY <1>0, <1>2, <2>3, SweepGoes DEF Sweep, count
  <2>4. CASE RequeueNext(w) \/ NothingQueued(w) \/ ReadRecord(w)
    <3>1. failures = 0
      BY <2>4 DEF RequeueNext, NothingQueued, ReadRecord, count
    <3> QED BY <1>0, <1>2, <2>4, <3>1, MovesGo
  <2>5. CASE Dequeue(w)
    BY <1>0, <1>2, <2>5, DequeueGoes DEF Dequeue, count
  <2>6. CASE DequeueObject(w)
    BY <1>0, <1>2, <2>6, DequeueObjectGoes DEF DequeueObject, count
  <2>7. CASE Claim(w)
    BY <1>0, <1>2, <2>7, ClaimGoes DEF Claim, count
  <2>8. CASE CacheLoaded(w) \/ CacheRecord(w)
    BY <1>0, <1>2, <2>8, CachesGo DEF CacheLoaded, CacheRecord, count
  <2>9. CASE Save(w)
    BY <1>0, <1>2, <2>9, SavingGoes DEF Save, count
  <2>10. CASE Saved(w)
    BY <1>0, <1>2, <2>10, SavedGoes DEF Saved, count
  <2> QED BY <1>4, <1>5, <2>1, <2>2, <2>3, <2>4, <2>5, <2>6, <2>7, <2>8, <2>9, <2>10
          DEF Proceed, Enqueues
<1>6. ASSUME NEW w \in Workers, NEW m, m \in Msgs, Publish(w, m) \/ Query(w, m)
      PROVE  Secured'
  <2>1. failures = 0
    BY <1>1, <1>6 DEF Publish, Query, count
  <2> QED BY <1>0, <1>2, <1>6, <2>1, MovesGo
<1>7. ASSUME NEW w \in Workers, Pull(w) \/ ClaimFails(w)
      PROVE  Secured'
  <2>1. failures = 0
    BY <1>1, <1>7 DEF Pull, ClaimFails, count
  <2> QED BY <1>0, <1>2, <1>7, <2>1, MovesGo
<1>8. ASSUME NEW w \in Workers, NEW e \in Entries, CreateEntry(w, e) \/ RemoveEntry(w, e)
      PROVE  Secured'
  BY <1>0, <1>2, <1>8, ControlsGo DEF CreateEntry, RemoveEntry, count
<1>9. ASSUME NEW w \in Workers, NEW d \in handed, Ack(w, d) \/ Nack(w, d)
      PROVE  Secured'
  <2>1. d \in Deliveries
    BY DEF TypeInv, RestOK
  <2>2. Settles(w, d, "acked", "acking") \/ Settles(w, d, "queued", "nacking")
    BY <1>9 DEF Ack, Nack
  <2>3. failures = 0
    BY <2>2 DEF Settles, count
  <2> QED BY <1>0, <1>2, <2>1, <2>2, <2>3, AckGoes, NackGoes
<1>10. ASSUME UNCHANGED <<store, job, published, setup, accepted, acked, lost, failures>>
       PROVE  Secured'
  BY <1>2, <1>10 DEF Secured, Written, PutsAreWanted, RecordWritten, StoredSoon, Traceable,
     Known, Ended, Accounted, Kept, Has, Over, PublishFits, QueryFits, KeptExist, Found, InMemory,
     Stored, ObjectQueue, InBucket, At, Msg, Unlocked, Exists, store, memory
<1>11. ASSUME NEW d, LeaseElapses(d)
       PROVE  Secured'
  BY <1>10, <1>11 DEF LeaseElapses, count, told
<1>12. CASE Crash
  BY <1>0, <1>2, <1>12, CrashGoes DEF Crash
<1>13. CASE UNCHANGED vars
  BY <1>10, <1>13 DEF vars, env, count, told
<1> QED
  BY <1>0, <1>3, <1>5, <1>6, <1>7, <1>8, <1>9, <1>11, <1>12, <1>13 DEF Next, ControlCall

LEMMA WindowInit ==
  ASSUME Init
  PROVE  WindowInv
<1>1. /\ queue = <<>> /\ leases = {} /\ record = [m \in Msgs |-> Absent]
      /\ bucket = [o \in Objects |-> Absent] /\ saved = bucket /\ save = NoSave
      /\ job = [w \in Workers |-> Idle] /\ accepted = {} /\ acked = {}
  BY DEF Init, StoreInit
<1>2. \A w \in Workers : job[w].pc = "idle" /\ job[w].batch = {}
  BY <1>1 DEF Idle
<1>3. Unlocked /\ save.puts = {}
  BY <1>1, NoSaveIs DEF Unlocked
<1>4. \A o \in Custody : bucket[o] = Absent /\ ~InMemory(o)
  BY <1>1, CustodyIs, ToSetIs DEF InMemory
<1>5. \A m \in Msgs : ~Known(m) /\ ~Kept(m)
  <2>1. \A w \in Workers, m \in Msgs : ~Has(w, m)
    BY <1>2, HavingIs DEF Has
  <2> QED BY <1>1, <1>4, <2>1 DEF Known, Exists, Kept, Found, InBucket
<1>6. Written
  BY <1>1, <1>3 DEF Written, PutsAreWanted, RecordWritten
<1>7. Traceable
  BY <1>1, <1>2, <1>5 DEF Traceable, PublishFits, QueryFits, KeptExist, Accounted, Ended, At
<1> QED BY <1>4, <1>6, <1>7 DEF WindowInv, Secured, StoredSoon

(* A message that was accepted can be recovered from the bucket until it   *)
(* is acked, unless a request held it when the hub crashed or holds it     *)
(* now: whatever else crashes, only the steps of a request between two of  *)
(* its calls are a window in which a message is lost.  That is for a hub   *)
(* without failures of the bucket, and unless s3QueueStore keeps messages  *)
(* and they are asked for: then the record of an acked message may be put  *)
(* back as it was before, from what a query had read.                      *)
THEOREM LossesNeedAWindow == Spec /\ QueriesAreFresh => []LossNeedsWindow
<1>1. Init => WindowInv
  BY WindowInit
<1>2. TypeInv /\ CustodyInv /\ WindowInv /\ [Next]_vars => WindowInv'
  BY WindowNext
<1>3. QueriesAreFresh /\ [Next]_vars => QueriesAreFresh'
  BY SetupStays DEF QueriesAreFresh
<1>4. ASSUME TypeInv, CustodyInv, WindowInv, QueriesAreFresh
      PROVE  LossNeedsWindow
  <2> SUFFICES ASSUME failures = 0, NEW m \in accepted, m \notin InHands, m \notin lost,
                      bucket[RecordObject(m)].status # "acked"
               PROVE  Recoverable(m)
    BY DEF LossNeedsWindow
  <2>1. InCustody /\ Secured /\ m \in Msgs
    BY <1>4 DEF CustodyInv, WindowInv, TypeInv, RestOK
  <2>2. \A w \in Workers : ~Carries(w, m) /\ ~(Msg(w) = m /\ job[w].pc \in Storing)
    BY <2>1 DEF InHands
  <2>3. \A w \in Workers : ~Has(w, m)
    <3> SUFFICES ASSUME NEW w \in Workers, Has(w, m)
                 PROVE  FALSE
      OBVIOUS
    <3>1. At(w, "registering") /\ Msg(w) = m
      BY <2>2 DEF Has, Having, Carries, At
    <3> QED BY <2>1, <3>1 DEF Secured, Traceable, PublishFits, At
  <2>4. PICK o \in Custody : Of(o) = m /\ InBucket(o)
    <3>1. CASE Kept(m)
      BY <2>1, <2>2, <2>3, <3>1 DEF Kept, Found, Secured, StoredSoon
    <3>2. CASE Over(m)
      BY <3>2 DEF Over
    <3> QED BY <2>1, <3>1, <3>2 DEF Secured, Traceable, Accounted, Known
  <2>5. InBucket(RecordObject(m))
    BY <2>1, <2>4 DEF InCustody, RecordsKept, PlacedHaveRecords, Traced
  <2> QED BY <2>4, <2>5, CustodyIs DEF Recoverable, Of
<1> QED BY <1>1, <1>2, <1>3, <1>4, CustodyIsKept, PTL DEF Spec

(* The record of a message whose ack was answered stays in the bucket as   *)
(* acked, where a question about the message finds it after any restart,   *)
(* though no load reads it: no save puts an older one over it.             *)
THEOREM HistoryStays == Spec => []HistoryIsKept
<1>1. Init => WindowInv
  BY WindowInit
<1>2. TypeInv /\ CustodyInv /\ WindowInv /\ [Next]_vars => WindowInv'
  BY WindowNext
<1>3. ASSUME TypeInv, CustodyInv, WindowInv
      PROVE  HistoryIsKept
  <2> SUFFICES ASSUME failures = 0, QueriesAreFresh, NEW m \in acked
               PROVE  bucket[RecordObject(m)].status = "acked"
    BY DEF HistoryIsKept, QueriesAreFresh, ObjectQueue
  <2>1. InCustody /\ Secured /\ m \in Msgs
    BY <1>3 DEF CustodyInv, WindowInv, TypeInv, RestOK
  <2>2. Over(m)
    BY <2>1, AckedIsAway DEF Secured, Traceable, Accounted, Ended
  <2> QED BY <2>1, <2>2, AckedIsAway DEF Over
<1> QED BY <1>1, <1>2, <1>3, CustodyIsKept, PTL DEF Spec

=============================================================================
