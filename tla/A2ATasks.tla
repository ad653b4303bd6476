------------------------------- MODULE A2ATasks -------------------------------
(***************************************************************************)
(* What the A2A adapter tells agents about tasks (handlers_a2a.go).  A     *)
(* task is a message; its state is read off the message's record, or off   *)
(* the newest of the status messages about it that the caller can see.     *)
(* The records change as messages are pulled, acked, put back, published   *)
(* again, withdrawn and forgotten by a restart, and newest means changed   *)
(* last.                                                                   *)
(*                                                                         *)
(* Each call but a publish is one step: how requests interleave is         *)
(* MessageDelivery's matter, how records are saved DurableState's.         *)
(***************************************************************************)
EXTENDS Naturals, FiniteSets, Sequences, SequencesExt

CONSTANTS
  Agents,
  Nil,
  MaxDeliveries,  \* how often a message is delivered at most
  PageSize,
  MaxLeft,        \* no restart once more tasks have left a list that is being read (bound)
  Setups          \* the uses looked at, one for each initial state

Submitted == "TASK_STATE_SUBMITTED"
Working   == "TASK_STATE_WORKING"
Completed == "TASK_STATE_COMPLETED"
Failed    == "TASK_STATE_FAILED"
TaskStates == {Submitted, Working, Completed, Failed}

(* A message: about is the number of the task its payload names, or 0,     *)
(* says the state the payload gives, or Nil, and context its contextId.    *)
Letter == [from : Agents, to : Agents, about : Nat, says : TaskStates \cup {Nil}, context : Nat \ {0}]

Faults == {"nack", "expire", "retry", "abort", "restart"}

(* What a list is asked for: the tasks with an agent, of a context, in a   *)
(* state, changed after a time; Nil, 0 and FALSE ask for all.              *)
Filter == [target : Agents \cup {Nil}, context : Nat, status : TaskStates \cup {Nil},
           since : BOOLEAN]

(* A use: the messages in the order they are created, how many of them an  *)
(* agent takes before it acks one, whether queued messages are objects of  *)
(* their own, what may go wrong, and by which filters the sender of the    *)
(* first message lists its tasks, if it does.                              *)
Setup == [letters : Seq(Letter), window : Nat \ {0}, objectQueue : BOOLEAN, faults : SUBSET Faults,
          lists : SUBSET Filter]

ASSUME A2AAssumption ==
  /\ Nil \notin Agents \cup TaskStates
  /\ MaxDeliveries \in Nat /\ PageSize \in Nat \ {0} /\ MaxLeft \in Nat
  /\ \A u \in Setups :
       /\ u \in Setup
       /\ \A m \in DOMAIN u.letters : u.letters[m].about < m

VARIABLES
  setup,
  record,   \* the records of the messages, in the bucket and as far as loaded in memory
  loaded,   \* messageRecords: the messages whose record is in memory
  pending,  \* the messages registered, but not yet queued
  queue,
  changed,  \* the messages published, by UpdatedAt; 0 is the time a list asks for
  pager     \* a client that lists the tasks of an agent page by page

vars == <<setup, record, loaded, pending, queue, changed, pager>>

Record == [status : {"unsent", "queued", "leased", "acked", "aborted"}, failure : BOOLEAN,
           deliveries : Nat, replays : Nat]
(* What a client wanted and has seen is history, and how many tasks have   *)
(* left its list since the first page.                                     *)
Pager  == [reader : Agents, filter : Filter, pc : {"first", "next", "done"}, offset : Nat,
           wanted : SUBSET Nat, seen : SUBSET Nat, left : Nat]

Letters  == setup.letters
Sent     == {m \in DOMAIN record : record[m].status \notin {"unsent", "aborted"}}
Held(a)  == {m \in Sent : Letters[m].to = a /\ record[m].status = "leased"}
Risk(f)  == f \in setup.faults

Everything == [target |-> Nil, context |-> 0, status |-> Nil, since |-> FALSE]

Init ==
  /\ setup \in Setups
  /\ record = [m \in DOMAIN setup.letters |-> [status |-> "unsent", failure |-> FALSE,
                                               deliveries |-> 0, replays |-> 0]]
  /\ loaded = {} /\ pending = {} /\ changed = <<>>
  /\ queue = [a \in Agents |-> <<>>]
  /\ pager \in [reader : {setup.letters[1].from}, pc : {"first"}, offset : {0}, left : {0},
                filter : IF setup.lists = {} THEN {Everything} ELSE setup.lists,
                wanted : {{}}, seen : {{}}]

-----------------------------------------------------------------------------
(* What is told of a task.                                                 *)

(* a2aTaskState, and a2aTaskFromRecord: what the payload says goes before  *)
(* the state of the record, a failed delivery before both.                 *)
TaskState(m) ==
  CASE record[m].failure           -> Failed
    [] record[m].status = "queued" -> Submitted
    [] record[m].status = "leased" -> Working
    [] record[m].status = "acked"  -> Completed

TaskFromRecord(m) ==
  IF record[m].failure THEN Failed
  ELSE IF Letters[m].says # Nil THEN Letters[m].says
  ELSE TaskState(m)

(* a2aCanSeeRecord: the caller's messages with the target, or all of his.  *)
CanSeeRecord(caller, target, m) ==
  /\ caller \in {Letters[m].from, Letters[m].to}
  /\ target # Nil => target \in {Letters[m].from, Letters[m].to}

(* a2aVisibleMessageRecords: of the records in memory.                     *)
VisibleRecords(caller, target) == {m \in loaded : CanSeeRecord(caller, target, m)}

(* a2aCorrelatedTaskStatusRecords. *)
CorrelatedRecords(caller, target, t) ==
  {m \in VisibleRecords(caller, target) \ {t} : Letters[m].about = t}

LatestStatusRecord(S) == LET among == SelectSeq(changed, LAMBDA m : m \in S)
                         IN among[Len(among)]

(* a2aTaskFromRecordWithCorrelatedStatus: when the newest says nothing     *)
(* that can be read, the older ones are not asked.                         *)
StateTold(caller, target, t) ==
  LET S    == CorrelatedRecords(caller, target, t)
      says == Letters[LatestStatusRecord(S)].says
  IN IF S = {} \/ says = Nil THEN TaskFromRecord(t) ELSE says

(* The filters of a list; unlike a task asked for, one in a list has the   *)
(* state of its own record.                                                *)
ChangedSince(m) == SelectSeq(changed, LAMBDA x : x \in {0, m}) = <<0, m>>
Passes(f, m) ==
  /\ f.context # 0 => Letters[m].context = f.context
  /\ f.status # Nil => TaskFromRecord(m) = f.status
  /\ f.since => ChangedSince(m)

Shown(p) == {m \in VisibleRecords(p.reader, p.filter.target) : Passes(p.filter, m)}

(* ListMessageRecordsForAgent: the newest message first.                   *)
Listed_ByChange(p) ==  \* mutant: the one changed last first
  Reverse(SelectSeq(changed, LAMBDA m : m \in Shown(p)))
Listed(p) == Reverse(SetToSortSeq(Shown(p), <))

-----------------------------------------------------------------------------
Touched(m) == Append(SelectSeq(changed, LAMBDA x : x # m), m)

(* The client between two pages: of what happens it learns nothing.        *)
ListMoves ==
  \E p \in {pager} :
    pager' = [p EXCEPT !.left = IF p.pc = "next" THEN @ + Cardinality(Shown(p) \ Shown(p)') ELSE @]

(* A publish has its message registered, then queued.  An agent publishes  *)
(* one message at a time, and after the one it is about.                   *)
Over(n) == record[n].status # "unsent" /\ n \notin pending

Register(m) ==
  /\ record[m].status = "unsent"
  /\ \A n \in 1 .. (m - 1) : Letters[n].from = Letters[m].from \/ Letters[m].about = n => Over(n)
  /\ record' = [record EXCEPT ![m].status = "queued"]
  /\ loaded' = loaded \cup {m}
  /\ pending' = pending \cup {m}
  /\ changed' = Touched(m)
  /\ UNCHANGED <<setup, queue>> /\ ListMoves

Enqueue(m) ==
  /\ m \in pending
  /\ pending' = pending \ {m}
  /\ queue' = [queue EXCEPT ![Letters[m].to] = Append(@, m)]
  /\ UNCHANGED <<setup, record, loaded, changed>> /\ ListMoves

(* The queue has failed: the record, which lists may have shown, is gone.  *)
Abort(m) ==
  /\ Risk("abort") /\ m \in pending
  /\ pending' = pending \ {m}
  /\ record' = [record EXCEPT ![m].status = "aborted"]
  /\ loaded' = loaded \ {m}
  /\ changed' = SelectSeq(changed, LAMBDA x : x # m)
  /\ UNCHANGED <<setup, queue>> /\ ListMoves

(* The sender sends it again, with the same message id.                    *)
Retry(m) ==
  /\ Risk("retry") /\ record[m].replays = 0 /\ m \in loaded
  /\ record' = [record EXCEPT ![m].replays = 1]
  /\ changed' = Touched(m)
  /\ UNCHANGED <<setup, loaded, pending, queue>> /\ ListMoves

(* A pull: the head of the queue is leased, and its record loaded.         *)
Pull(a) ==
  /\ queue[a] # <<>> /\ Cardinality(Held(a)) < setup.window
  /\ LET m == Head(queue[a]) IN
     /\ record' = [record EXCEPT ![m] = [@ EXCEPT !.status = "leased",
                                                  !.deliveries = @ + 1]]
     /\ loaded' = loaded \cup {m}
     /\ changed' = Touched(m)
  /\ queue' = [queue EXCEPT ![a] = Tail(@)]
  /\ UNCHANGED <<setup, pending>> /\ ListMoves

Ack_KeepsFailure(m) ==  \* mutant: the failure of an earlier delivery stays
  /\ record[m].status = "leased"
  /\ record' = [record EXCEPT ![m].status = "acked"]
  /\ changed' = Touched(m)
  /\ UNCHANGED <<setup, loaded, pending, queue>> /\ ListMoves
Ack(m) ==
  /\ record[m].status = "leased"
  /\ record' = [record EXCEPT ![m] = [@ EXCEPT !.status = "acked", !.failure = FALSE]]
  /\ changed' = Touched(m)
  /\ UNCHANGED <<setup, loaded, pending, queue>> /\ ListMoves

(* A nack, or a lease that expired: at the end of a queue in memory, at    *)
(* the place of its age among objects.                                     *)
PutBack(q, m) ==
  IF setup.objectQueue
  THEN SelectSeq(q, LAMBDA x : x < m) \o <<m>> \o SelectSeq(q, LAMBDA x : x > m)
  ELSE Append(q, m)

Release(m) ==
  /\ Risk("nack") \/ Risk("expire")
  /\ record[m].status = "leased" /\ record[m].deliveries < MaxDeliveries
  /\ record' = [record EXCEPT ![m] = [@ EXCEPT !.status = "queued", !.failure = TRUE]]
  /\ queue' = [queue EXCEPT ![Letters[m].to] = PutBack(@, m)]
  /\ changed' = Touched(m)
  /\ UNCHANGED <<setup, loaded, pending>> /\ ListMoves

(* The restart of a hub with the S3 store: the records of the messages in  *)
(* its queues and leases are loaded; its requests are gone.                *)
Restart ==
  /\ Risk("restart") /\ pager.left <= MaxLeft
  /\ loaded' = {m \in Sent : \/ record[m].status = "leased"
                            \/ (~setup.objectQueue /\ m \in ToSet(queue[Letters[m].to]))}
  /\ pending' = {}
  /\ UNCHANGED <<setup, record, queue, changed>> /\ ListMoves

(* GetTask, CancelTask and the status of a message: its record is loaded.  *)
GetRecord(m) ==
  /\ m \notin loaded
  /\ loaded' = loaded \cup {m}
  /\ UNCHANGED <<setup, record, pending, queue, changed>> /\ ListMoves

(* The time passes after which a list asks for changes.                    *)
TimePasses ==
  /\ \E f \in setup.lists : f.since
  /\ 0 \notin ToSet(changed)
  /\ changed' = Append(changed, 0)
  /\ UNCHANGED <<setup, record, loaded, pending, queue>> /\ ListMoves

(* ListTasks, a page at a time; the next page starts where the last ended, *)
(* counted from the newest task that passes the filters by then.           *)
ListTasks ==
  LET tasks == Listed(pager)
      end   == IF pager.offset + PageSize < Len(tasks) THEN pager.offset + PageSize ELSE Len(tasks)
      page  == {tasks[i] : i \in (pager.offset + 1) .. end}
  IN
  /\ setup.lists # {} /\ pager.pc # "done"
  /\ pager' = [pager EXCEPT
       !.pc = IF end < Len(tasks) THEN "next" ELSE "done",
       !.offset = end,
       !.wanted = IF pager.pc = "first" THEN Shown(pager) ELSE @,
       !.seen = @ \cup page]
  /\ UNCHANGED <<setup, record, loaded, pending, queue, changed>>

-----------------------------------------------------------------------------
Next ==
  \/ \E m \in DOMAIN record : Register(m) \/ Enqueue(m) \/ Abort(m)
  \/ \E m \in Sent : Retry(m) \/ Ack(m) \/ Release(m) \/ GetRecord(m)
  \/ \E a \in Agents : Pull(a)
  \/ Restart
  \/ TimePasses
  \/ ListTasks

(* Agents send what they have to send, keep polling, and ack what they     *)
(* hold, if they do not release it.                                        *)
Fairness ==
  /\ WF_vars(\E m \in DOMAIN record : Register(m) \/ Enqueue(m))
  /\ \A a \in Agents : WF_vars(Pull(a)) /\ WF_vars(\E m \in Held(a) : Ack(m))

Spec == Init /\ [][Next]_vars /\ Fairness

-----------------------------------------------------------------------------
TypeOK ==
  /\ setup \in Setups
  /\ record \in [DOMAIN Letters -> Record] /\ loaded \cup pending \subseteq Sent
  /\ \A a \in Agents : queue[a] \in Seq(Sent)
  /\ changed \in Seq(Sent \cup {0}) /\ Sent \subseteq ToSet(changed)
  /\ pager \in Pager

(* A client that goes through the pages of its tasks misses at most one of *)
(* those there when it began for each that left its list meanwhile: none,  *)
(* though tasks come in and change, but for a publish that fails, a        *)
(* restart, and the tasks that leave the state it asks for                 *)
(* (a2aListTasksForRequest, AbortMessageRecord).                           *)
PagesSkipNothing ==
  pager.pc = "done" => Cardinality(pager.wanted \ pager.seen) <= pager.left

(* The status messages that one agent of the task t sent the other.        *)
StatusesOf(t) ==
  {m \in DOMAIN Letters : /\ Letters[m].about = t
                          /\ Letters[m].from = Letters[t].to /\ Letters[m].to = Letters[t].from}
Undisturbed(t) ==
  /\ setup.window = 1 /\ ~Risk("restart")
  /\ \A m \in StatusesOf(t) \cup {t} : record[m].status # "aborted"
  /\ \A m \in StatusesOf(t) : record[m].deliveries <= 1 /\ record[m].replays = 0

LastSaid(t) ==
  LET S    == StatusesOf(t)
      last == Letters[CHOOSE m \in S : \A n \in S : n <= m]
  IN IF S = {} \/ last.says = Nil THEN Completed ELSE last.says
ToldBoth(t, state) ==
  LET a == Letters[t].from   b == Letters[t].to
  IN StateTold(a, b, t) = state /\ StateTold(b, a, t) = state

FirstTask == 1
(* When the one who serves a task has sent all it says about it, and the   *)
(* other takes these messages one by one, acks each, and none is put back, *)
(* sent again or withdrawn, then both are in the end told what was said    *)
(* last; and when nothing was said, that the task is done, though its      *)
(* delivery had failed before (a2aTaskFromRecordWithCorrelatedStatus,      *)
(* AckMessageDelivery).                                                    *)
LastIsTold ==
  []Undisturbed(FirstTask)
    => <>[](FirstTask \in Sent /\ ToldBoth(FirstTask, LastSaid(FirstTask)))

(* What is not promised: a task told to be over may be told to be worked   *)
(* at again, when the status messages before the last are pulled.          *)
OverIsOver ==
  [][\A t \in Sent : LET a == Letters[t].from   b == Letters[t].to IN
       (Letters[t].about = 0 /\ StateTold(a, b, t) \in {Completed, Failed} /\ StatusesOf(t) \subseteq Sent)
         => StateTold(a, b, t)' \in {Completed, Failed}]_vars
=============================================================================
