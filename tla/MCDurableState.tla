---------------------------- MODULE MCDurableState ----------------------------
(* The configurations and uses of the hub that TLC looks at, one per       *)
(* initial state; what is not said of one does not happen in it.           *)
EXTENDS DurableState

CONSTANTS w1, w2, e1, e2

TwoWorkers == {w1, w2}
TwoEntries == {e1, e2}
TwoMsgs    == {1, 2}

Quiet == [objectQueue |-> FALSE, keyOf |-> [m \in Msgs |-> NoKey], workers |-> {w1, w2},
          messages |-> 0, deliveries |-> 3, queries |-> FALSE, entries |-> {},
          crashes |-> 1, failures |-> 0]

(* Two publishes under one key. *)
Retried == [Quiet EXCEPT !.messages = 2, !.deliveries = 2, !.keyOf = [m \in Msgs |-> "k"]]
(* The queues in objects of their own. *)
Objects1 == [Quiet EXCEPT !.messages = 1, !.objectQueue = TRUE]
(* The status of a message is asked for, before and after restarts. *)
Asked == [Quiet EXCEPT !.messages = 1, !.queries = TRUE, !.entries = {e1}, !.crashes = 2]
(* A call of the bucket fails. *)
Flaky == [Quiet EXCEPT !.messages = 1, !.deliveries = 4, !.objectQueue = TRUE,
                       !.queries = TRUE, !.failures = 1]
(* Entries come and go, and their saves fail. *)
Control == [Quiet EXCEPT !.entries = {e1, e2}, !.crashes = 2, !.failures = 2]
(* One request at a time, two messages. *)
Moves == [Quiet EXCEPT !.workers = {w1}, !.messages = 2, !.deliveries = 4, !.failures = 1]
Calm  == [Moves EXCEPT !.failures = 0]

AllSetups == {Retried, Objects1, Asked, Flaky, Control, Moves, Calm}

(* What happens in the end: two messages and one request at a time with a  *)
(* failure, one message and two requests with a crash.                     *)
Pair   == [Quiet EXCEPT !.workers = {w1}, !.messages = 2, !.crashes = 0]
Failed == [Pair EXCEPT !.failures = 1]
Single == [Quiet EXCEPT !.messages = 1]
LiveSetups == {Retried, Pair, Failed, Single, Objects1}

(* Uses in which something may be amiss: an old record is cached, a save   *)
(* that failed forgets a queue or a removal, a restart forgets a key.      *)
Stale    == {[Asked EXCEPT !.objectQueue = TRUE, !.entries = {}, !.crashes = 1, !.deliveries = 2]}
Unqueued == {[Retried EXCEPT !.workers = {w1}, !.deliveries = 1, !.crashes = 0, !.failures = 1]}
Twice    == {[Retried EXCEPT !.workers = {w1}, !.deliveries = 1]}
Removed  == {[Control EXCEPT !.entries = {e1}, !.failures = 1]}
=============================================================================
