--------------------------- MODULE MCAgentLifecycle ---------------------------
(* Small instances of AgentLifecycle. *)
EXTENDS AgentLifecycle, TLC

CONSTANTS ann, bob, o1, w1, w2, hA, hB, hC, x, y

TwoHumans == {ann, bob}
OneOrg    == {o1}
TwoNames  == {x, y}
ThreeHandles == {hA, hB, hC}
TwoWorkers == {w1, w2}
JustBob   == {bob}

One(calls, owners, n)  ==
  [workers |-> {w1}, calls |-> calls, owners |-> owners, agents |-> n, binds |-> n]
Both(calls, owners, n) == [One(calls, owners, n) EXCEPT !.workers = {w1, w2}]

(* Humans who rename themselves and join an organization. *)
Naming  == One({"temporary", "finalize", "join", "rename", "restart"}, {ann, bob}, 2)
(* Names freed and taken again. *)
Freeing == One({"revoke", "delete", "rename", "restart"}, {ann, bob}, 2)
(* Tokens, and organizations that are deleted. *)
Opening == One({"rotate", "revoke", "join", "leave", "deleteOrg", "restart"}, {ann, Nil}, 2)
(* The limit of agents, with one request at a time and with two. *)
Counting == One({"revoke", "join", "temporary"}, {ann}, 3)
Racing   == Both({"join"}, {ann}, 4)
(* Two requests, calls that fail and crashes. *)
Broken  == Both({"temporary", "elapse", "delete", "faults", "crash"}, {ann}, 3)

NameSymmetry == Permutations(Names)

AllSetups == {Naming, Freeing, Opening, Counting, Racing, Broken}
JustRacing == {Racing}
=============================================================================
