------------------------- MODULE MCMessageDelivery -------------------------
(* Small instances of MessageDelivery. *)
EXTENDS MessageDelivery, TLC

CONSTANTS a1, a2, a3, w1, w2, k1

TwoAgents   == {a1, a2}
ThreeAgents == {a1, a2, a3}
OneWorker   == {w1}
TwoWorkers  == {w1, w2}
OneKey      == {k1}
NoKeys      == {}
OneMsg      == {1}
TwoMsgs     == {1, 2}

AllCalls    == Calls
AgentCalls  == Calls \ {"dispatch"}

NoRemovals   == {}
EitherAgent  == {{a1}, {a2}}
ThirdAgent   == {{a3}}

WorkerSymmetry == Permutations(Workers)
Symmetry == {f @@ g : f \in Permutations(Workers), g \in Permutations(Agents)}
=============================================================================
