----------------------------- MODULE MCLongPoll -----------------------------
(* A small instance of LongPoll: the calls for one of two agents may fail. *)
EXTENDS LongPoll

CONSTANTS a1, a2, p1, p2, b1

TwoAgents    == {a1, a2}
SecondAgent  == {a2}
TwoPulls     == {p1, p2}
OneProducer  == {b1}
=============================================================================
