----------------------------- MODULE PeerChannel ------------------------------
(***************************************************************************)
(* What federation promises of a message between two hubs: the sending hub *)
(* accepts it once, the receiving hub takes it at most once and puts it in *)
(* the receiver's inbox at most once, and the sending hub reports it       *)
(* forwarded only after the receiving hub has taken it.                    *)
(***************************************************************************)
CONSTANT Msgs

VARIABLES accepted, taken, arrived, reported

channelVars == <<accepted, taken, arrived, reported>>

Init == accepted = {} /\ taken = {} /\ arrived = {} /\ reported = {}

Accept(m) ==
  /\ m \notin accepted \cup taken
  /\ accepted' = accepted \cup {m}
  /\ UNCHANGED <<taken, arrived, reported>>

(* The publish fails after all, before anything was sent. *)
Withdraw(m) ==
  /\ m \in accepted \ taken
  /\ accepted' = accepted \ {m}
  /\ UNCHANGED <<taken, arrived, reported>>

Take(m) ==
  /\ m \in accepted \ taken
  /\ taken' = taken \cup {m}
  /\ UNCHANGED <<accepted, arrived, reported>>

Arrive(m) ==
  /\ m \in taken \ arrived
  /\ arrived' = arrived \cup {m}
  /\ UNCHANGED <<accepted, taken, reported>>

Report(m) ==
  /\ m \in accepted \cap taken
  /\ m \notin reported
  /\ reported' = reported \cup {m}
  /\ UNCHANGED <<accepted, taken, arrived>>

Next == \E m \in Msgs : Accept(m) \/ Withdraw(m) \/ Take(m) \/ Arrive(m) \/ Report(m)

Spec == Init /\ [][Next]_channelVars
=============================================================================
