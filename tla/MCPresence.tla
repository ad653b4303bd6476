------------------------------ MODULE MCPresence ------------------------------
(* Small instances of Presence. *)
EXTENDS Presence, TLC

CONSTANTS h1, h2, s1, s2

TwoHubs == {h1, h2}
TwoSessions == {s1, s2}

(* Two sessions at one hub, whose sets may be late. *)
Late   == [hubs |-> {h1}, home |-> s1 :> {h1} @@ s2 :> {h1}, requests |-> FALSE,
           overlaps |-> FALSE, lag |-> 1, failures |-> 0, crashes |-> 0]
(* Two hubs that share the bucket, with a session each. *)
Shared == [Late EXCEPT !.hubs = {h1, h2}, !.home = s1 :> {h1} @@ s2 :> {h2}, !.lag = 0]
(* A session, requests, readers that are overtaken, a put that fails and a hub that crashes. *)
Broken == [Late EXCEPT !.home = s1 :> {h1} @@ s2 :> {}, !.requests = TRUE, !.overlaps = TRUE,
                       !.lag = 0, !.failures = 1, !.crashes = 1]
(* A session that may come back at the other hub, a put that fails and a hub that crashes. *)
Moving == [Shared EXCEPT !.home = s1 :> {h1, h2} @@ s2 :> {}, !.failures = 1, !.crashes = 1]

AllSetups == {Late, Shared, Broken, Moving}
=============================================================================
