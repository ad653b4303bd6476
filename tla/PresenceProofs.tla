---------------------------- MODULE PresenceProofs ----------------------------
(***************************************************************************)
(* What is shown of an agent whose sessions have ended, proved for any     *)
(* sessions, intervals and delays.                                         *)
(*                                                                         *)
(* A hub without a session can know an old "online" from another hub only. *)
(* The argument is about that other hub: while it has a session, the       *)
(* offline that ends it is still to come and is not older; once it has     *)
(* none, the object is an offline that is not older.                       *)
(***************************************************************************)
EXTENDS Presence, TLAPS

(* Types, and what they do not say: a record to be put exists; a session   *)
(* that delivers has a reader; a session is at one of its hubs, and what   *)
(* it is about to set is no later than it may be.                          *)
StoresOK ==
  /\ mem \in [Hubs -> Record \cup {Nil}] /\ unsaved \subseteq Hubs
  /\ sinceSave \in [Hubs -> (0 .. PutInterval) \cup {Nil}]
  /\ saving \subseteq Hubs
  /\ bucket \in Record \cup {Nil}
  /\ \A h \in unsaved \cup saving : mem[h] # Nil

SessionOK(s) ==
  /\ session[s].deliverer # "off" => session[s].reader \in {"serving", "closed"}
  /\ session[s].reader # "idle" => session[s].hub \in setup.home[s]
  /\ Waits(s) => session[s].stamp <= setup.lag

SessionsOK == session \in [Sessions -> Session] /\ \A s \in Sessions : SessionOK(s)

RestOK ==
  /\ setup \in Setups
  /\ view \in [Hubs -> Record \cup {Nil}] /\ call \in [Hubs -> Record \cup {Nil}]
  /\ failures \in Nat /\ crashes \in Nat

TypeInv == StoresOK /\ SessionsOK /\ RestOK

-----------------------------------------------------------------------------
(* A hub has a session that went online and did not yet go offline.        *)
Present == {"greeting", "serving", "closed", "leaving"}
Attended(h) == \E s \in Sessions : session[s].hub = h /\ session[s].reader \in Present

IsOnline(p)  == p # Nil /\ p.status = "online"
IsOffline(p) == p # Nil /\ p.status = "offline"

(* What hub g has to say after the time of a record that old: an offline   *)
(* of it is not older, neither in the object nor in its memory nor from a  *)
(* session that leaves; and there is one, or it is still to come.          *)
Later(g, age) ==
  /\ IsOffline(bucket) => bucket.age <= age
  /\ g \in unsaved \cup saving /\ IsOffline(mem[g]) => mem[g].age <= age
  /\ \A s \in Sessions :
       session[s].hub = g /\ session[s].reader = "leaving" => session[s].stamp <= age
  /\ g \in saving \/ IsOffline(bucket) \/ (Attended(g) /\ IsOnline(mem[g]))

Superseded(h, age) == \E g \in setup.hubs \ {h} : Later(g, age)

(* A hub without a session has set nothing but an offline last.            *)
OfflineIsLast ==
  \A h \in setup.hubs : ~Attended(h) /\ h \in unsaved \cup saving => IsOffline(mem[h])

(* An online that a hub took from the object is superseded.                *)
TakenIsSuperseded ==
  \A h \in setup.hubs : ~Attended(h) /\ IsOnline(mem[h]) => Superseded(h, mem[h].age)

(* The same of an online in the object that is not of this hub.            *)
PutIsSuperseded ==
  \A h \in setup.hubs :
    IsOnline(bucket) /\ h \notin saving /\ ~(Attended(h) /\ IsOnline(mem[h]))
      => Superseded(h, bucket.age)

(* A session that leaves does so after the last online of its hub.         *)
LeavesLast ==
  InOrder =>
    \A h \in setup.hubs, s \in Sessions :
      /\ h \in unsaved \cup saving /\ IsOnline(mem[h])
      /\ session[s].hub = h /\ session[s].reader = "leaving"
      => session[s].stamp <= mem[h].age

Undisturbed ==
  /\ failures = 0 /\ crashes = 0 /\ ~setup.requests /\ ~setup.overlaps
  /\ OneHub \/ (AtMostTwoHubs /\ InOrder)

EndsOffline ==
  /\ \A h \in Hubs : call[h] = Nil
  /\ OfflineIsLast /\ TakenIsSuperseded /\ PutIsSuperseded /\ LeavesLast

EndInv == Undisturbed => EndsOffline

-----------------------------------------------------------------------------
(* Types. *)

(* The parts of a use.                                                     *)
LEMMA SetupIs ==
  ASSUME RestOK
  PROVE  /\ setup.hubs \subseteq Hubs /\ setup.lag \in Nat
         /\ \A s \in Sessions : setup.home[s] \subseteq Hubs
         /\ OfflineAfter >= PutInterval + RoundTime + setup.lag
  BY PresenceAssumption DEF RestOK, Setup

LEMMA AgesAre == 0 \in Ages /\ Ages \subseteq Nat /\ \A a \in Ages : Older(a) \in Ages /\ a <= Older(a)
  BY PresenceAssumption DEF Ages, Older

LEMMA OlderIsMonotone ==
  ASSUME NEW a \in Ages, NEW b \in Ages, a <= b
  PROVE  Older(a) <= Older(b)
  BY PresenceAssumption DEF Ages, Older

LEMMA RecordIs ==
  ASSUME NEW p \in Record \cup {Nil}
  PROVE  /\ p # Nil <=> p \in Record
         /\ p # Nil => p.age \in Ages /\ p.status \in Statuses
         /\ OlderRecord(p) \in Record \cup {Nil}
         /\ OlderRecord(p) = Nil <=> p = Nil
         /\ p # Nil => OlderRecord(p).age = Older(p.age) /\ OlderRecord(p).status = p.status
<1>1. Nil \notin Record
  BY PresenceAssumption
<1>2. CASE p = Nil
  BY <1>1, <1>2 DEF OlderRecord
<1>3. CASE p \in Record
  BY <1>1, <1>3, AgesAre DEF Record, OlderRecord
<1> QED BY <1>2, <1>3

LEMMA SinceIs ==
  ASSUME NEW a \in Nat
  PROVE  Since(a) \in 0 .. PutInterval
  BY PresenceAssumption DEF Since

LEMMA SessionIs ==
  ASSUME SessionsOK, NEW s \in Sessions
  PROVE  /\ session[s] \in Session /\ session[s].hub \in Hubs
         /\ session[s].reader \in Readers /\ session[s].deliverer \in Deliverers
         /\ session[s].cancelled \in BOOLEAN
         /\ session[s].stamp \in Ages /\ session[s].round \in Ages
  BY DEF SessionsOK, Session

LEMMA NobodyIs ==
  /\ Nobody \in Session
  /\ Nobody.reader = "idle" /\ Nobody.deliverer = "off" /\ Nobody.stamp = 0
<1>1. (CHOOSE h \in Hubs : TRUE) \in Hubs
  BY PresenceAssumption
<1> QED BY <1>1, AgesAre DEF Nobody, Fresh, Session, Readers, Deliverers

(* A session s at its hub h comes to these steps of its two goroutines.    *)
Moves(s, h, reader, deliverer, stamp) ==
  /\ session' \in [Sessions -> Session]
  /\ \A t \in Sessions : t # s => session'[t] = session[t]
  /\ session'[s].hub = h /\ session'[s].reader = reader
  /\ session'[s].deliverer = deliverer /\ session'[s].stamp = stamp

LEMMA SessionMoves ==
  ASSUME TypeInv, setup' = setup, NEW s \in Sessions, NEW h, NEW reader, NEW deliverer, NEW stamp,
         Moves(s, h, reader, deliverer, stamp),
         deliverer # "off" => reader \in {"serving", "closed"},
         reader # "idle" => h \in setup.home[s],
         reader \in {"connecting", "leaving"} \/ deliverer = "beat" => stamp <= setup.lag
  PROVE  SessionsOK'
<1>1. ASSUME NEW t \in Sessions PROVE SessionOK(t)'
  <2>1. CASE t = s
    BY <2>1 DEF Moves, SessionOK, Waits
  <2>2. CASE t # s
    BY <2>2 DEF Moves, TypeInv, SessionsOK, SessionOK, Waits
  <2> QED BY <2>1, <2>2
<1> QED BY <1>1 DEF SessionsOK, Moves

LEMMA SetTypes ==
  ASSUME TypeInv, NEW h \in Hubs, NEW status \in Statuses, NEW age \in Ages,
         SetPresence(h, status, age)
  PROVE  StoresOK'
<1>1. [status |-> status, age |-> age] \in Record /\ Nil \notin Record
  BY PresenceAssumption DEF Record
<1> QED BY <1>1 DEF TypeInv, StoresOK, SetPresence

(* Sessions that are left alone stay in order. *)
LEMMA SessionsStay ==
  ASSUME SessionsOK, UNCHANGED <<setup, session>>
  PROVE  SessionsOK'
  BY DEF SessionsOK, SessionOK, Waits

LEMMA PutTypes ==
  ASSUME TypeInv, NEW h \in Hubs, Put(h) \/ PutFails(h) \/ SaveAll(h)
  PROVE  TypeInv'
<1>1. mem[h] \in Record /\ mem[h].age \in Nat
  BY RecordIs, AgesAre DEF TypeInv, StoresOK, Put, PutFails, SaveAll
<1>2. StoresOK'
  BY <1>1, SinceIs DEF TypeInv, StoresOK, Put, PutFails, SaveAll
<1>3. SessionsOK' /\ RestOK'
  BY SessionsStay DEF TypeInv, RestOK, Put, PutFails, SaveAll
<1> QED BY <1>2, <1>3 DEF TypeInv

LEMMA ReadTypes ==
  ASSUME TypeInv, NEW h \in Hubs, Read(h) \/ Compare(h)
  PROVE  TypeInv'
<1>1. StoresOK' /\ view' \in [Hubs -> Record \cup {Nil}]
  <2>1. CASE Read(h)
    BY <2>1 DEF TypeInv, StoresOK, RestOK, Read, stores
  <2>2. CASE Compare(h)
    <3>1. PICK remote \in Record \cup {Nil} : Adopt(h, remote)
      BY <2>2 DEF TypeInv, StoresOK, RestOK, Compare
    <3> QED BY <3>1 DEF TypeInv, StoresOK, RestOK, Adopt
  <2> QED BY <2>1, <2>2
<1>2. UNCHANGED <<setup, call, session, failures, crashes>>
  BY DEF Read, Compare, Adopt
<1> QED BY <1>1, <1>2, SessionsStay DEF TypeInv, RestOK

LEMMA CallTypes ==
  ASSUME TypeInv, NEW h \in Hubs, Answer(h) \/ \E status \in Statuses : Ask(h, status)
  PROVE  TypeInv'
<1>1. CASE Answer(h)
  <2>1. call[h] \in Record \cup {Nil}
    BY DEF TypeInv, RestOK
  <2>2. call[h].age \in Ages /\ call[h].status \in Statuses
    BY <1>1, <2>1, RecordIs DEF Answer
  <2>3. StoresOK'
    BY <1>1, <2>2, SetTypes DEF Answer
  <2> QED BY <1>1, <2>3, SessionsStay DEF TypeInv, RestOK, Answer
<1>2. CASE \E status \in Statuses : Ask(h, status)
  <2>1. PICK status \in Statuses : Ask(h, status)
    BY <1>2
  <2>2. [status |-> status, age |-> 0] \in Record
    BY AgesAre DEF Record
  <2> QED BY <2>1, <2>2, SessionsStay DEF TypeInv, RestOK, Ask, stores, StoresOK
<1> QED BY <1>1, <1>2

LEMMA CrashTypes ==
  ASSUME TypeInv, NEW h \in Hubs, Crash(h)
  PROVE  TypeInv'
<1>1. SessionsOK'
  BY NobodyIs DEF Crash, TypeInv, SessionsOK, SessionOK, Waits
<1>2. StoresOK'
  BY DEF Crash, TypeInv, StoresOK
<1>3. RestOK'
  BY DEF Crash, TypeInv, RestOK
<1> QED BY <1>1, <1>2, <1>3 DEF TypeInv

(* The steps of a session. *)
LEMMA ConnectIs ==
  ASSUME TypeInv, NEW s \in Sessions, NEW h \in setup.home[s], Connect(s, h)
  PROVE  /\ Moves(s, h, "connecting", "off", 0) /\ session[s].reader = "idle"
         /\ UNCHANGED <<setup, stores, view, call, failures, crashes>>
<1>1. h \in Hubs /\ 0 \in Ages
  BY SetupIs, AgesAre DEF TypeInv
<1>2. [Fresh(h) EXCEPT !.reader = "connecting"] \in Session
  BY <1>1 DEF Fresh, Session, Readers, Deliverers
<1> QED BY <1>2 DEF Connect, Moves, Fresh, TypeInv, SessionsOK, Elsewhere

LEMMA GoOnlineIs ==
  ASSUME TypeInv, NEW s \in Sessions, GoOnline(s)
  PROVE  /\ Moves(s, session[s].hub, "greeting", "off", 0)
         /\ session[s].reader = "connecting" /\ session[s].deliverer = "off"
         /\ SetPresence(session[s].hub, "online", session[s].stamp)
         /\ UNCHANGED <<setup, view, call, failures, crashes>>
<1>1. session[s].reader = "connecting" /\ session[s].deliverer = "off"
  BY DEF GoOnline, TypeInv, SessionsOK, SessionOK
<1>2. [session[s] EXCEPT !.reader = "greeting", !.stamp = 0] \in Session
  BY SessionIs, AgesAre DEF TypeInv, Session, Readers
<1> QED BY <1>1, <1>2, SessionIs DEF GoOnline, Moves, TypeInv, SessionsOK, Session, Elsewhere

LEMMA HeartbeatIs ==
  ASSUME TypeInv, NEW s \in Sessions, Heartbeat(s)
  PROVE  /\ Moves(s, session[s].hub, session[s].reader, "pull", 0)
         /\ session[s].reader \in {"serving", "closed"} /\ session[s].deliverer = "beat"
         /\ SetPresence(session[s].hub, "online", session[s].stamp)
         /\ UNCHANGED <<setup, view, call, failures, crashes>>
<1>1. session[s].reader \in {"serving", "closed"} /\ session[s].deliverer = "beat"
  BY DEF Heartbeat, TypeInv, SessionsOK, SessionOK
<1>2. [session[s] EXCEPT !.deliverer = "pull", !.stamp = 0, !.round = session[s].stamp] \in Session
  BY SessionIs, AgesAre DEF TypeInv, Session, Deliverers
<1> QED BY <1>1, <1>2, SessionIs DEF Heartbeat, Moves, TypeInv, SessionsOK, Session, Elsewhere

LEMMA GoOfflineIs ==
  ASSUME TypeInv, NEW s \in Sessions, GoOffline(s)
  PROVE  /\ Moves(s, session[s].hub, "idle", "off", 0)
         /\ session[s].reader = "leaving" /\ session[s].deliverer = "off"
         /\ SetPresence(session[s].hub, "offline", session[s].stamp)
         /\ UNCHANGED <<setup, view, call, failures, crashes>>
<1>1. session[s].reader = "leaving" /\ session[s].deliverer = "off"
  BY DEF GoOffline, TypeInv, SessionsOK, SessionOK
<1>2. [session[s] EXCEPT !.reader = "idle", !.stamp = 0] \in Session
  BY SessionIs, AgesAre DEF TypeInv, Session, Readers
<1> QED BY <1>1, <1>2, SessionIs DEF GoOffline, Moves, TypeInv, SessionsOK, Session, Elsewhere

(* The others set no presence; a session may come to leave, from now on.   *)
Steps(s) == \/ Greet(s) \/ Beat(s) \/ PullReturns(s) \/ WriteFails(s)
            \/ Stops(s) \/ PingFails(s) \/ Hangup(s) \/ Leave(s)

LEMMA StepsAre ==
  ASSUME TypeInv, NEW s \in Sessions, Steps(s)
  PROVE  /\ \E reader \in Readers, deliverer \in Deliverers, stamp \in Ages :
              /\ Moves(s, session[s].hub, reader, deliverer, stamp)
              /\ reader \in Present /\ (reader = "leaving" => stamp = 0)
              /\ deliverer # "off" => reader \in {"serving", "closed"}
              /\ deliverer = "beat" =>
                   stamp = 0 \/ (session[s].deliverer = "beat" /\ stamp = session[s].stamp)
         /\ session[s].reader \in Present \ {"leaving"}
         /\ UNCHANGED <<setup, stores, view, call, failures, crashes>>
<1>1. /\ session[s].deliverer # "off" => session[s].reader \in {"serving", "closed"}
      /\ session \in [Sessions -> Session]
  BY DEF TypeInv, SessionsOK, SessionOK
<1>2. /\ session[s].reader \in Present \ {"leaving"}
      /\ UNCHANGED <<setup, stores, view, call, failures, crashes>>
  BY <1>1 DEF Steps, Greet, Beat, PullReturns, WriteFails, Stops, PingFails, Hangup, Leave,
              Elsewhere, Present
<1> DEFINE x == session'[s]
<1>3. /\ session' = [session EXCEPT ![s] = x]
      /\ x \in Session /\ x.hub = session[s].hub
      /\ x.reader \in Present /\ (x.reader = "leaving" => x.stamp = 0)
      /\ x.deliverer # "off" => x.reader \in {"serving", "closed"}
      /\ x.deliverer = "beat" =>
           x.stamp = 0 \/ (session[s].deliverer = "beat" /\ x.stamp = session[s].stamp)
  <2>1. session[s] \in Session /\ 0 \in Ages
    BY <1>1, AgesAre
  <2>2. /\ session' = [session EXCEPT ![s] = x]
        /\ \/ x = [session[s] EXCEPT !.reader = "serving", !.deliverer = "loop", !.round = 0]
           \/ x = [session[s] EXCEPT !.reader = "leaving", !.deliverer = "off", !.stamp = 0]
           \/ /\ session[s].deliverer = "loop"
              /\ x = [session[s] EXCEPT !.reader = session[s].reader, !.deliverer = "beat",
                                        !.stamp = 0]
           \/ session[s].deliverer = "pull" /\ x = [session[s] EXCEPT !.deliverer = "loop"]
           \/ x = [session[s] EXCEPT !.deliverer = "off", !.cancelled = TRUE, !.round = 0]
           \/ x = [session[s] EXCEPT !.deliverer = "off", !.round = 0]
           \/ x = [session[s] EXCEPT !.cancelled = TRUE]
           \/ x = [session[s] EXCEPT !.reader = "closed", !.cancelled = TRUE]
    <3>1. CASE Greet(s)
      BY <1>1, <3>1 DEF Greet, Stamped
    <3>2. CASE Beat(s)
      BY <1>1, <3>2 DEF Beat, Stamped
    <3>3. CASE PullReturns(s) \/ WriteFails(s) \/ Stops(s)
      BY <1>1, <3>3 DEF PullReturns, WriteFails, Stops
    <3>4. CASE PingFails(s) \/ Hangup(s)
      BY <1>1, <3>4 DEF PingFails, Hangup
    <3>5. CASE Leave(s)
      BY <1>1, <3>5 DEF Leave, Stamped
    <3> QED BY <3>1, <3>2, <3>3, <3>4, <3>5 DEF Steps
  <2> HIDE DEF x
  <2>3. x \in Session
    BY <2>1, <2>2 DEF Session, Readers, Deliverers
  <2>4. x.hub = session[s].hub
    BY <2>1, <2>2 DEF Session
  <2>5. x.reader \in Present /\ (x.deliverer # "off" => x.reader \in {"serving", "closed"})
    BY <1>1, <1>2, <2>1, <2>2 DEF Session, Present
  <2>6. x.reader = "leaving" => x.stamp = 0
    BY <1>2, <2>1, <2>2 DEF Session
  <2>7. x.deliverer = "beat" =>
          x.stamp = 0 \/ (session[s].deliverer = "beat" /\ x.stamp = session[s].stamp)
    BY <2>1, <2>2 DEF Session
  <2> QED BY <2>2, <2>3, <2>4, <2>5, <2>6, <2>7
<1>4. Moves(s, session[s].hub, x.reader, x.deliverer, x.stamp)
  BY <1>1, <1>3 DEF Moves
<1> QED BY <1>2, <1>3, <1>4 DEF Session

(* A second makes what waits a second older. *)
LEMMA TickIs ==
  ASSUME TypeInv, Tick
  PROVE  /\ session' \in [Sessions -> Session]
         /\ \A s \in Sessions :
              /\ session'[s].hub = session[s].hub /\ session'[s].reader = session[s].reader
              /\ session'[s].deliverer = session[s].deliverer
              /\ Waits(s) =>
                   session'[s].stamp = Older(session[s].stamp) /\ session[s].stamp < setup.lag
<1>1. \A s \in Sessions : session[s] \in Session
  BY DEF TypeInv, SessionsOK
<1> DEFINE next(s) ==
      IF Waits(s) THEN [session[s] EXCEPT !.stamp = Older(@)]
      ELSE IF session[s].deliverer = "off" THEN session[s]
      ELSE [session[s] EXCEPT !.round = Older(@)]
<1>2. session' = [s \in Sessions |-> next(s)]
  BY DEF Tick
<1>3. ASSUME NEW s \in Sessions
      PROVE  /\ next(s) \in Session /\ next(s).hub = session[s].hub
             /\ next(s).reader = session[s].reader /\ next(s).deliverer = session[s].deliverer
             /\ Waits(s) => next(s).stamp = Older(session[s].stamp)
  <2>1. Older(session[s].stamp) \in Ages /\ Older(session[s].round) \in Ages
    BY <1>1, AgesAre DEF Session
  <2> QED BY <1>1, <2>1 DEF Session
<1>4. \A s \in Sessions : Waits(s) => session[s].stamp < setup.lag
  BY DEF Tick, InTime
<1> HIDE DEF next
<1> QED BY <1>2, <1>3, <1>4

LEMMA TickTypes ==
  ASSUME TypeInv, Tick
  PROVE  TypeInv'
<1>1. \A h \in Hubs : /\ OlderRecord(mem[h]) \in Record \cup {Nil}
                      /\ OlderRecord(mem[h]) = Nil <=> mem[h] = Nil
  BY RecordIs DEF TypeInv, StoresOK
<1>2. OlderRecord(bucket) \in Record \cup {Nil}
  BY RecordIs DEF TypeInv, StoresOK
<1>3. \A h \in Hubs : /\ OlderRecord(view[h]) \in Record \cup {Nil}
                      /\ OlderRecord(call[h]) \in Record \cup {Nil}
  BY RecordIs DEF TypeInv, RestOK
<1>4. \A h \in Hubs : sinceSave[h] # Nil => Since(sinceSave[h] + 1) \in 0 .. PutInterval
  BY SinceIs, PresenceAssumption DEF TypeInv, StoresOK
<1>5. StoresOK'
  BY <1>1, <1>2, <1>4 DEF TypeInv, StoresOK, Tick
<1>6. RestOK'
  BY <1>3 DEF TypeInv, RestOK, Tick
<1>7. SessionsOK'
  <2>1. setup' = setup /\ setup.lag \in Nat
    BY SetupIs DEF TypeInv, Tick
  <2>2. ASSUME NEW s \in Sessions PROVE SessionOK(s)'
    <3>1. Waits(s) => Older(session[s].stamp) <= setup.lag
      <4>1. session[s].stamp \in Nat
        BY SessionIs, AgesAre DEF TypeInv
      <4>2. Waits(s) => session[s].stamp < setup.lag
        BY TickIs
      <4> QED BY <2>1, <4>1, <4>2 DEF Older
    <3> QED BY <2>1, <3>1, TickIs DEF TypeInv, SessionsOK, SessionOK, Waits
  <2> QED BY <2>2, TickIs DEF SessionsOK
<1> QED BY <1>5, <1>6, <1>7 DEF TypeInv

LEMMA MoveTypes ==
  ASSUME TypeInv, NEW s \in Sessions,
         \/ \E h \in setup.home[s] : Connect(s, h)
         \/ GoOnline(s) \/ Heartbeat(s) \/ GoOffline(s) \/ Steps(s)
  PROVE  TypeInv'
<1>1. setup.lag \in Nat /\ setup.home[s] \subseteq Hubs
  BY SetupIs DEF TypeInv
<1>2. session[s].reader # "idle" => session[s].hub \in setup.home[s]
  BY DEF TypeInv, SessionsOK, SessionOK
<1>3. UNCHANGED <<setup, view, call, failures, crashes>>
  BY ConnectIs, GoOnlineIs, HeartbeatIs, GoOfflineIs, StepsAre
<1>4. RestOK'
  BY <1>3 DEF TypeInv, RestOK
<1>5. CASE \E h \in setup.home[s] : Connect(s, h)
  <2>1. PICK h \in setup.home[s] : Connect(s, h)
    BY <1>5
  <2>2. SessionsOK'
    BY <1>1, <1>3, <2>1, ConnectIs, SessionMoves
  <2>3. StoresOK'
    BY <2>1, ConnectIs DEF TypeInv, StoresOK, stores
  <2> QED BY <1>4, <2>2, <2>3 DEF TypeInv
<1>6. CASE GoOnline(s) \/ Heartbeat(s) \/ GoOffline(s)
  <2>1. StoresOK'
    BY <1>6, GoOnlineIs, HeartbeatIs, GoOfflineIs, SetTypes, SessionIs DEF TypeInv, Statuses
  <2>2. CASE GoOnline(s)
    BY <1>2, <1>3, <1>4, <2>1, <2>2, GoOnlineIs, SessionMoves DEF TypeInv
  <2>3. CASE Heartbeat(s)
    BY <1>2, <1>3, <1>4, <2>1, <2>3, HeartbeatIs, SessionMoves DEF TypeInv
  <2>4. CASE GoOffline(s)
    BY <1>2, <1>3, <1>4, <2>1, <2>4, GoOfflineIs, SessionMoves DEF TypeInv
  <2> QED BY <1>6, <2>2, <2>3, <2>4
<1>7. CASE Steps(s)
  <2>1. PICK reader \in Readers, deliverer \in Deliverers, stamp \in Ages :
              /\ Moves(s, session[s].hub, reader, deliverer, stamp)
              /\ reader \in Present /\ (reader = "leaving" => stamp = 0)
              /\ deliverer # "off" => reader \in {"serving", "closed"}
              /\ deliverer = "beat" =>
                   stamp = 0 \/ (session[s].deliverer = "beat" /\ stamp = session[s].stamp)
    BY <1>7, StepsAre
  <2>2. reader \in {"connecting", "leaving"} \/ deliverer = "beat" => stamp <= setup.lag
    <3>1. session[s].deliverer = "beat" => session[s].stamp <= setup.lag
      BY DEF TypeInv, SessionsOK, SessionOK, Waits
    <3> QED BY <1>1, <2>1, <3>1 DEF Present
  <2>3. SessionsOK'
    BY <1>2, <1>3, <1>7, <2>1, <2>2, StepsAre, SessionMoves DEF Present
  <2>4. StoresOK'
    BY <1>7, StepsAre DEF TypeInv, StoresOK, stores
  <2> QED BY <1>4, <2>3, <2>4 DEF TypeInv
<1> QED BY <1>5, <1>6, <1>7

LEMMA TypeInit == Init => TypeInv
<1> SUFFICES ASSUME Init PROVE TypeInv
  OBVIOUS
<1>1. session \in [Sessions -> Session] /\ \A s \in Sessions : session[s] = Nobody
  BY NobodyIs DEF Init
<1>2. SessionsOK
  BY <1>1, NobodyIs DEF SessionsOK, SessionOK, Waits
<1>3. StoresOK /\ RestOK
  BY DEF Init, StoresOK, RestOK
<1> QED BY <1>2, <1>3 DEF TypeInv

LEMMA TypeNext == TypeInv /\ [Next]_vars => TypeInv'
<1> SUFFICES ASSUME TypeInv, [Next]_vars PROVE TypeInv'
  OBVIOUS
<1>1. CASE UNCHANGED vars
  BY <1>1, SessionsStay DEF vars, stores, TypeInv, StoresOK, RestOK
<1>2. CASE \E h \in setup.hubs :
             \/ Put(h) \/ PutFails(h) \/ SaveAll(h) \/ Read(h) \/ Compare(h)
             \/ \E status \in Statuses : Ask(h, status)
             \/ Answer(h) \/ Crash(h)
  BY <1>2, SetupIs, PutTypes, ReadTypes, CallTypes, CrashTypes DEF TypeInv
<1>3. CASE \E s \in Sessions :
             \/ \E h \in setup.home[s] : Connect(s, h)
             \/ GoOnline(s) \/ Heartbeat(s) \/ GoOffline(s) \/ Steps(s)
  BY <1>3, MoveTypes
<1>4. CASE Tick
  BY <1>4, TickTypes
<1> QED BY <1>1, <1>2, <1>3, <1>4 DEF Next, Steps

(* Every variable keeps its type, through failures and crashes, for any    *)
(* hubs, sessions, intervals and delays.                                   *)
THEOREM TypeCorrect == Spec => []TypeOK
<1>1. TypeInv => TypeOK
  BY DEF TypeInv, TypeOK, StoresOK, SessionsOK, RestOK
<1> QED BY <1>1, TypeInit, TypeNext, PTL DEF Spec

-----------------------------------------------------------------------------
(* What the end of the sessions rests on. *)

(* Where there is another hub there is no third, and sets are in order.    *)
LEMMA OtherHub ==
  ASSUME Undisturbed, NEW h \in setup.hubs, NEW g \in setup.hubs, g # h
  PROVE  InOrder /\ \A f \in setup.hubs : f # h => f = g
  BY DEF Undisturbed, OneHub, AtMostTwoHubs

(* Sets at one hub are in the order of their times.                        *)
LEMMA SetsInOrder ==
  ASSUME TypeInv, InOrder, NEW s \in Sessions, NEW t \in Sessions, s # t,
         session[s].reader # "idle", session[t].reader = "leaving",
         session[s].hub = session[t].hub
  PROVE  session[t].stamp = 0
<1>1. session[t].stamp \in Nat /\ session[t].stamp <= setup.lag
  BY SessionIs, AgesAre DEF TypeInv, SessionsOK, SessionOK, Waits
<1>2. setup.lag = 0
  BY DEF TypeInv, SessionsOK, SessionOK, InOrder
<1> QED BY <1>1, <1>2

(* What another hub has to say stays while it does nothing.                *)
LEMMA LaterStays ==
  ASSUME NEW g, NEW age, Later(g, age), bucket' = bucket, mem'[g] = mem[g],
         g \in unsaved' <=> g \in unsaved, g \in saving' <=> g \in saving,
         Attended(g) => Attended(g)',
         \A s \in Sessions : session'[s].hub = g /\ session'[s].reader = "leaving" =>
           \/ session'[s].stamp <= age
           \/ session[s].hub = g /\ session[s].reader = "leaving" /\ session'[s].stamp = session[s].stamp
  PROVE  Later(g, age)'
  BY DEF Later, IsOnline, IsOffline

LEMMA AttendedStays ==
  ASSUME session' = session
  PROVE  \A h : Attended(h)' <=> Attended(h)
  BY DEF Attended

(* The record of a hub is put.                                             *)
LEMMA PutIs ==
  ASSUME TypeInv, Undisturbed', NEW f \in Hubs, Put(f) \/ PutFails(f) \/ SaveAll(f)
  PROVE  /\ f \in unsaved \cup saving /\ bucket' = mem[f]
         /\ unsaved' = unsaved \ {f} /\ saving' = saving \ {f}
         /\ UNCHANGED <<setup, mem, call, session, failures, crashes>>
<1>1. failures' # failures + 1
  BY DEF TypeInv, RestOK, Undisturbed
<1> QED BY <1>1 DEF Put, PutFails, SaveAll

LEMMA PutEnds ==
  ASSUME TypeInv, Undisturbed, Undisturbed', EndsOffline, NEW f \in setup.hubs,
         Put(f) \/ PutFails(f) \/ SaveAll(f)
  PROVE  EndsOffline'
<1>0. f \in Hubs
  BY SetupIs DEF TypeInv
<1>1. /\ f \in unsaved \cup saving /\ bucket' = mem[f]
      /\ unsaved' = unsaved \ {f} /\ saving' = saving \ {f}
      /\ UNCHANGED <<setup, mem, call, session, failures, crashes>>
  BY <1>0, PutIs
<1>2. \A h : Attended(h)' <=> Attended(h)
  BY <1>1, AttendedStays
<1>3. IsOnline(mem[f]) => Attended(f)
  BY <1>1 DEF EndsOffline, OfflineIsLast, IsOnline, IsOffline
<1>4. mem[f] # Nil /\ mem[f].status \in Statuses
  BY <1>0, <1>1, RecordIs DEF TypeInv, StoresOK
<1>5. OfflineIsLast'
  BY <1>1, <1>2 DEF EndsOffline, OfflineIsLast, IsOffline
<1>6. LeavesLast'
  BY <1>1 DEF EndsOffline, LeavesLast, InOrder, IsOnline
<1>7. TakenIsSuperseded'
  <2> SUFFICES ASSUME NEW h \in setup.hubs, ~Attended(h), IsOnline(mem[h])
               PROVE  Superseded(h, mem[h].age)'
    BY <1>1, <1>2 DEF TakenIsSuperseded, IsOnline
  <2>1. f # h
    BY <1>3
  <2>2. PICK g \in setup.hubs \ {h} : Later(g, mem[h].age)
    BY DEF EndsOffline, TakenIsSuperseded, Superseded
  <2>3. g = f
    BY <2>1, OtherHub
  <2>4. Later(f, mem[h].age)'
    BY <1>1, <1>2, <1>3, <1>4, <2>2, <2>3 DEF Later, IsOnline, IsOffline, Statuses
  <2> QED BY <1>1, <2>1, <2>4 DEF Superseded
<1>8. PutIsSuperseded'
  <2> SUFFICES ASSUME NEW h \in setup.hubs, IsOnline(mem[f]), h \notin saving',
                      ~(Attended(h) /\ IsOnline(mem[h]))
               PROVE  Superseded(h, mem[f].age)'
    BY <1>1, <1>2 DEF PutIsSuperseded, IsOnline
  <2>1. f # h
    BY <1>3
  <2>2. \A s \in Sessions : session[s].hub = f /\ session[s].reader = "leaving" =>
          session[s].stamp <= mem[f].age
    BY <1>1, <2>1, OtherHub DEF EndsOffline, LeavesLast
  <2>3. Later(f, mem[f].age)'
    BY <1>1, <1>2, <1>3, <2>2 DEF Later, IsOnline, IsOffline
  <2> QED BY <1>1, <2>1, <2>3 DEF Superseded
<1> QED BY <1>1, <1>5, <1>6, <1>7, <1>8 DEF EndsOffline

(* A hub takes the object over what it knew.                               *)
LEMMA CompareEnds ==
  ASSUME TypeInv, Undisturbed, EndsOffline, NEW f \in setup.hubs, Compare(f)
  PROVE  EndsOffline'
<1>0. f \in Hubs /\ bucket \in Record \cup {Nil}
  BY SetupIs DEF TypeInv, StoresOK
<1>1. /\ bucket # Nil /\ f \notin saving
      /\ UNCHANGED <<setup, saving, bucket, call, session>>
      /\ \/ mem' = [mem EXCEPT ![f] = bucket] /\ unsaved' = unsaved \ {f}
         \/ UNCHANGED <<mem, unsaved>>
  BY DEF Compare, Adopt, Undisturbed
<1>2. \A h : Attended(h)' <=> Attended(h)
  BY <1>1, AttendedStays
<1>3. CASE UNCHANGED <<mem, unsaved>>
  <2>1. \A g, age : Later(g, age)' <=> Later(g, age)
    BY <1>1, <1>2, <1>3 DEF Later, IsOnline, IsOffline
  <2>2. TakenIsSuperseded'
    BY <1>1, <1>2, <1>3, <2>1 DEF EndsOffline, TakenIsSuperseded, Superseded, IsOnline
  <2>3. PutIsSuperseded'
    BY <1>1, <1>2, <1>3, <2>1 DEF EndsOffline, PutIsSuperseded, Superseded, IsOnline
  <2>4. OfflineIsLast' /\ LeavesLast'
    BY <1>1, <1>2, <1>3 DEF EndsOffline, OfflineIsLast, LeavesLast, InOrder, IsOnline, IsOffline
  <2> QED BY <1>1, <2>2, <2>3, <2>4 DEF EndsOffline
<1>4. CASE mem' = [mem EXCEPT ![f] = bucket] /\ unsaved' = unsaved \ {f}
  <2>1. /\ mem'[f] = bucket /\ f \notin unsaved' \cup saving'
        /\ \A h \in Hubs : h # f => mem'[h] = mem[h] /\ (h \in unsaved' <=> h \in unsaved)
    BY <1>0, <1>1, <1>4 DEF TypeInv, StoresOK
  <2>2. IsOnline(bucket) \/ IsOffline(bucket)
    BY <1>0, <1>1, RecordIs DEF IsOnline, IsOffline, Statuses
  <2>3. ASSUME NEW g \in Hubs, NEW age, Later(g, age)
        PROVE  Later(g, age)'
    <3>1. CASE g = f
      BY <1>1, <1>2, <2>1, <2>2, <2>3, <3>1 DEF Later, IsOnline, IsOffline
    <3>2. CASE g # f
      BY <1>1, <1>2, <2>1, <2>3, <3>2, LaterStays
    <3> QED BY <3>1, <3>2
  <2>4. setup.hubs \subseteq Hubs
    BY SetupIs DEF TypeInv
  <2>5. \A h, age : Superseded(h, age) => Superseded(h, age)'
    BY <1>1, <2>3, <2>4 DEF Superseded
  <2>6. OfflineIsLast' /\ LeavesLast'
    BY <1>1, <1>2, <2>1, <2>4 DEF EndsOffline, OfflineIsLast, LeavesLast, InOrder, IsOnline, IsOffline
  <2>7. PutIsSuperseded'
    <3> SUFFICES ASSUME NEW h \in setup.hubs, IsOnline(bucket), h \notin saving,
                        ~(Attended(h) /\ IsOnline(mem'[h])), NEW age, age = bucket.age
                 PROVE  Superseded(h, age)'
      BY <1>1, <1>2 DEF PutIsSuperseded, IsOnline
    <3>1. ~(Attended(h) /\ IsOnline(mem[h]))
      BY <2>1, <2>4
    <3> QED BY <2>5, <3>1 DEF EndsOffline, PutIsSuperseded
  <2>8. TakenIsSuperseded'
    <3> SUFFICES ASSUME NEW h \in setup.hubs, ~Attended(h), IsOnline(mem[h])', NEW age, age = mem'[h].age
                 PROVE  Superseded(h, age)'
      BY <1>1, <1>2 DEF TakenIsSuperseded, IsOnline
    <3>1. CASE h = f
      BY <1>1, <2>1, <2>5, <3>1 DEF EndsOffline, PutIsSuperseded
    <3>2. CASE h # f
      BY <2>1, <2>4, <2>5, <3>2 DEF EndsOffline, TakenIsSuperseded
    <3> QED BY <3>1, <3>2
  <2> QED BY <1>1, <2>6, <2>7, <2>8 DEF EndsOffline
<1> QED BY <1>1, <1>3, <1>4

(* A session goes on without setting a presence: it may come to leave.     *)
LEMMA StepEnds ==
  ASSUME TypeInv, EndsOffline, NEW s \in Sessions,
         Steps(s) \/ \E h \in setup.home[s] : Connect(s, h)
  PROVE  EndsOffline'
<1>1. /\ UNCHANGED <<setup, mem, unsaved, saving, bucket, call>>
      /\ \A t \in Sessions : t # s => session'[t] = session[t]
      /\ session'[s].reader \in Present <=> session[s].reader \in Present
      /\ session'[s].reader \in Present => session'[s].hub = session[s].hub
      /\ session'[s].reader = "leaving" => session'[s].stamp = 0
  <2>1. CASE Steps(s)
    BY <2>1, StepsAre DEF Moves, stores
  <2>2. CASE \E h \in setup.home[s] : Connect(s, h)
    <3>1. PICK h \in setup.home[s] : Connect(s, h)
      BY <2>2
    <3> QED BY <3>1, ConnectIs DEF Moves, stores, Present
  <2> QED BY <2>1, <2>2
<1>2. \A h : Attended(h)' <=> Attended(h)
  BY <1>1 DEF Attended
<1>3. \A t \in Sessions : session'[t].reader = "leaving" =>
        \/ session'[t].stamp = 0
        \/ session'[t] = session[t]
  BY <1>1
<1>4. ASSUME NEW h \in setup.hubs, NEW age \in Nat, Superseded(h, age)
      PROVE  Superseded(h, age)'
  <2>1. PICK g \in setup.hubs \ {h} : Later(g, age)
    BY <1>4 DEF Superseded
  <2>2. Later(g, age)'
    BY <1>1, <1>2, <1>3, <2>1, LaterStays
  <2> QED BY <1>1, <2>1, <2>2 DEF Superseded
<1>5. /\ bucket # Nil => bucket.age \in Nat
      /\ \A h \in setup.hubs : mem[h] # Nil => mem[h].age \in Nat
  BY RecordIs, SetupIs, AgesAre DEF TypeInv, StoresOK
<1>6. TakenIsSuperseded' /\ PutIsSuperseded'
  BY <1>1, <1>2, <1>4, <1>5 DEF EndsOffline, TakenIsSuperseded, PutIsSuperseded, IsOnline
<1>7. LeavesLast'
  BY <1>1, <1>3, <1>5 DEF EndsOffline, LeavesLast, InOrder, IsOnline
<1>8. OfflineIsLast'
  BY <1>1, <1>2 DEF EndsOffline, OfflineIsLast, IsOffline
<1> QED BY <1>1, <1>6, <1>7, <1>8 DEF EndsOffline

(* The sets of a session, at its hub f.                                    *)
LEMMA SetIs ==
  ASSUME TypeInv, NEW f \in Hubs, NEW status \in Statuses, NEW age \in Ages,
         SetPresence(f, status, age)
  PROVE  /\ f \notin saving /\ bucket' = bucket /\ f \in unsaved'
         /\ mem'[f] # Nil /\ mem'[f].status = status /\ mem'[f].age = age
         /\ \A h \in Hubs : h # f =>
              /\ mem'[h] = mem[h] /\ (h \in unsaved' <=> h \in unsaved)
              /\ h \in saving' <=> h \in saving
         /\ f \in saving' \/ (mem[f] # Nil /\ mem[f].status = status)
<1>1. [status |-> status, age |-> age] # Nil
  BY PresenceAssumption DEF Record
<1> QED BY <1>1 DEF SetPresence, Throttled, TypeInv, StoresOK

LEMMA OnlineEnds ==
  ASSUME TypeInv, Undisturbed, EndsOffline, NEW s \in Sessions, GoOnline(s) \/ Heartbeat(s)
  PROVE  EndsOffline'
<1>a. PICK f, age : f = session[s].hub /\ age = session[s].stamp
  OBVIOUS
<1>1. /\ f \in Hubs /\ age \in Ages /\ age \in Nat /\ setup.hubs \subseteq Hubs
      /\ SetPresence(f, "online", age)
      /\ session[s].reader \in {"connecting", "serving", "closed"}
      /\ session'[s].reader \in Present \ {"leaving"} /\ session'[s].hub = f
      /\ \A t \in Sessions : t # s => session'[t] = session[t]
      /\ UNCHANGED <<setup, call>>
  BY <1>a, GoOnlineIs, HeartbeatIs, SessionIs, SetupIs, AgesAre DEF TypeInv, Moves, Present
<1>2. /\ f \notin saving /\ bucket' = bucket /\ IsOnline(mem[f])' /\ mem'[f].age = age
      /\ \A h \in Hubs : h # f =>
           /\ mem'[h] = mem[h] /\ (h \in unsaved' <=> h \in unsaved)
           /\ h \in saving' <=> h \in saving
  <2>1. "online" \in Statuses
    BY DEF Statuses
  <2>2. /\ f \notin saving /\ bucket' = bucket
        /\ mem'[f] # Nil /\ mem'[f].status = "online" /\ mem'[f].age = age
        /\ \A h \in Hubs : h # f =>
             /\ mem'[h] = mem[h] /\ (h \in unsaved' <=> h \in unsaved)
             /\ h \in saving' <=> h \in saving
    BY <1>1, <2>1, SetIs
  <2> QED BY <2>2 DEF IsOnline
<1>3. /\ Attended(f)'
      /\ \A h : h # f => (Attended(h)' <=> Attended(h))
      /\ \A h : Attended(h) => Attended(h)'
  BY <1>a, <1>1 DEF Attended
<1>4. \A t \in Sessions : session'[t].reader = "leaving" => t # s /\ session'[t] = session[t]
  BY <1>1 DEF Present
<1>5. ASSUME NEW h \in setup.hubs, NEW a, Superseded(h, a)
      PROVE  Superseded(h, a)'
  <2>1. PICK g \in setup.hubs \ {h} : Later(g, a)
    BY <1>5 DEF Superseded
  <2>2. CASE g = f
    <3>1. /\ IsOffline(bucket)' => bucket'.age <= a
          /\ \A t \in Sessions :
               session'[t].hub = f /\ session'[t].reader = "leaving" => session'[t].stamp <= a
      BY <1>2, <1>4, <2>1, <2>2 DEF Later, IsOffline
    <3>2. ~IsOffline(mem[f])'
      BY <1>2 DEF IsOnline, IsOffline
    <3>3. Later(f, a)'
      BY <1>2, <1>3, <3>1, <3>2 DEF Later
    <3> QED BY <1>1, <2>1, <2>2, <3>3 DEF Superseded
  <2>3. CASE g # f
    <3>1. Later(g, a)'
      BY <1>1, <1>2, <1>3, <1>4, <2>1, <2>3, LaterStays
    <3> QED BY <1>1, <2>1, <3>1 DEF Superseded
  <2> QED BY <2>2, <2>3
<1>6. TakenIsSuperseded'
  <2> SUFFICES ASSUME NEW h \in setup.hubs, ~Attended(h)', IsOnline(mem[h])', NEW a, a = mem'[h].age
               PROVE  Superseded(h, a)'
    BY <1>1 DEF TakenIsSuperseded
  <2>1. h # f /\ h \in Hubs
    BY <1>1, <1>3
  <2> QED BY <1>2, <1>3, <1>5, <2>1 DEF EndsOffline, TakenIsSuperseded, IsOnline
<1>7. PutIsSuperseded'
  <2> SUFFICES ASSUME NEW h \in setup.hubs, IsOnline(bucket)', h \notin saving',
                      ~(Attended(h)' /\ IsOnline(mem[h])'), NEW a, a = bucket'.age
               PROVE  Superseded(h, a)'
    BY <1>1 DEF PutIsSuperseded
  <2>1. h # f /\ h \in Hubs
    BY <1>1, <1>2, <1>3
  <2> QED BY <1>2, <1>3, <1>5, <2>1 DEF EndsOffline, PutIsSuperseded, IsOnline
<1>8. LeavesLast'
  <2> SUFFICES ASSUME InOrder, NEW h \in setup.hubs, NEW t \in Sessions,
                      h \in (unsaved \cup saving)', IsOnline(mem[h])',
                      session'[t].hub = h, session'[t].reader = "leaving"
               PROVE  session'[t].stamp <= mem'[h].age
    BY <1>1 DEF LeavesLast, InOrder
  <2>1. t # s /\ session'[t] = session[t] /\ h \in Hubs
    BY <1>1, <1>4
  <2>2. CASE h = f
    <3>1. session[t].stamp = 0
      BY <1>1, <2>1, <2>2, <1>a, SetsInOrder
    <3> QED BY <1>1, <1>2, <2>1, <2>2, <3>1
  <2>3. CASE h # f
    BY <1>2, <2>1, <2>3 DEF EndsOffline, LeavesLast, IsOnline
  <2> QED BY <2>2, <2>3
<1>9. OfflineIsLast'
  BY <1>1, <1>2, <1>3 DEF EndsOffline, OfflineIsLast, IsOffline
<1> QED BY <1>1, <1>6, <1>7, <1>8, <1>9 DEF EndsOffline

LEMMA OfflineEnds ==
  ASSUME TypeInv, Undisturbed, EndsOffline, NEW s \in Sessions, GoOffline(s)
  PROVE  EndsOffline'
<1>a. PICK f, age : f = session[s].hub /\ age = session[s].stamp
  OBVIOUS
<1>1. /\ f \in Hubs /\ age \in Ages /\ setup.hubs \subseteq Hubs
      /\ SetPresence(f, "offline", age)
      /\ session[s].reader = "leaving" /\ session'[s].reader = "idle"
      /\ \A t \in Sessions : t # s => session'[t] = session[t]
      /\ UNCHANGED <<setup, call>>
  BY <1>a, GoOfflineIs, SessionIs, SetupIs DEF TypeInv, Moves
<1>4. \A t \in Sessions : session'[t].reader = "leaving" => session'[t] = session[t]
  BY <1>1
<1>3. \A h : h # f => (Attended(h)' <=> Attended(h))
  BY <1>a, <1>1 DEF Attended, Present
<1>0. \A g, a : Later(g, a) /\ g = f => age <= a
  BY <1>a, <1>1 DEF Later
<1>2. /\ f \notin saving /\ bucket' = bucket /\ IsOffline(mem[f])' /\ mem'[f].age = age
      /\ \A h \in Hubs : h # f =>
           /\ mem'[h] = mem[h] /\ (h \in unsaved' <=> h \in unsaved)
           /\ h \in saving' <=> h \in saving
      /\ f \in saving' \/ ~IsOnline(mem[f])
  <2>1. "offline" \in Statuses
    BY DEF Statuses
  <2>2. /\ f \notin saving /\ bucket' = bucket
        /\ mem'[f] # Nil /\ mem'[f].status = "offline" /\ mem'[f].age = age
        /\ \A h \in Hubs : h # f =>
             /\ mem'[h] = mem[h] /\ (h \in unsaved' <=> h \in unsaved)
             /\ h \in saving' <=> h \in saving
        /\ f \in saving' \/ (mem[f] # Nil /\ mem[f].status = "offline")
    BY <1>1, <2>1, SetIs
  <2> QED BY <2>2 DEF IsOnline, IsOffline
<1>5. ASSUME NEW h \in setup.hubs, NEW a, Superseded(h, a)
      PROVE  Superseded(h, a)'
  <2>1. PICK g \in setup.hubs \ {h} : Later(g, a)
    BY <1>5 DEF Superseded
  <2>2. CASE g = f
    <3>1. /\ IsOffline(bucket)' => bucket'.age <= a
          /\ \A t \in Sessions :
               session'[t].hub = f /\ session'[t].reader = "leaving" => session'[t].stamp <= a
      BY <1>2, <1>4, <2>1, <2>2 DEF Later, IsOffline
    <3>2. mem'[f].age <= a
      BY <1>0, <1>2, <2>1, <2>2
    <3>3. f \in saving' \/ IsOffline(bucket)'
      BY <1>2, <2>1, <2>2 DEF Later, IsOffline
    <3>4. Later(f, a)'
      BY <3>1, <3>2, <3>3 DEF Later
    <3> QED BY <1>1, <2>1, <2>2, <3>4 DEF Superseded
  <2>3. CASE g # f
    <3>1. Later(g, a)'
      BY <1>1, <1>2, <1>3, <1>4, <2>1, <2>3, LaterStays
    <3> QED BY <1>1, <2>1, <3>1 DEF Superseded
  <2> QED BY <2>2, <2>3
<1>6. TakenIsSuperseded'
  <2> SUFFICES ASSUME NEW h \in setup.hubs, ~Attended(h)', IsOnline(mem[h])', NEW a, a = mem'[h].age
               PROVE  Superseded(h, a)'
    BY <1>1 DEF TakenIsSuperseded
  <2>1. h # f /\ h \in Hubs
    BY <1>1, <1>2 DEF IsOnline, IsOffline
  <2> QED BY <1>2, <1>3, <1>5, <2>1 DEF EndsOffline, TakenIsSuperseded, IsOnline
<1>7. PutIsSuperseded'
  <2> SUFFICES ASSUME NEW h \in setup.hubs, IsOnline(bucket)', h \notin saving',
                      ~(Attended(h)' /\ IsOnline(mem[h])'), NEW a, a = bucket'.age
               PROVE  Superseded(h, a)'
    BY <1>1 DEF PutIsSuperseded
  <2>1. h \in Hubs
    BY <1>1
  <2>2. CASE h = f
    BY <1>2, <1>5, <2>2 DEF EndsOffline, PutIsSuperseded, IsOnline
  <2>3. CASE h # f
    BY <1>2, <1>3, <1>5, <2>1, <2>3 DEF EndsOffline, PutIsSuperseded, IsOnline
  <2> QED BY <2>2, <2>3
<1>8. LeavesLast'
  <2> SUFFICES ASSUME InOrder, NEW h \in setup.hubs, NEW t \in Sessions,
                      h \in (unsaved \cup saving)', IsOnline(mem[h])',
                      session'[t].hub = h, session'[t].reader = "leaving"
               PROVE  session'[t].stamp <= mem'[h].age
    BY <1>1 DEF LeavesLast, InOrder
  <2>1. session'[t] = session[t] /\ h \in Hubs /\ h # f
    BY <1>1, <1>2, <1>4 DEF IsOnline, IsOffline
  <2> QED BY <1>2, <2>1 DEF EndsOffline, LeavesLast, IsOnline
<1>9. OfflineIsLast'
  BY <1>1, <1>2, <1>3 DEF EndsOffline, OfflineIsLast, IsOffline
<1> QED BY <1>1, <1>6, <1>7, <1>8, <1>9 DEF EndsOffline

LEMMA TickEnds ==
  ASSUME TypeInv, EndsOffline, Tick
  PROVE  EndsOffline'
<1>1. /\ UNCHANGED <<setup, unsaved, saving>> /\ setup.hubs \subseteq Hubs
      /\ bucket' = OlderRecord(bucket) /\ bucket \in Record \cup {Nil}
      /\ \A h \in Hubs : /\ mem'[h] = OlderRecord(mem[h]) /\ mem[h] \in Record \cup {Nil}
                         /\ call'[h] = OlderRecord(call[h])
  BY SetupIs DEF Tick, TypeInv, StoresOK
<1>2. \A s \in Sessions :
        /\ session'[s].hub = session[s].hub /\ session'[s].reader = session[s].reader
        /\ session[s].stamp \in Ages
        /\ session[s].reader = "leaving" => session'[s].stamp = Older(session[s].stamp)
  BY TickIs, SessionIs DEF TypeInv, Waits
<1>3. \A h : Attended(h)' <=> Attended(h)
  BY <1>2 DEF Attended
<1>4. /\ IsOnline(bucket)' <=> IsOnline(bucket)
      /\ IsOffline(bucket)' <=> IsOffline(bucket)
      /\ bucket # Nil => bucket.age \in Ages /\ bucket'.age = Older(bucket.age)
  BY <1>1, RecordIs DEF IsOnline, IsOffline
<1>5. \A h \in Hubs :
        /\ IsOnline(mem[h])' <=> IsOnline(mem[h])
        /\ IsOffline(mem[h])' <=> IsOffline(mem[h])
        /\ mem[h] # Nil => mem[h].age \in Ages /\ mem'[h].age = Older(mem[h].age)
  BY <1>1, RecordIs DEF IsOnline, IsOffline
<1>6. ASSUME NEW h \in setup.hubs, NEW a \in Ages, Superseded(h, a)
      PROVE  Superseded(h, Older(a))'
  <2>1. PICK g \in setup.hubs \ {h} : Later(g, a)
    BY <1>6 DEF Superseded
  <2>2. PICK b : b = Older(a)
    OBVIOUS
  <2>3. g \in Hubs
    BY <1>1
  <2>4. IsOffline(bucket)' => bucket'.age <= b
    BY <1>4, <2>1, <2>2, OlderIsMonotone DEF Later, IsOffline
  <2>5. g \in (unsaved \cup saving)' /\ IsOffline(mem[g])' => mem'[g].age <= b
    BY <1>1, <1>5, <2>1, <2>2, <2>3, OlderIsMonotone DEF Later, IsOffline
  <2>6. \A s \in Sessions :
          session'[s].hub = g /\ session'[s].reader = "leaving" => session'[s].stamp <= b
    BY <1>2, <2>1, <2>2, OlderIsMonotone DEF Later
  <2>7. g \in saving' \/ IsOffline(bucket)' \/ (Attended(g)' /\ IsOnline(mem[g])')
    BY <1>1, <1>3, <1>4, <1>5, <2>1, <2>3 DEF Later
  <2>8. Later(g, b)'
    BY <2>4, <2>5, <2>6, <2>7 DEF Later
  <2>9. Superseded(h, b)'
    BY <1>1, <2>1, <2>8 DEF Superseded
  <2> QED BY <2>2, <2>9 DEF Older
<1>7. TakenIsSuperseded'
  <2> SUFFICES ASSUME NEW h \in setup.hubs, ~Attended(h), IsOnline(mem[h]), NEW a, a = mem'[h].age
               PROVE  Superseded(h, a)'
    BY <1>1, <1>3, <1>5 DEF TakenIsSuperseded
  <2>1. PICK b \in Ages : b = mem[h].age /\ a = Older(b) /\ Superseded(h, b)
    BY <1>1, <1>5 DEF EndsOffline, TakenIsSuperseded, IsOnline
  <2>2. Superseded(h, Older(b))'
    BY <1>6, <2>1
  <2> QED BY <2>1, <2>2 DEF Older
<1>8. PutIsSuperseded'
  <2> SUFFICES ASSUME NEW h \in setup.hubs, IsOnline(bucket), h \notin saving,
                      ~(Attended(h) /\ IsOnline(mem[h])), NEW a, a = bucket'.age
               PROVE  Superseded(h, a)'
    BY <1>1, <1>3, <1>4, <1>5 DEF PutIsSuperseded
  <2>1. PICK b \in Ages : b = bucket.age /\ a = Older(b) /\ Superseded(h, b)
    BY <1>4 DEF EndsOffline, PutIsSuperseded, IsOnline
  <2>2. Superseded(h, Older(b))'
    BY <1>6, <2>1
  <2> QED BY <2>1, <2>2 DEF Older
<1>9. LeavesLast'
  BY <1>1, <1>2, <1>5, OlderIsMonotone DEF EndsOffline, LeavesLast, InOrder, IsOnline
<1>10. OfflineIsLast'
  BY <1>1, <1>3, <1>5 DEF EndsOffline, OfflineIsLast
<1>11. \A h \in Hubs : call'[h] = Nil
  BY <1>1 DEF EndsOffline, OlderRecord
<1> QED BY <1>7, <1>8, <1>9, <1>10, <1>11 DEF EndsOffline

LEMMA EndInit == Init => EndInv
<1> SUFFICES ASSUME Init PROVE EndsOffline
  BY DEF EndInv
<1>1. /\ bucket = Nil /\ unsaved = {} /\ saving = {}
      /\ \A h \in Hubs : mem[h] = Nil /\ call[h] = Nil
  BY DEF Init
<1>2. RestOK
  BY TypeInit DEF TypeInv
<1> QED BY <1>1, <1>2, SetupIs DEF EndsOffline, OfflineIsLast, TakenIsSuperseded, PutIsSuperseded,
                           LeavesLast, IsOnline

(* Failures and crashes are never undone, and a use stays as it is.        *)
LEMMA WasUndisturbed ==
  ASSUME TypeInv, Next, Undisturbed'
  PROVE  setup' = setup /\ Undisturbed
<1>1. /\ setup' = setup
      /\ failures' = failures \/ failures' = failures + 1
      /\ crashes' = crashes \/ crashes' = crashes + 1
  <2>1. ASSUME NEW s \in Sessions,
               \/ GoOnline(s) \/ Heartbeat(s) \/ GoOffline(s) \/ Steps(s)
               \/ \E h \in setup.home[s] : Connect(s, h)
        PROVE  UNCHANGED <<setup, failures, crashes>>
    BY <2>1, ConnectIs, GoOnlineIs, HeartbeatIs, GoOfflineIs, StepsAre
  <2> QED BY <2>1 DEF Next, Steps, Put, PutFails, SaveAll, Read, Compare, Adopt, Ask, Answer,
                      Crash, Tick
<1> QED BY <1>1 DEF Undisturbed, TypeInv, RestOK, OneHub, AtMostTwoHubs, InOrder

LEMMA EndNext == TypeInv /\ EndInv /\ [Next]_vars => EndInv'
<1> SUFFICES ASSUME TypeInv, EndInv, [Next]_vars, Undisturbed'
             PROVE  EndsOffline'
  BY DEF EndInv
<1>1. CASE UNCHANGED vars
  <2>1. Undisturbed
    BY <1>1 DEF vars, Undisturbed, OneHub, AtMostTwoHubs, InOrder
  <2>2. EndsOffline /\ UNCHANGED <<setup, mem, unsaved, saving, bucket, call, session>>
    BY <1>1, <2>1 DEF EndInv, vars, stores
  <2> QED BY <2>2 DEF EndsOffline, OfflineIsLast, TakenIsSuperseded, PutIsSuperseded, LeavesLast,
                      Superseded, Later, Attended, IsOnline, IsOffline, InOrder
<1>2. CASE Next
  <2>1. Undisturbed /\ EndsOffline
    BY <1>2, WasUndisturbed DEF EndInv
  <2>2. CASE \E h \in setup.hubs : Put(h) \/ PutFails(h) \/ SaveAll(h)
    BY <2>1, <2>2, PutEnds
  <2>3. CASE \E h \in setup.hubs : Compare(h)
    BY <2>1, <2>3, CompareEnds
  <2>4. CASE \E h \in setup.hubs :
               Read(h) \/ Answer(h) \/ Crash(h) \/ \E status \in Statuses : Ask(h, status)
    <3>1. setup.hubs \subseteq Hubs
      BY SetupIs DEF TypeInv
    <3>2. \A h \in Hubs : call[h] = Nil
      BY <2>1 DEF EndsOffline
    <3>3. ~setup.requests /\ ~setup.overlaps /\ crashes' # crashes + 1
      BY <2>1 DEF Undisturbed, TypeInv, RestOK
    <3> QED BY <2>4, <3>1, <3>2, <3>3 DEF Read, Answer, Crash, Ask
  <2>5. CASE \E s \in Sessions :
               \/ \E h \in setup.home[s] : Connect(s, h)
               \/ GoOnline(s) \/ Heartbeat(s) \/ GoOffline(s) \/ Steps(s)
    BY <2>1, <2>5, StepEnds, OnlineEnds, OfflineEnds
  <2>6. CASE Tick
    BY <2>1, <2>6, TickEnds
  <2> QED BY <1>2, <2>2, <2>3, <2>4, <2>5, <2>6 DEF Next, Steps
<1> QED BY <1>1, <1>2

(* When the sessions have ended, whoever asks is told so, however many     *)
(* there were and however late their sets: at one hub, and at two hubs     *)
(* whose sets come in the order of their times.                            *)
THEOREM EndsAreShown == Spec => []EndedIsOffline
<1>1. ASSUME TypeInv, EndInv
      PROVE  EndedIsOffline
  <2> SUFFICES ASSUME Quiet, saving = {}, Undisturbed, NEW h \in setup.hubs
               PROVE  Shown(h) = {"offline"}
    BY DEF EndedIsOffline, Undisturbed
  <2>1. EndsOffline /\ \A g : ~Attended(g)
    BY <1>1 DEF EndInv, Quiet, Idle, Attended, Present
  <2>2. \A age : Superseded(h, age) => IsOffline(bucket) /\ bucket.age <= age
    BY <2>1 DEF Superseded, Later
  <2>3. ~IsOnline(bucket)
    BY <2>1, <2>2 DEF EndsOffline, PutIsSuperseded, IsOnline, IsOffline
  <2>4. IsOnline(mem[h]) => IsOffline(bucket) /\ bucket.age <= mem[h].age
    BY <2>1, <2>2 DEF EndsOffline, TakenIsSuperseded
  <2>5. /\ bucket # Nil => bucket.age \in Nat /\ bucket.status \in Statuses
        /\ mem[h] # Nil =>
             mem[h].age \in Nat /\ mem[h].age <= OfflineAfter /\ mem[h].status \in Statuses
    <3>1. h \in Hubs
      BY <1>1, SetupIs DEF TypeInv
    <3> QED BY <1>1, <3>1, RecordIs, PresenceAssumption DEF TypeInv, StoresOK, Ages
  <2>6. ShownAs(bucket) = "offline"
    BY <2>3, <2>5 DEF ShownAs, IsOnline, Statuses
  <2>7. bucket = Nil \/ PreferLocal(mem[h], bucket) => ShownAs(mem[h]) = "offline"
    <3>1. CASE IsOnline(mem[h])
      <4>1. bucket # Nil /\ bucket.age <= mem[h].age
        BY <2>4, <3>1 DEF IsOffline
      <4>2. PreferLocal(mem[h], bucket) => mem[h].age = OfflineAfter
        BY <2>5, <3>1, <4>1 DEF PreferLocal, IsOnline
      <4> QED BY <2>5, <3>1, <4>1, <4>2, PresenceAssumption DEF ShownAs, IsOnline
    <3>2. CASE ~IsOnline(mem[h])
      BY <2>5, <3>2 DEF ShownAs, IsOnline, Statuses
    <3> QED BY <3>1, <3>2
  <2>8. bucket # Nil => PreferRemote(mem[h], bucket) \/ PreferLocal(mem[h], bucket)
    BY <2>5 DEF PreferRemote, PreferLocal
  <2>9. CASE bucket = Nil
    BY <2>7, <2>9 DEF Shown
  <2>10. CASE bucket # Nil
    BY <2>6, <2>7, <2>8, <2>10 DEF Shown
  <2> QED BY <2>9, <2>10
<1> QED BY <1>1, TypeInit, TypeNext, EndInit, EndNext, PTL DEF Spec

=============================================================================
