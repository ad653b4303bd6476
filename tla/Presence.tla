------------------------------- MODULE Presence -------------------------------
(***************************************************************************)
(* Whether an agent or a human is shown online: the WebSocket sessions of  *)
(* an agent (handlers_runtime_realtime.go), the heartbeats of its requests,*)
(* the presence records that hubs keep in memory (store/memory.go) and     *)
(* share as an object of one bucket (store/s3_state.go), and the reading   *)
(* that takes an old "online" for offline.  One agent: presences of two    *)
(* agents never meet.                                                      *)
(*                                                                         *)
(* Time passes in seconds, the unit of updated_at, as ages: a record holds *)
(* how long ago it was stamped, up to OfflineAfter.                        *)
(***************************************************************************)
EXTENDS Naturals, FiniteSets

CONSTANTS
  Hubs,          \* the processes that share the bucket
  Sessions,      \* WebSocket sessions of the agent
  Nil,
  OfflineAfter,  \* runtimePresenceOfflineAfter
  PutInterval,   \* presencePersistInterval
  RoundTime,     \* a heartbeat and the pull after it, runtimeEnvelopeWebSocketPullTimeoutDefault
  Setups         \* the uses looked at, one for each initial state

(* A use is bounded by the hubs there are and those each session connects  *)
(* to, whether the agent also makes requests, whether other calls may come *)
(* between the two steps of a reader, the ticks that a call may wait for   *)
(* the store, and the puts that fail and the hubs that crash.              *)
Setup == [hubs : SUBSET Hubs, home : [Sessions -> SUBSET Hubs], requests : BOOLEAN,
          overlaps : BOOLEAN, lag : Nat, failures : Nat, crashes : Nat]

Ages == 0 .. OfflineAfter
Statuses == {"online", "offline"}
Record == [status : Statuses, age : Ages]

ASSUME PresenceAssumption ==
  /\ Hubs # {} /\ Nil \notin Hubs \cup Record \cup Nat
  /\ OfflineAfter \in Nat /\ PutInterval \in Nat /\ RoundTime \in Nat \ {0}
  /\ \A u \in Setups : u \in Setup /\ OfflineAfter >= PutInterval + RoundTime + u.lag

VARIABLES
  setup,
  mem,        \* agentPresence of each hub
  unsaved,    \* hubs whose record is not what they last knew of the object, persistedObjects
  sinceSave,  \* presenceLastPersist: seconds since each hub's last put of a heartbeat
  saving,     \* hubs that hold persistMu while a put of the presence is under way
  bucket,     \* the presence object
  view,       \* the object that a reader of each hub got and did not yet compare
  call,       \* the set a request of each hub is about to make
  session,
  failures, crashes

stores == <<mem, unsaved, sinceSave, saving, bucket>>
vars == <<setup, stores, view, call, session, failures, crashes>>

Readers == {"idle", "connecting", "greeting", "serving", "closed", "leaving"}
Deliverers == {"off", "loop", "beat", "pull"}

(* A WebSocket session: the goroutine that reads commands, the one that    *)
(* delivers, the context they share, the age of the time one of them took  *)
(* for its next set, and the seconds since the last heartbeat was begun.   *)
Session == [hub : Hubs, reader : Readers, deliverer : Deliverers, cancelled : BOOLEAN,
            stamp : Ages, round : Ages]

Fresh(h) == [hub |-> h, reader |-> "idle", deliverer |-> "off", cancelled |-> FALSE,
             stamp |-> 0, round |-> 0]
Nobody == Fresh(CHOOSE h \in Hubs : TRUE)

Init ==
  /\ setup \in Setups
  /\ mem = [h \in Hubs |-> Nil] /\ unsaved = {}
  /\ sinceSave = [h \in Hubs |-> Nil]
  /\ saving = {}
  /\ bucket = Nil
  /\ view = [h \in Hubs |-> Nil]
  /\ call = [h \in Hubs |-> Nil]
  /\ session = [s \in Sessions |-> Nobody]
  /\ failures = 0 /\ crashes = 0

-----------------------------------------------------------------------------
(* preferRemotePresence.  Of two records as old as this model tells ages   *)
(* apart, either may be the newer.                                         *)
PreferRemote(local, remote) == local # Nil => remote.age <= local.age
PreferLocal(local, remote) ==
  local # Nil /\ (local.age < remote.age \/ {local.age, remote.age} = {OfflineAfter})

(* runtimePresenceFromMetadataAt: an online record that is too old is      *)
(* shown as offline.                                                       *)
ShownAs_Ageless(p) == IF p = Nil THEN "offline" ELSE p.status  \* mutant: an old online record is taken at its word
ShownAs(p) == IF p = Nil \/ p.age >= OfflineAfter THEN "offline" ELSE p.status

(* What a reader of hub h is told now.                                     *)
Shown(h) ==
  {ShownAs(p) : p \in {q \in {mem[h], bucket} :
     IF bucket = Nil THEN q = mem[h]
     ELSE \/ q = bucket /\ PreferRemote(mem[h], bucket)
          \/ q = mem[h] /\ PreferLocal(mem[h], bucket)}}

(* The put is left out when the status is as before and the last one is    *)
(* recent.                                                                 *)
Throttled_Same(h, p) == mem[h] # Nil /\ mem[h].status = p.status  \* mutant: a status is put once
Throttled(h, p) ==
  /\ mem[h] # Nil /\ mem[h].status = p.status
  /\ sinceSave[h] # Nil /\ sinceSave[h] < PutInterval

(* SetAgentPresence and SetHumanPresence: the record in memory is replaced *)
(* by one with the time the caller took; the put, if one is made, is made  *)
(* before the next set.                                                    *)
SetPresence(h, status, age) ==
  LET p == [status |-> status, age |-> age]
  IN /\ h \notin saving
     /\ mem' = [mem EXCEPT ![h] = p]
     /\ saving' = IF Throttled(h, p) THEN saving ELSE saving \cup {h}
     /\ unsaved' = unsaved \cup {h}
     /\ UNCHANGED <<sinceSave, bucket>>

(* Of the time since a put only matters whether the interval has passed.   *)
Since(age) == IF age < PutInterval THEN age ELSE PutInterval

Put(h) ==
  /\ h \in saving
  /\ bucket' = mem[h]
  /\ unsaved' = unsaved \ {h}
  /\ sinceSave' = [sinceSave EXCEPT ![h] = Since(mem[h].age)]
  /\ saving' = saving \ {h}
  /\ UNCHANGED <<setup, mem, view, call, session, failures, crashes>>

(* A put that fails, or whose answer is lost, is not reported to anybody.  *)
PutFails(h) ==
  /\ h \in saving /\ failures < setup.failures
  /\ bucket' \in {bucket, mem[h]}
  /\ saving' = saving \ {h}
  /\ failures' = failures + 1
  /\ UNCHANGED <<setup, mem, unsaved, sinceSave, view, call, session, crashes>>

(* persistAll, in any other change of this hub: the record in memory is    *)
(* put if it is not what the hub last knew of the object.                  *)
SaveAll(h) ==
  /\ h \in unsaved \ saving
  /\ \/ /\ bucket' = mem[h] /\ unsaved' = unsaved \ {h}
        /\ UNCHANGED failures
     \/ /\ failures < setup.failures
        /\ bucket' \in {bucket, mem[h]} /\ failures' = failures + 1
        /\ UNCHANGED unsaved
  /\ UNCHANGED <<setup, mem, sinceSave, saving, view, call, session, crashes>>

(* GetAgentPresence and GetHumanPresence read the object without a lock,   *)
(* and compare it again when they have the lock: at once, or after sets    *)
(* and puts that came in between.                                          *)
Read(h) ==
  /\ setup.overlaps /\ view[h] = Nil
  /\ bucket # Nil /\ PreferRemote(mem[h], bucket)
  /\ view' = [view EXCEPT ![h] = bucket]
  /\ UNCHANGED <<setup, stores, call, session, failures, crashes>>

Adopt(h, remote) ==
  /\ remote # Nil /\ h \notin saving
  /\ view' = [view EXCEPT ![h] = Nil]
  /\ \/ /\ PreferRemote(mem[h], remote)
        /\ mem' = [mem EXCEPT ![h] = remote] /\ unsaved' = unsaved \ {h}
     \/ /\ PreferLocal(mem[h], remote)
        /\ UNCHANGED <<mem, unsaved>>
  /\ UNCHANGED <<setup, sinceSave, saving, bucket, call, session, failures, crashes>>

Compare(h) == Adopt(h, IF setup.overlaps THEN view[h] ELSE bucket)

-----------------------------------------------------------------------------
(* Requests.  touchAgentPresenceOnline and touchHumanPresenceOnline, which *)
(* the handlers of messages and authenticateHuman make first, and the      *)
(* offline requests of an agent and of its owner.                          *)
Ask(h, status) ==
  /\ setup.requests /\ call[h] = Nil
  /\ call' = [call EXCEPT ![h] = [status |-> status, age |-> 0]]
  /\ UNCHANGED <<setup, stores, view, session, failures, crashes>>

Answer(h) ==
  /\ call[h] # Nil
  /\ SetPresence(h, call[h].status, call[h].age)
  /\ call' = [call EXCEPT ![h] = Nil]
  /\ UNCHANGED <<setup, view, session, failures, crashes>>

-----------------------------------------------------------------------------
(* Sessions (handleRuntimeEnvelopeWebSocket).                              *)
Elsewhere == UNCHANGED <<setup, view, call, failures, crashes>>

Stamped(s, reader, deliverer) ==
  session' = [session EXCEPT ![s] = [@ EXCEPT !.reader = reader, !.deliverer = deliverer,
                                              !.stamp = 0]]

(* The upgrade, and the time taken for the first set.                      *)
Connect(s, h) ==
  /\ session[s].reader = "idle"
  /\ session' = [session EXCEPT ![s] = [Fresh(h) EXCEPT !.reader = "connecting"]]
  /\ UNCHANGED stores /\ Elsewhere

GoOnline(s) ==
  /\ session[s].reader = "connecting"
  /\ SetPresence(session[s].hub, "online", session[s].stamp)
  /\ session' = [session EXCEPT ![s] = [@ EXCEPT !.reader = "greeting", !.stamp = 0]]
  /\ Elsewhere

(* session_ready is written and the delivery goroutine started; or the     *)
(* write fails, and the deferred set is next.                              *)
Greet(s) ==
  /\ session[s].reader = "greeting"
  /\ \/ session' = [session EXCEPT ![s] = [@ EXCEPT !.reader = "serving", !.deliverer = "loop",
                                                    !.round = 0]]
     \/ Stamped(s, "leaving", "off")
  /\ UNCHANGED stores /\ Elsewhere

(* A round of the delivery goroutine: a heartbeat, then a pull.            *)
Beat(s) ==
  /\ session[s].deliverer = "loop" /\ ~session[s].cancelled
  /\ Stamped(s, session[s].reader, "beat")
  /\ UNCHANGED stores /\ Elsewhere

Heartbeat(s) ==
  /\ session[s].deliverer = "beat"
  /\ SetPresence(session[s].hub, "online", session[s].stamp)
  /\ session' = [session EXCEPT ![s] = [@ EXCEPT !.deliverer = "pull",
                                                 !.stamp = 0, !.round = session[s].stamp]]
  /\ Elsewhere

(* A pull that is answered, and the answer written; or the write fails and *)
(* the session is cancelled.                                               *)
PullReturns(s) ==
  /\ session[s].deliverer = "pull" /\ ~session[s].cancelled
  /\ session' = [session EXCEPT ![s] = [@ EXCEPT !.deliverer = "loop"]]
  /\ UNCHANGED stores /\ Elsewhere

WriteFails(s) ==
  /\ session[s].deliverer = "pull" /\ ~session[s].cancelled
  /\ session' = [session EXCEPT ![s] = [@ EXCEPT !.deliverer = "off", !.cancelled = TRUE,
                                                 !.round = 0]]
  /\ UNCHANGED stores /\ Elsewhere

(* The goroutine ends when its context is done, in a pull or before the    *)
(* next heartbeat.                                                         *)
Stops(s) ==
  /\ session[s].deliverer \in {"loop", "pull"} /\ session[s].cancelled
  /\ session' = [session EXCEPT ![s] = [@ EXCEPT !.deliverer = "off", !.round = 0]]
  /\ UNCHANGED stores /\ Elsewhere

(* A ping that cannot be written (startRuntimeEnvelopeWebSocketKeepalive). *)
PingFails(s) ==
  /\ session[s].reader = "serving" /\ ~session[s].cancelled
  /\ session' = [session EXCEPT ![s] = [@ EXCEPT !.cancelled = TRUE]]
  /\ UNCHANGED stores /\ Elsewhere

(* The reader ends: the client is gone, has not answered a ping in time,   *)
(* or a command could not be answered (handleRuntimeEnvelopeWSCommand).    *)
Hangup(s) ==
  /\ session[s].reader = "serving"
  /\ session' = [session EXCEPT ![s] = [@ EXCEPT !.reader = "closed", !.cancelled = TRUE]]
  /\ UNCHANGED stores /\ Elsewhere

(* The delivery goroutine is waited for, and the deferred set is made.     *)
Leave_Hurried(s) ==  \* mutant: the delivery goroutine is not waited for
  /\ session[s].reader = "closed"
  /\ Stamped(s, "leaving", session[s].deliverer)
  /\ UNCHANGED stores /\ Elsewhere
Leave(s) ==
  /\ session[s].reader = "closed" /\ session[s].deliverer = "off"
  /\ Stamped(s, "leaving", "off")
  /\ UNCHANGED stores /\ Elsewhere

GoOffline(s) ==
  /\ session[s].reader = "leaving"
  /\ SetPresence(session[s].hub, "offline", session[s].stamp)
  /\ session' = [session EXCEPT ![s] = [@ EXCEPT !.reader = "idle", !.stamp = 0]]
  /\ Elsewhere

-----------------------------------------------------------------------------
(* A hub dies and starts again from the bucket (loadFromS3); its sessions  *)
(* and requests are gone.                                                  *)
Crash(h) ==
  /\ crashes < setup.crashes /\ crashes' = crashes + 1
  /\ mem' = [mem EXCEPT ![h] = bucket] /\ unsaved' = unsaved \ {h}
  /\ sinceSave' = [sinceSave EXCEPT ![h] = Nil]
  /\ saving' = saving \ {h}
  /\ view' = [view EXCEPT ![h] = Nil] /\ call' = [call EXCEPT ![h] = Nil]
  /\ session' = [s \in Sessions |-> IF session[s].hub = h THEN Nobody ELSE session[s]]
  /\ UNCHANGED <<setup, bucket, failures>>

(* A second passes.  A call waits for the store no longer than setup.lag,  *)
(* a round of a session that is served takes no longer than RoundTime.     *)
Older(age) == IF age < OfflineAfter THEN age + 1 ELSE age
OlderRecord(p) == IF p = Nil THEN Nil ELSE [p EXCEPT !.age = Older(@)]

Waits(s) == session[s].reader \in {"connecting", "leaving"} \/ session[s].deliverer = "beat"

InTime ==
  /\ \A s \in Sessions :
       /\ Waits(s) => session[s].stamp < setup.lag
       /\ session[s].deliverer \in {"loop", "pull"} => session[s].round < RoundTime
  /\ \A h \in Hubs : call[h] # Nil => call[h].age < setup.lag
  /\ \A h \in saving : mem[h].age < setup.lag

Tick ==
  /\ InTime
  /\ mem' = [h \in Hubs |-> OlderRecord(mem[h])]
  /\ bucket' = OlderRecord(bucket)
  /\ view' = [h \in Hubs |-> OlderRecord(view[h])] /\ call' = [h \in Hubs |-> OlderRecord(call[h])]
  /\ sinceSave' = [h \in Hubs |-> IF sinceSave[h] = Nil THEN Nil ELSE Since(sinceSave[h] + 1)]
  /\ session' = [s \in Sessions |->
       IF Waits(s) THEN [session[s] EXCEPT !.stamp = Older(@)]
       ELSE IF session[s].deliverer = "off" THEN session[s]
       ELSE [session[s] EXCEPT !.round = Older(@)]]
  /\ UNCHANGED <<setup, unsaved, saving, failures, crashes>>

Ends(s) == Stops(s) \/ (session[s].cancelled /\ Hangup(s)) \/ Leave(s) \/ GoOffline(s)
Serves(s) == GoOnline(s) \/ Greet(s) \/ Beat(s) \/ Heartbeat(s) \/ PullReturns(s)

Next ==
  \/ \E h \in setup.hubs :
       \/ Put(h) \/ PutFails(h) \/ SaveAll(h) \/ Read(h) \/ Compare(h)
       \/ \E status \in Statuses : Ask(h, status)
       \/ Answer(h) \/ Crash(h)
  \/ \E s \in Sessions :
       \/ \E h \in setup.home[s] : Connect(s, h)
       \/ GoOnline(s) \/ Greet(s) \/ Beat(s) \/ Heartbeat(s) \/ PullReturns(s) \/ WriteFails(s)
       \/ Stops(s) \/ PingFails(s) \/ Hangup(s) \/ Leave(s) \/ GoOffline(s)
  \/ Tick

(* Goroutines run and get the store's locks, puts are answered or time     *)
(* out, and seconds pass however many rounds are made in one; nobody must  *)
(* connect, ask or hang up.                                                *)
Fairness ==
  /\ \A h \in Hubs : WF_vars(h \in setup.hubs /\ (Put(h) \/ Compare(h) \/ Answer(h)))
  /\ \A s \in Sessions : SF_vars(Serves(s) \/ Ends(s))
  /\ SF_vars(Tick)

Spec == Init /\ [][Next]_vars /\ Fairness

-----------------------------------------------------------------------------
TypeOK ==
  /\ setup \in Setups
  /\ mem \in [Hubs -> Record \cup {Nil}] /\ unsaved \subseteq Hubs
  /\ sinceSave \in [Hubs -> (0 .. PutInterval) \cup {Nil}]
  /\ saving \subseteq Hubs
  /\ bucket \in Record \cup {Nil}
  /\ view \in [Hubs -> Record \cup {Nil}] /\ call \in [Hubs -> Record \cup {Nil}]
  /\ session \in [Sessions -> Session]
  /\ failures \in Nat /\ crashes \in Nat

Idle(s) == session[s].reader = "idle"
Quiet == (\A s \in Sessions : Idle(s)) /\ (\A h \in Hubs : call[h] = Nil)
Alone(s) ==
  /\ session[s].reader = "serving" /\ ~session[s].cancelled
  /\ \A o \in Sessions \ {s} : Idle(o)
  /\ \A h \in Hubs : call[h] = Nil

OneHub == \A g, h \in setup.hubs : g = h
AtMostTwoHubs == \A f, g, h \in setup.hubs : f = g \/ g = h \/ f = h

(* The sets of each hub come in the order of their times: none is late, or *)
(* no two sessions may be at one hub.                                      *)
InOrder ==
  \/ setup.lag = 0
  \/ \A s, t \in Sessions : s # t => setup.home[s] \cap setup.home[t] = {}

(* When the sessions of an agent have ended, whoever asks any hub is told  *)
(* that it is offline, and not only when its last heartbeat is old: no     *)
(* heartbeat comes after the offline of its session, a new status is never *)
(* held back, and a hub with no session of it takes the object over what   *)
(* it knew.  Unless a put failed, a hub crashed, the agent also makes      *)
(* requests, a reader was overtaken by a set of the same second, a late    *)
(* set came over a younger one at one of two hubs, or a third hub put back *)
(* an offline that it had not put before (the deferred set of              *)
(* handleRuntimeEnvelopeWebSocket, SetAgentPresence, GetAgentPresence).    *)
EndedIsOffline ==
  (/\ Quiet /\ saving = {} /\ failures = 0 /\ crashes = 0
   /\ ~setup.requests /\ ~setup.overlaps
   /\ OneHub \/ (AtMostTwoHubs /\ InOrder))
    => \A h \in setup.hubs : Shown(h) = {"offline"}

(* An agent with one session that stays open is in the end shown online by *)
(* every hub and stays so, also when the close of an older session, a late *)
(* request or a restart of another hub had set it offline after the        *)
(* session set it online, and when puts had failed.                        *)
OpenIsShownOnline ==
  \A s \in Sessions :
    <>[]Alone(s) => <>[](\A h \in setup.hubs : Shown(h) = {"online"})

(* An agent with no session and no request left is in the end shown        *)
(* offline by every hub, whatever failed or crashed before.                *)
GoneIsShownOffline ==
  <>[]Quiet => <>[](\A h \in setup.hubs : Shown(h) = {"offline"})
=============================================================================
