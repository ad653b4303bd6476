------------------------- MODULE PeerFederationProofs -------------------------
(***************************************************************************)
(* Federation, for any number of peers, messages, publishes and calls: the *)
(* state keeps its types, nothing of a deleted peer is left, a message is  *)
(* put in its receiver's queue at most once and is not forgotten, and      *)
(* federation implements PeerChannel.                                      *)
(***************************************************************************)
EXTENDS PeerFederation, TLAPS

(* The types of what runs and calls hold: a run past `next' has a message, *)
(* and every message they hold has been given a peer.                      *)
RunRec  == [pc : RunPC, msg : Msgs \cup {Nil}, batch : SUBSET Msgs, expired : BOOLEAN]
CallRec == [by : Runs \cup {Nil}, msg : Msgs \cup {Nil},
            at : {"free", "sent", "taken", "ok", "refused"}]
Loose   == {"idle", "drain", "next"}
Sent    == {m \in Msgs : to[m] \in Peers}

RunsOK ==
  /\ run \in [Runs -> RunRec]
  /\ \A r \in Runs : /\ run[r].batch \subseteq Sent
                     /\ run[r].pc \notin Loose => run[r].msg \in Sent
CallsOK ==
  /\ call \in [Slots -> CallRec]
  /\ \A c \in Slots : call[c].at # "free" => call[c].msg \in Sent
HubOK ==
  /\ peers \subseteq Peers /\ trusts \in [Peers -> SUBSET Kinds]
  /\ record \in [Msgs -> {"none", "queued", "forwarded"}]
  /\ to \in [Msgs -> Peers \cup {Nil}]
  /\ outbox \subseteq Sent /\ due \subseteq outbox /\ orphaned \subseteq Msgs
  /\ health \in [Peers -> {"unknown", "ok", "failed"}]
PeerOK ==
  /\ trusting \subseteq Peers /\ taken \subseteq Msgs
  /\ misreported \subseteq Msgs /\ inbox \in [Msgs -> Nat]

TypeInv == HubOK /\ RunsOK /\ CallsOK /\ PeerOK

-----------------------------------------------------------------------------
(* A run that takes on a record of its own changes no other run. *)
LEMMA RunStepTypes ==
  ASSUME RunsOK, NEW r \in Runs, NEW rec \in RunRec, rec.batch \subseteq Sent,
         rec.pc \notin Loose => rec.msg \in Sent,
         run' = [run EXCEPT ![r] = rec], to' = to
  PROVE  RunsOK'
<1>1. Sent' = Sent
  BY DEF Sent
<1> QED BY <1>1 DEF RunsOK

LEMMA GoTypes ==
  ASSUME RunsOK, NEW r \in Runs, NEW pc \in RunPC, Go(r, pc), to' = to,
         pc \in Loose \/ run[r].pc \notin Loose
  PROVE  RunsOK'
<1> DEFINE rec == [run[r] EXCEPT !.pc = pc]
<1>1. /\ rec \in RunRec /\ rec.batch = run[r].batch
      /\ rec.pc = pc /\ rec.msg = run[r].msg
  BY DEF RunsOK, RunRec
<1>2. run' = [run EXCEPT ![r] = rec]
  BY DEF Go
<1> HIDE DEF rec
<1> QED BY <1>1, <1>2, RunStepTypes DEF RunsOK

LEMMA TakeFromTypes ==
  ASSUME RunsOK, NEW r \in Runs, NEW m \in run[r].batch, NEW pc \in RunPC,
         TakeFrom(r, m, pc), to' = to
  PROVE  RunsOK'
<1> DEFINE rec == [run[r] EXCEPT !.pc = pc, !.msg = m, !.batch = run[r].batch \ {m}]
<1>1. /\ rec \in RunRec /\ rec.batch \subseteq Sent
      /\ rec.pc = pc /\ rec.msg = m /\ m \in Sent
  BY DEF RunsOK, RunRec, Sent
<1>2. run' = [run EXCEPT ![r] = rec]
  BY DEF TakeFrom
<1> HIDE DEF rec
<1> QED BY <1>1, <1>2, RunStepTypes

LEMMA IdleTypes ==
  ASSUME RunsOK, NEW r \in Runs, run' = [run EXCEPT ![r] = IdleRun], to' = to
  PROVE  RunsOK'
<1>1. IdleRun \in RunRec /\ IdleRun.batch = {} /\ IdleRun.pc \in Loose
  BY DEF IdleRun, RunRec, RunPC, Loose
<1> QED BY <1>1, RunStepTypes

(* A call that takes on a record of its own changes no other call. *)
LEMMA CallStepTypes ==
  ASSUME CallsOK, NEW c \in Slots, NEW rec \in CallRec,
         rec.at # "free" => rec.msg \in Sent,
         call' = [call EXCEPT ![c] = rec], to' = to
  PROVE  CallsOK'
<1>1. Sent' = Sent
  BY DEF Sent
<1> QED BY <1>1 DEF CallsOK

LEMMA NoCallType == NoCall \in CallRec /\ NoCall.at = "free"
BY DEF NoCall, CallRec

LEMMA ReplyTypes ==
  ASSUME CallsOK, NEW c \in Slots, NEW ans \in {"ok", "refused"}, Reply(c, ans),
         call[c].at # "free", to' = to
  PROVE  CallsOK'
<1> DEFINE rec == IF call[c].by = Nil THEN NoCall ELSE [call[c] EXCEPT !.at = ans]
<1>1. rec \in CallRec /\ (rec.at # "free" => rec.msg \in Sent)
  <2>1. CASE call[c].by = Nil
    BY <2>1, NoCallType
  <2>2. CASE call[c].by # Nil
    BY <2>2 DEF CallsOK, CallRec
  <2> QED BY <2>1, <2>2
<1>2. call' = [call EXCEPT ![c] = rec]
  BY DEF Reply
<1> HIDE DEF rec
<1> QED BY <1>1, <1>2, CallStepTypes

LEMMA SameCalls == ASSUME CallsOK, call' = call, to' = to PROVE CallsOK'
BY DEF CallsOK, Sent

LEMMA SameRuns == ASSUME RunsOK, run' = run, to' = to PROVE RunsOK'
BY DEF RunsOK, Sent

LEMMA SamePeers == ASSUME PeerOK, UNCHANGED peerVars PROVE PeerOK'
BY DEF PeerOK, peerVars

LEMMA SameHub == ASSUME HubOK, UNCHANGED hubVars PROVE HubOK'
BY DEF HubOK, hubVars, Sent

LEMMA RetryTypes ==
  ASSUME HubOK, NEW m, Retry(m),
         UNCHANGED <<peers, trusts, record, to, outbox, orphaned>>
  PROVE  HubOK'
BY DEF HubOK, Retry, Sent

-----------------------------------------------------------------------------
LEMMA InitTypes == Init => TypeInv
<1> SUFFICES ASSUME Init PROVE TypeInv
  OBVIOUS
<1>1. HubOK /\ PeerOK
  BY DEF Init, HubOK, PeerOK, Sent, Kinds
<1>2. RunsOK
  BY DEF Init, RunsOK, RunRec, IdleRun, RunPC, Loose
<1>3. CallsOK
  BY NoCallType DEF Init, CallsOK
<1> QED BY <1>1, <1>2, <1>3 DEF TypeInv

LEMMA AdministerTypes ==
  ASSUME TypeInv, NEW p \in Peers,
         PeerCall(p) \/ OrgTrustCall(p) \/ AgentTrustCall(p) \/ TrustChanges(p)
  PROVE  TypeInv'
<1> USE DEF TypeInv
<1>1. CASE CreatePeer(p)
  BY <1>1, SameRuns, SameCalls, SamePeers DEF CreatePeer, HubOK, Sent
<1>2. CASE DeletePeer(p)
  BY <1>2, SameRuns, SameCalls, SamePeers DEF DeletePeer, HubOK, Sent
<1>3. ASSUME NEW kind \in Kinds, CreateRemoteTrust(p, kind) \/ DeleteRemoteTrust(p, kind)
      PROVE  TypeInv'
  BY <1>3, SameRuns, SameCalls, SamePeers
     DEF CreateRemoteTrust, DeleteRemoteTrust, HubOK, Sent
<1>4. CASE TrustChanges(p)
  <2>1. UNCHANGED <<hubVars, run, call>> /\ PeerOK' /\ to' = to
    BY <1>4 DEF TrustChanges, PeerOK, hubVars
  <2> QED BY <2>1, SameRuns, SameCalls, SameHub
<1> QED BY <1>1, <1>2, <1>3, <1>4 DEF PeerCall, OrgTrustCall, AgentTrustCall, Kinds

LEMMA PublishTypes ==
  ASSUME TypeInv, NEW r \in Publishers, NEW m \in Msgs, NEW p \in Peers,
         PublishRemote(r, m, p)
  PROVE  TypeInv'
<1> USE DEF TypeInv
<1>1. Sent' = Sent \cup {m} /\ r \in Runs
  BY DEF PublishRemote, HubOK, Sent, Runs
<1>2. HubOK'
  BY <1>1 DEF PublishRemote, HubOK
<1>3. CallsOK'
  BY <1>1 DEF PublishRemote, CallsOK
<1>4. RunsOK'
  <2> DEFINE rec == [run[r] EXCEPT !.pc = "register", !.msg = m]
  <2>1. rec \in RunRec /\ rec.batch \subseteq Sent /\ rec.msg = m
    BY <1>1 DEF RunsOK, RunRec, RunPC
  <2>2. run' = [run EXCEPT ![r] = rec]
    BY DEF PublishRemote, Hold
  <2> HIDE DEF rec
  <2> QED BY <1>1, <2>1, <2>2 DEF RunsOK
<1>5. PeerOK'
  BY SamePeers DEF PublishRemote
<1> QED BY <1>2, <1>3, <1>4, <1>5

LEMMA RunStepKeepsTypes ==
  ASSUME TypeInv, NEW r \in Runs, RunStep(r)
  PROVE  TypeInv'
<1> USE DEF TypeInv
<1>a. {"register", "enqueue", "drain", "next", "await", "delivered", "forward"} \subseteq RunPC
  BY DEF RunPC
<1>1. CASE Register(r)
  <2>1. RunsOK'
    BY <1>1, <1>a, GoTypes DEF Register, At, Loose
  <2> QED BY <1>1, <2>1, SameCalls, SamePeers DEF Register, HubOK, Sent
<1>2. CASE EnqueueOutbound(r)
  <2>1. RunsOK' /\ run[r].msg \in Sent
    BY <1>2, <1>a, GoTypes DEF EnqueueOutbound, At, Loose, RunsOK
  <2> QED BY <1>2, <2>1, SameCalls, SamePeers DEF EnqueueOutbound, HubOK, Sent
<1>3. CASE EnqueueOutboundFails(r)
  BY <1>3, IdleTypes, SameCalls, SamePeers DEF EnqueueOutboundFails, HubOK, Sent
<1>4. CASE ListDue(r)
  <2>1. PICK b \in SUBSET due :
          run' = [run EXCEPT ![r] = [IdleRun EXCEPT !.pc = "next", !.batch = b]]
    BY <1>4 DEF ListDue, Batches
  <2> DEFINE rec == [IdleRun EXCEPT !.pc = "next", !.batch = b]
  <2>2. rec \in RunRec /\ rec.batch \subseteq Sent /\ rec.pc \in Loose
    BY <1>a DEF IdleRun, RunRec, HubOK, Loose, Sent
  <2>3. to' = to /\ UNCHANGED <<hubVars, call, peerVars>>
    BY <1>4 DEF ListDue, hubVars
  <2> HIDE DEF rec
  <2>4. RunsOK'
    BY <2>1, <2>2, <2>3, RunStepTypes DEF rec
  <2> QED BY <2>3, <2>4, SameCalls, SameHub, SamePeers
<1>5. CASE Finish(r)
  BY <1>5, IdleTypes, SameCalls, SameHub, SamePeers DEF Finish, hubVars
<1>6. ASSUME NEW m \in run[r].batch, SkipGonePeer(r, m)
      PROVE  TypeInv'
  BY <1>6, <1>a, TakeFromTypes, SameCalls, SameHub, SamePeers DEF SkipGonePeer, hubVars
<1>7. ASSUME NEW m \in run[r].batch, SendFails(r, m)
      PROVE  TypeInv'
  BY <1>7, <1>a, TakeFromTypes, SameCalls, RetryTypes, SamePeers DEF SendFails
<1>8. ASSUME NEW m \in run[r].batch, NEW c \in Slots, Send(r, m, c)
      PROVE  TypeInv'
  <2> DEFINE rec == [by |-> r, msg |-> m, at |-> "sent"]
  <2>1. rec \in CallRec /\ rec.msg \in Sent
    BY DEF CallRec, RunsOK, Sent
  <2>2. call' = [call EXCEPT ![c] = rec] /\ to' = to
    BY <1>8 DEF Send, hubVars
  <2> HIDE DEF rec
  <2>3. CallsOK'
    BY <2>1, <2>2, CallStepTypes
  <2> QED BY <1>8, <1>a, <2>2, <2>3, TakeFromTypes, SameHub, SamePeers DEF Send
<1>9. ASSUME NEW c \in Slots, Refused(r, c)
      PROVE  TypeInv'
  <2>1. CallsOK'
    BY <1>9, NoCallType, CallStepTypes DEF Refused
  <2> QED BY <1>9, <1>a, <2>1, GoTypes, RetryTypes, SamePeers DEF Refused, Loose
<1>10. ASSUME NEW c \in Slots, Answered(r, c)
       PROVE  TypeInv'
  <2>1. CallsOK'
    BY <1>10, NoCallType, CallStepTypes DEF Answered
  <2>2. RunsOK'
    BY <1>10, <1>a, GoTypes DEF Answered, At, Loose
  <2> QED BY <1>10, <2>1, <2>2, SamePeers DEF Answered, HubOK, Sent
<1>11. CASE MarkDelivered(r)
  <2>1. RunsOK'
    BY <1>11, <1>a, GoTypes DEF MarkDelivered, At, Loose
  <2> QED BY <1>11, <2>1, SameCalls, SamePeers DEF MarkDelivered, HubOK, Sent
<1>12. CASE MarkForwarded(r)
  <2>1. RunsOK'
    BY <1>12, <1>a, GoTypes DEF MarkForwarded, At, Loose
  <2> QED BY <1>12, <2>1, SameCalls, SamePeers DEF MarkForwarded, HubOK, Sent
<1> QED BY <1>1, <1>2, <1>3, <1>4, <1>5, <1>6, <1>7, <1>8, <1>9, <1>10, <1>11, <1>12
        DEF RunStep

LEMMA AnswerMissedTypes ==
  ASSUME TypeInv, NEW r \in Runs, NEW c \in Slots, AnswerMissed(r, c)
  PROVE  TypeInv'
<1> USE DEF TypeInv
<1>1. CallsOK'
  <2> DEFINE rec == IF call[c].at \in {"ok", "refused"} THEN NoCall
                    ELSE [call[c] EXCEPT !.by = Nil]
  <2>1. rec \in CallRec /\ (rec.at # "free" => rec.msg \in Sent)
    <3>1. CASE call[c].at \in {"ok", "refused"}
      BY <3>1, NoCallType
    <3>2. CASE call[c].at \notin {"ok", "refused"}
      BY <3>2 DEF CallsOK, CallRec
    <3> QED BY <3>1, <3>2
  <2>2. call' = [call EXCEPT ![c] = rec] /\ to' = to
    BY DEF AnswerMissed
  <2> HIDE DEF rec
  <2> QED BY <2>1, <2>2, CallStepTypes
<1>2. RunsOK'
  <2>1. PICK late \in BOOLEAN :
          run' = [run EXCEPT ![r] = [@ EXCEPT !.pc = "next", !.expired = late]]
    BY DEF AnswerMissed
  <2> DEFINE rec == [run[r] EXCEPT !.pc = "next", !.expired = late]
  <2>2. rec \in RunRec /\ rec.batch \subseteq Sent /\ rec.pc \in Loose
    BY DEF RunsOK, RunRec, RunPC, Loose
  <2>3. run' = [run EXCEPT ![r] = rec] /\ to' = to
    BY <2>1 DEF AnswerMissed
  <2> HIDE DEF rec
  <2> QED BY <2>2, <2>3, RunStepTypes
<1> QED BY <1>1, <1>2, RetryTypes, SamePeers DEF AnswerMissed

LEMMA HandleTypes ==
  ASSUME TypeInv, NEW c \in Slots, Handle(c) \/ RequestLost(c)
  PROVE  TypeInv'
<1> USE DEF TypeInv
<1>1. CASE Refuse(c) \/ Duplicate(c)
  <2>1. to' = to /\ CallsOK'
    BY <1>1, ReplyTypes DEF Refuse, Duplicate, hubVars
  <2> QED BY <1>1, <2>1, SameRuns, SameHub, SamePeers DEF Refuse, Duplicate
<1>2. CASE Take(c)
  <2> DEFINE rec == [call[c] EXCEPT !.at = "taken"]
  <2>1. rec \in CallRec /\ rec.msg \in Sent /\ rec.msg \in Msgs /\ rec.msg = call[c].msg
    BY <1>2 DEF Take, CallsOK, CallRec, Sent
  <2>2. call' = [call EXCEPT ![c] = rec] /\ to' = to
    BY <1>2 DEF Take, hubVars, CallsOK
  <2> HIDE DEF rec
  <2>3. CallsOK'
    BY <2>1, <2>2, CallStepTypes
  <2> QED BY <1>2, <2>1, <2>2, <2>3, SameRuns, SameHub DEF Take, PeerOK
<1>3. CASE Deliver(c)
  <2>1. to' = to /\ CallsOK'
    BY <1>3, ReplyTypes DEF Deliver, hubVars
  <2>2. inbox' \in [Msgs -> Nat]
    <3>1. /\ inbox' = [inbox EXCEPT ![call[c].msg] = @ + 1]
          /\ call[c].msg \in Msgs /\ inbox[call[c].msg] \in Nat
      BY <1>3 DEF Deliver, CallsOK, Sent, PeerOK
    <3> QED BY <3>1 DEF PeerOK
  <2> QED BY <1>3, <2>1, <2>2, SameRuns, SameHub DEF Deliver, PeerOK
<1>4. CASE DeliverFails(c)
  <2>1. to' = to /\ CallsOK'
    BY <1>4, ReplyTypes DEF DeliverFails, hubVars
  <2>2. call[c].msg \in Msgs
    BY <1>4 DEF DeliverFails, CallsOK, Sent
  <2>3. PeerOK'
    BY <1>4, <2>2 DEF DeliverFails, PeerOK
  <2> QED BY <1>4, <2>1, <2>3, SameRuns, SameHub DEF DeliverFails
<1>5. CASE RequestLost(c)
  <2>1. to' = to /\ CallsOK'
    BY <1>5, NoCallType, CallStepTypes DEF RequestLost, hubVars
  <2> QED BY <1>5, <2>1, SameRuns, SameHub, SamePeers DEF RequestLost
<1> QED BY <1>1, <1>2, <1>3, <1>4, <1>5 DEF Handle

LEMMA NextTypes == TypeInv /\ [Next]_vars => TypeInv'
<1> SUFFICES ASSUME TypeInv, [Next]_vars PROVE TypeInv'
  OBVIOUS
<1>1. ASSUME NEW m \in Msgs, BackoffElapses(m) PROVE TypeInv'
  BY <1>1, SameRuns, SameCalls, SamePeers DEF BackoffElapses, TypeInv, HubOK, Sent
<1>2. CASE Kick
  <2>1. Background \in Runs /\ "drain" \in RunPC \cap Loose /\ to' = to
    BY <1>2 DEF Runs, RunPC, Loose, Kick, hubVars
  <2> QED BY <1>2, <2>1, GoTypes, SameCalls, SameHub, SamePeers DEF Kick, TypeInv
<1>3. CASE UNCHANGED vars
  BY <1>3, SameRuns, SameCalls, SameHub, SamePeers DEF vars, TypeInv, hubVars
<1> QED BY <1>1, <1>2, <1>3, AdministerTypes, PublishTypes, RunStepKeepsTypes,
           AnswerMissedTypes, HandleTypes DEF Next

(* The hub, its runs and calls and the peers stay within their types. *)
THEOREM TypeCorrect == Spec => []TypeOK
<1>1. TypeInv => TypeOK
  BY DEF TypeInv, TypeOK, HubOK, RunsOK, CallsOK, PeerOK, RunRec, CallRec, Sent
<1> QED BY <1>1, InitTypes, NextTypes, PTL DEF Spec

-----------------------------------------------------------------------------
(* Nothing of a deleted peer is left.                                      *)
LEMMA GonePeersStep ==
  ASSUME TypeInv, NothingOfGonePeers, [Next]_vars
  PROVE  NothingOfGonePeers'
<1> USE DEF NothingOfGonePeers
<1>a. HubOK /\ Nil \notin Peers /\ (\A m \in outbox : to[m] \in Peers)
  BY PeersAssumption DEF TypeInv, HubOK, Sent
<1>1. ASSUME NEW p \in Peers, PeerCall(p) \/ OrgTrustCall(p) \/ AgentTrustCall(p)
                               \/ TrustChanges(p)
      PROVE  NothingOfGonePeers'
  <2>1. CASE CreatePeer(p)
    BY <2>1 DEF CreatePeer
  <2>2. CASE DeletePeer(p)
    BY <2>2, <1>a DEF DeletePeer, HubOK
  <2>3. ASSUME NEW kind \in Kinds,
               CreateRemoteTrust(p, kind) \/ DeleteRemoteTrust(p, kind)
        PROVE  NothingOfGonePeers'
    BY <2>3, <1>a DEF CreateRemoteTrust, DeleteRemoteTrust, HubOK
  <2>4. CASE TrustChanges(p)
    BY <2>4 DEF TrustChanges, hubVars
  <2> QED BY <1>1, <2>1, <2>2, <2>3, <2>4
          DEF PeerCall, OrgTrustCall, AgentTrustCall, Kinds
<1>2. ASSUME NEW r \in Publishers, NEW m \in Msgs, NEW p \in Peers,
             PublishRemote(r, m, p)
      PROVE  NothingOfGonePeers'
  BY <1>2, <1>a DEF PublishRemote, HubOK
<1>3. ASSUME NEW m, Retry(m), UNCHANGED <<peers, trusts, to, outbox>>
      PROVE  NothingOfGonePeers'
  BY <1>3, <1>a DEF Retry, HubOK
<1>4. ASSUME UNCHANGED <<peers, trusts, to, outbox, health>> PROVE NothingOfGonePeers'
  BY <1>4
<1>5. ASSUME NEW r \in Runs, RunStep(r) PROVE NothingOfGonePeers'
  <2>1. CASE EnqueueOutbound(r)
    BY <2>1 DEF EnqueueOutbound
  <2>2. CASE MarkDelivered(r)
    BY <2>2 DEF MarkDelivered
  <2>3. ASSUME NEW c \in Slots, Answered(r, c) PROVE NothingOfGonePeers'
    BY <2>3, <1>a DEF Answered, HubOK
  <2>4. ASSUME NEW c \in Slots, Refused(r, c) PROVE NothingOfGonePeers'
    BY <2>4, <1>3 DEF Refused
  <2>5. ASSUME NEW m \in run[r].batch, SendFails(r, m) PROVE NothingOfGonePeers'
    BY <2>5, <1>3 DEF SendFails
  <2>6. CASE Register(r) \/ EnqueueOutboundFails(r) \/ MarkForwarded(r)
    BY <2>6, <1>4 DEF Register, EnqueueOutboundFails, MarkForwarded
  <2>7. ASSUME UNCHANGED hubVars PROVE NothingOfGonePeers'
    BY <2>7, <1>4 DEF hubVars
  <2> QED BY <1>5, <2>1, <2>2, <2>3, <2>4, <2>5, <2>6, <2>7
          DEF RunStep, ListDue, Finish, SkipGonePeer, Send
<1>6. ASSUME NEW r \in Runs, NEW c \in Slots, AnswerMissed(r, c)
      PROVE  NothingOfGonePeers'
  BY <1>6, <1>3 DEF AnswerMissed
<1>7. CASE Kick \/ UNCHANGED vars
  BY <1>7, <1>4 DEF Kick, vars, hubVars
<1>8. ASSUME NEW m \in Msgs, BackoffElapses(m) PROVE NothingOfGonePeers'
  BY <1>8, <1>4 DEF BackoffElapses
<1>9. ASSUME NEW c \in Slots, Handle(c) \/ RequestLost(c) PROVE NothingOfGonePeers'
  BY <1>9, <1>4 DEF Handle, RequestLost, Refuse, Take, Duplicate, Deliver, DeliverFails,
                    hubVars
<1> QED BY <1>1, <1>2, <1>5, <1>6, <1>7, <1>8, <1>9 DEF Next

(* The outbounds and trusts of a peer go with it, whatever the runs that   *)
(* copied them are doing (DeletePeerInstance).                             *)
THEOREM GonePeersLeaveNothing == Spec => []NothingOfGonePeers
<1>1. Init => NothingOfGonePeers
  BY DEF Init, NothingOfGonePeers
<1> QED BY <1>1, InitTypes, NextTypes, GonePeersStep, PTL DEF Spec

-----------------------------------------------------------------------------
(* What keeps a message from being queued twice: the record a peer makes   *)
(* before it queues a message, held by one call until it has queued it.    *)
Handling(c) == call[c].at = "taken"

(* How often a message was put in the queue by calls that failed.          *)
Early(m) == IF m \in misreported THEN 1 ELSE 0

TakenOnce ==
  /\ misreported \subseteq QueueFails
  /\ \A c \in Slots : Handling(c) =>
       call[c].msg \in taken /\ inbox[call[c].msg] <= Early(call[c].msg)
  /\ \A c, d \in Slots :
       Handling(c) /\ Handling(d) /\ call[c].msg = call[d].msg => c = d
  /\ \A m \in Msgs \ taken : inbox[m] <= Early(m)
  /\ AtMostOnce

(* A step after which every call in the middle of handling was so before.  *)
LEMMA TakenOnceKept ==
  ASSUME TakenOnce, taken' = taken, inbox' = inbox, misreported' = misreported,
         \A c \in Slots : call'[c].at = "taken" =>
           call[c].at = "taken" /\ call'[c].msg = call[c].msg
  PROVE  TakenOnce'
BY DEF TakenOnce, Handling, AtMostOnce, Early

LEMMA ReplyKeeps ==
  ASSUME CallsOK, NEW c \in Slots, NEW ans \in {"ok", "refused"}, Reply(c, ans)
  PROVE  /\ call'[c].at # "taken"
         /\ \A d \in Slots \ {c} : call'[d] = call[d]
BY DEF Reply, CallsOK, CallRec, NoCall

LEMMA TakenOnceStep ==
  ASSUME TypeInv, TakenOnce, [Next]_vars
  PROVE  TakenOnce'
<1>a. CallsOK /\ PeerOK
  BY DEF TypeInv
<1>1. ASSUME UNCHANGED <<call, taken, inbox, misreported>> PROVE TakenOnce'
  BY <1>1, TakenOnceKept
<1>2. ASSUME NEW p \in Peers, PeerCall(p) \/ OrgTrustCall(p) \/ AgentTrustCall(p)
                               \/ TrustChanges(p)
      PROVE  TakenOnce'
  BY <1>2, <1>1 DEF PeerCall, OrgTrustCall, AgentTrustCall, CreatePeer, DeletePeer,
       CreateRemoteTrust, DeleteRemoteTrust, TrustChanges, peerVars
<1>3. ASSUME NEW r \in Publishers, NEW m \in Msgs, NEW p \in Peers,
             PublishRemote(r, m, p)
      PROVE  TakenOnce'
  BY <1>3, <1>1 DEF PublishRemote, peerVars
<1>4. ASSUME NEW r \in Runs, RunStep(r) PROVE TakenOnce'
  <2>1. ASSUME NEW m \in run[r].batch, NEW c \in Slots, Send(r, m, c)
        PROVE  TakenOnce'
    <3>1. \A d \in Slots : call'[d].at = "taken" => call'[d] = call[d]
      BY <2>1, <1>a DEF Send, CallsOK
    <3> QED BY <2>1, <3>1, TakenOnceKept DEF Send, peerVars
  <2>2. ASSUME NEW c \in Slots, Refused(r, c) \/ Answered(r, c)
        PROVE  TakenOnce'
    <3>1. \A d \in Slots : call'[d].at = "taken" => call'[d] = call[d]
      BY <2>2, <1>a, NoCallType DEF Refused, Answered, CallsOK
    <3> QED BY <2>2, <3>1, TakenOnceKept DEF Refused, Answered, peerVars
  <2> QED BY <1>1, <1>4, <2>1, <2>2 DEF RunStep, Register, EnqueueOutbound,
        EnqueueOutboundFails, ListDue, Finish, SkipGonePeer, SendFails, MarkDelivered,
        MarkForwarded, peerVars
<1>5. ASSUME NEW r \in Runs, NEW c \in Slots, AnswerMissed(r, c)
      PROVE  TakenOnce'
  <2>1. \A d \in Slots : call'[d].at = "taken" =>
          call[d].at = "taken" /\ call'[d].msg = call[d].msg
    BY <1>5, <1>a, NoCallType DEF AnswerMissed, CallsOK, CallRec
  <2> QED BY <1>5, <2>1, TakenOnceKept DEF AnswerMissed, peerVars
<1>6. ASSUME NEW c \in Slots, Take(c) PROVE TakenOnce'
  <2>1. /\ call'[c].at = "taken" /\ call'[c].msg = call[c].msg /\ call[c].msg \in Msgs
        /\ \A d \in Slots \ {c} : call'[d] = call[d]
    BY <1>6, <1>a DEF Take, CallsOK, CallRec, Sent
  <2>2. /\ inbox' = inbox /\ misreported' = misreported
        /\ taken' = taken \cup {call[c].msg} /\ call[c].msg \notin taken
    BY <1>6 DEF Take
  <2> QED BY <2>1, <2>2 DEF TakenOnce, Handling, AtMostOnce, Early
<1>7. ASSUME NEW c \in Slots, Deliver(c) PROVE TakenOnce'
  <2>1. /\ call'[c].at # "taken" /\ \A d \in Slots \ {c} : call'[d] = call[d]
    BY <1>7, <1>a, ReplyKeeps DEF Deliver
  <2>2. /\ call[c].msg \in taken \cap Msgs /\ inbox[call[c].msg] <= Early(call[c].msg)
        /\ taken' = taken /\ inbox' = [inbox EXCEPT ![call[c].msg] = @ + 1]
        /\ misreported' = misreported
    BY <1>7, <1>a DEF Deliver, TakenOnce, Handling, PeerOK
  <2>3. /\ inbox'[call[c].msg] <= 1 + Early(call[c].msg)
        /\ \A m \in Msgs \ {call[c].msg} : inbox'[m] = inbox[m]
    BY <2>2, <1>a DEF PeerOK, Early
  <2>4. \A d \in Slots \ {c} : Handling(d) => call[d].msg # call[c].msg
                                              /\ call[d].msg \in Msgs
    BY <1>7, <1>a DEF Deliver, TakenOnce, Handling, PeerOK
  <2> QED BY <2>1, <2>2, <2>3, <2>4 DEF TakenOnce, Handling, AtMostOnce, Early
<1>8. ASSUME NEW c \in Slots, DeliverFails(c) PROVE TakenOnce'
  <2>1. /\ call'[c].at # "taken" /\ \A d \in Slots \ {c} : call'[d] = call[d]
    BY <1>8, <1>a, ReplyKeeps DEF DeliverFails
  <2>2. /\ call[c].msg \in taken \cap Msgs \cap QueueFails
        /\ inbox[call[c].msg] <= Early(call[c].msg) /\ taken' = taken \ {call[c].msg}
    BY <1>8, <1>a DEF DeliverFails, TakenOnce, Handling, PeerOK
  <2>3. \A d \in Slots \ {c} : Handling(d) => call[d].msg # call[c].msg
                                              /\ call[d].msg \in Msgs
    BY <1>8, <1>a DEF DeliverFails, TakenOnce, Handling, PeerOK
  <2>4. CASE inbox' = inbox /\ misreported' = misreported
    BY <2>1, <2>2, <2>3, <2>4 DEF TakenOnce, Handling, AtMostOnce, Early
  <2>5. CASE /\ call[c].msg \notin misreported
             /\ misreported' = misreported \cup {call[c].msg}
             /\ inbox' = [inbox EXCEPT ![call[c].msg] = @ + 1]
    <3>1. /\ inbox'[call[c].msg] <= 1
          /\ \A m \in Msgs \ {call[c].msg} : inbox'[m] = inbox[m]
      BY <1>a, <2>2, <2>5 DEF PeerOK, Early
    <3> DEFINE m == call[c].msg
               late(n) == IF n \in misreported' THEN 1 ELSE 0
    <3>2. late(m) = 1 /\ \A n \in Msgs \ {m} : late(n) = Early(n)
      BY <2>5 DEF Early
    <3>3. \A n \in Msgs \ {m} : /\ n \in taken' <=> n \in taken
                              /\ inbox'[n] <= 1 + late(n)
      BY <2>2, <3>1, <3>2 DEF TakenOnce, AtMostOnce, Early
    <3>4. inbox'[m] <= 1 /\ m \in misreported' /\ m \notin taken' /\ m \in Msgs
      BY <2>2, <2>5, <3>1
    <3>5. \A n \in Msgs : inbox'[n] <= IF n \in misreported' THEN 2 ELSE 1
      <4>1. inbox'[m] \in Nat
        BY <1>a, <2>2, <2>5 DEF PeerOK
      <4> QED BY <3>3, <3>4, <4>1
    <3>6. \A n \in Msgs \ taken' : inbox'[n] <= late(n)
      BY <3>1, <3>2, <3>3, <3>4 DEF TakenOnce
    <3>7. \A d \in Slots : Handling(d)' =>
            /\ d # c /\ Handling(d) /\ call'[d].msg = call[d].msg
            /\ call[d].msg \in Msgs \ {m}
      BY <2>1, <2>3 DEF Handling
    <3>8. \A d \in Slots : Handling(d)' =>
            call'[d].msg \in taken' /\ inbox'[call'[d].msg] <= late(call'[d].msg)
      BY <3>1, <3>2, <3>3, <3>7 DEF TakenOnce
    <3>9. misreported' \subseteq QueueFails
      BY <2>2, <2>5 DEF TakenOnce
    <3>10. \A d, e \in Slots :
             Handling(d)' /\ Handling(e)' /\ call'[d].msg = call'[e].msg => d = e
      BY <3>7 DEF TakenOnce
    <3> HIDE DEF m
    <3> QED BY <3>5, <3>6, <3>8, <3>9, <3>10 DEF TakenOnce, AtMostOnce, Early
  <2> QED BY <1>8, <2>4, <2>5 DEF DeliverFails
<1>9. ASSUME NEW c \in Slots, Refuse(c) \/ Duplicate(c) \/ RequestLost(c)
      PROVE  TakenOnce'
  <2>1. \A d \in Slots : call'[d].at = "taken" => call'[d] = call[d]
    BY <1>9, <1>a, ReplyKeeps, NoCallType DEF Refuse, Duplicate, RequestLost, CallsOK
  <2> QED BY <1>9, <2>1, TakenOnceKept DEF Refuse, Duplicate, RequestLost, peerVars
<1>10. CASE Kick \/ (\E m \in Msgs : BackoffElapses(m)) \/ UNCHANGED vars
  BY <1>10, <1>1 DEF Kick, BackoffElapses, vars, peerVars
<1> QED BY <1>2, <1>3, <1>4, <1>5, <1>6, <1>7, <1>8, <1>9, <1>10 DEF Next, Handle

(* However often a message is sent again, its receiver's queue gets it at  *)
(* most once, also where the queue may refuse it, and once more only when  *)
(* a put that was done is reported failed.                                 *)
THEOREM QueuedAtMostOnce == Spec => []AtMostOnce
<1>1. Init => TakenOnce
  BY DEF Init, TakenOnce, AtMostOnce, Handling, NoCall, Early
<1>2. TakenOnce => AtMostOnce
  BY DEF TakenOnce
<1> QED BY <1>1, <1>2, InitTypes, NextTypes, TakenOnceStep, PTL DEF Spec

-----------------------------------------------------------------------------
(* What makes federation a channel: a message is sent only once its record *)
(* is there, and an answer "ok" is given only for a message that was taken.*)
Working == {"await", "delivered", "forward"}

(* Nothing of a message has left the publish that is to queue it.          *)
Untouched(m) ==
  /\ m \notin outbox \cup taken
  /\ \A r \in Runs : /\ m \notin run[r].batch
                     /\ run[r].pc \in Working => run[r].msg # m
  /\ \A c \in Slots : call[c].at # "free" => call[c].msg # m

Publishing(r) == run[r].pc \in {"register", "enqueue"}

PublishedOnce ==
  /\ \A m \in Msgs : to[m] = Nil => record[m] = "none"
  /\ \A m \in Msgs : record[m] = "none" => Untouched(m)
  /\ \A r \in Runs : Publishing(r) =>
       /\ Untouched(run[r].msg)
       /\ record[run[r].msg] = IF At(r, "register") THEN "none" ELSE "queued"
  /\ \A r, s \in Runs :
       Publishing(r) /\ Publishing(s) /\ run[r].msg = run[s].msg => r = s

(* A call belongs to the one run that waits for it.                        *)
CallsAwaited ==
  /\ \A c \in Slots : call[c].by # Nil =>
       /\ call[c].at # "free"
       /\ At(call[c].by, "await") /\ run[call[c].by].msg = call[c].msg
  /\ \A c, d \in Slots : call[c].by # Nil /\ call[c].by = call[d].by => c = d

(* A message whose call was answered "ok" is at the peer.                  *)
OkIsTaken ==
  /\ \A c \in Slots : call[c].at = "ok" => call[c].msg \in taken \cup QueueFails
  /\ \A r \in Runs : run[r].pc \in {"delivered", "forward"} =>
       run[r].msg \in taken \cup QueueFails

(* A message at the peer is queued there or held by a handler.             *)
TakenArrives ==
  \A m \in taken \ QueueFails :
    inbox[m] = 1 \/ \E c \in Slots : Handling(c) /\ call[c].msg = m

(* A message reported forwarded is at the peer.                            *)
ForwardedAtPeer ==
  \A m \in Msgs : record[m] = "forwarded" => m \in taken \cup QueueFails

ChannelInv ==
  /\ TypeInv /\ TakenOnce
  /\ PublishedOnce /\ CallsAwaited /\ OkIsTaken /\ ForwardedAtPeer

-----------------------------------------------------------------------------
(* What a step does to the runs and to the calls. *)
OthersRun(r)  == \A s \in Runs \ {r} : run'[s] = run[s]
OthersCall(c) == \A d \in Slots \ {c} : call'[d] = call[d]

LEMMA RunBecomes ==
  ASSUME RunsOK, NEW r \in Runs, NEW rec, run' = [run EXCEPT ![r] = rec]
  PROVE  OthersRun(r) /\ run'[r] = rec
BY DEF RunsOK, OthersRun

LEMMA GoEffect ==
  ASSUME RunsOK, NEW r \in Runs, NEW pc, Go(r, pc)
  PROVE  /\ OthersRun(r) /\ run'[r].pc = pc
         /\ run'[r].msg = run[r].msg /\ run'[r].batch = run[r].batch
BY DEF Go, RunsOK, RunRec, OthersRun

LEMMA HoldEffect ==
  ASSUME RunsOK, NEW r \in Runs, NEW pc, NEW m, Hold(r, pc, m)
  PROVE  /\ OthersRun(r) /\ run'[r].pc = pc
         /\ run'[r].msg = m /\ run'[r].batch = run[r].batch
BY DEF Hold, RunsOK, RunRec, OthersRun

LEMMA TakeFromEffect ==
  ASSUME RunsOK, NEW r \in Runs, NEW pc, NEW m, TakeFrom(r, m, pc)
  PROVE  /\ OthersRun(r) /\ run'[r].pc = pc
         /\ run'[r].msg = m /\ run'[r].batch = run[r].batch \ {m}
BY DEF TakeFrom, RunsOK, RunRec, OthersRun

LEMMA MissedEffect ==
  ASSUME RunsOK, CallsOK, NEW r \in Runs, NEW c \in Slots, AnswerMissed(r, c)
  PROVE  /\ OthersRun(r) /\ run'[r].pc = "next"
         /\ run'[r].msg = run[r].msg /\ run'[r].batch = run[r].batch
         /\ OthersCall(c) /\ call'[c].by = Nil
         /\ \/ call[c].at \in {"ok", "refused"} /\ call'[c] = NoCall
            \/ /\ call[c].at \notin {"ok", "refused"}
               /\ call'[c].at = call[c].at /\ call'[c].msg = call[c].msg
<1>1. PICK late \in BOOLEAN :
        run' = [run EXCEPT ![r] = [@ EXCEPT !.pc = "next", !.expired = late]]
  BY DEF AnswerMissed
<1>2. /\ OthersRun(r) /\ run'[r].pc = "next"
      /\ run'[r].msg = run[r].msg /\ run'[r].batch = run[r].batch
  BY <1>1 DEF RunsOK, RunRec, OthersRun
<1>3. call' = [call EXCEPT ![c] = IF @.at \in {"ok", "refused"} THEN NoCall
                                  ELSE [@ EXCEPT !.by = Nil]]
  BY DEF AnswerMissed
<1> QED BY <1>2, <1>3 DEF CallsOK, CallRec, OthersCall, NoCall

LEMMA ReplyEffect ==
  ASSUME CallsOK, NEW c \in Slots, NEW ans, Reply(c, ans)
  PROVE  /\ OthersCall(c) /\ call'[c].by = call[c].by
         /\ \/ call[c].by = Nil /\ call'[c] = NoCall
            \/ /\ call[c].by # Nil
               /\ call'[c].at = ans /\ call'[c].msg = call[c].msg
BY DEF Reply, CallsOK, CallRec, OthersCall, NoCall

LEMMA TakeEffect ==
  ASSUME CallsOK, NEW c \in Slots, Take(c)
  PROVE  /\ OthersCall(c) /\ call'[c].at = "taken"
         /\ call'[c].by = call[c].by /\ call'[c].msg = call[c].msg
         /\ call[c].msg \in Msgs
BY DEF Take, CallsOK, CallRec, OthersCall, Sent

LEMMA CallBecomes ==
  ASSUME CallsOK, NEW c \in Slots, NEW rec, call' = [call EXCEPT ![c] = rec]
  PROVE  OthersCall(c) /\ call'[c] = rec
BY DEF CallsOK, OthersCall

(* What a drain lists is in the outbox.                                    *)
LEMMA ListEffect ==
  ASSUME TypeInv, NEW r \in Runs, ListDue(r)
  PROVE  OthersRun(r) /\ run'[r].pc = "next" /\ run'[r].batch \subseteq outbox
<1>1. PICK b \in SUBSET due :
        run' = [run EXCEPT ![r] = [IdleRun EXCEPT !.pc = "next", !.batch = b]]
  BY DEF ListDue, Batches
<1>2. RunsOK /\ due \subseteq outbox
  BY DEF TypeInv, HubOK
<1>3. OthersRun(r) /\ run'[r] = [IdleRun EXCEPT !.pc = "next", !.batch = b]
  BY <1>1, <1>2, RunBecomes
<1> QED BY <1>2, <1>3 DEF IdleRun

-----------------------------------------------------------------------------
(* A message nothing has left the publish of stays so until it is queued.  *)
LEMMA UntouchedBy ==
  ASSUME NEW m, Untouched(m), outbox' \subseteq outbox, taken' \subseteq taken,
         \A r \in Runs : /\ m \notin run'[r].batch
                         /\ run'[r].pc \in Working => run'[r].msg # m,
         \A c \in Slots : call'[c].at # "free" => call'[c].msg # m
  PROVE  Untouched(m)'
BY DEF Untouched

(* ... by a step that changes one run,                                     *)
LEMMA UntouchedByRun ==
  ASSUME NEW m, Untouched(m), outbox' \subseteq outbox, taken' = taken, call' = call,
         NEW r \in Runs, OthersRun(r), m \notin run'[r].batch,
         run'[r].pc \in Working => run'[r].msg # m
  PROVE  Untouched(m)'
<1>1. \A s \in Runs : /\ m \notin run'[s].batch
                      /\ run'[s].pc \in Working => run'[s].msg # m
  BY DEF OthersRun, Untouched
<1>2. \A c \in Slots : call'[c].at # "free" => call'[c].msg # m
  BY DEF Untouched
<1> QED BY <1>1, <1>2, UntouchedBy

(* ... by one that changes one call,                                       *)
LEMMA UntouchedByCall ==
  ASSUME NEW m, Untouched(m), outbox' \subseteq outbox, taken' \subseteq taken, run' = run,
         NEW c \in Slots, OthersCall(c), call'[c].at # "free" => call'[c].msg # m
  PROVE  Untouched(m)'
<1>1. \A s \in Runs : /\ m \notin run'[s].batch
                      /\ run'[s].pc \in Working => run'[s].msg # m
  BY DEF Untouched
<1>2. \A d \in Slots : call'[d].at # "free" => call'[d].msg # m
  BY DEF OthersCall, Untouched
<1> QED BY <1>1, <1>2, UntouchedBy

LEMMA UntouchedByRunStep ==
  ASSUME TypeInv, NEW r \in Runs, RunStep(r), NEW m, Untouched(m),
         EnqueueOutbound(r) => run[r].msg # m
  PROVE  Untouched(m)'
<1>t. RunsOK /\ CallsOK
  BY DEF TypeInv
<1>u. /\ m \notin run[r].batch /\ (run[r].pc \in Working => run[r].msg # m)
      /\ m \notin outbox /\ m \notin taken
      /\ \A c \in Slots : call[c].at # "free" => call[c].msg # m
  BY DEF Untouched
<1>1. CASE Register(r)
  <2>1. OthersRun(r) /\ run'[r].batch = run[r].batch /\ run'[r].pc \notin Working
    BY <1>1, <1>t, GoEffect DEF Register, Working
  <2> QED BY <1>1, <1>u, <2>1, UntouchedByRun DEF Register, peerVars
<1>2. CASE EnqueueOutbound(r)
  <2>1. OthersRun(r) /\ run'[r].batch = run[r].batch /\ run'[r].pc \notin Working
    BY <1>2, <1>t, GoEffect DEF EnqueueOutbound, Working
  <2>2. m \notin outbox' /\ taken' = taken /\ call' = call
    BY <1>2, <1>u DEF EnqueueOutbound, peerVars
  <2> QED BY <1>u, <2>1, <2>2 DEF Untouched, OthersRun
<1>3. CASE EnqueueOutboundFails(r) \/ Finish(r)
  <2>1. run' = [run EXCEPT ![r] = IdleRun]
    BY <1>3 DEF EnqueueOutboundFails, Finish
  <2>2. OthersRun(r) /\ run'[r].batch = {} /\ run'[r].pc \notin Working
    <3>1. OthersRun(r) /\ run'[r] = IdleRun
      BY <1>t, <2>1, RunBecomes
    <3> QED BY <3>1 DEF IdleRun, Working
  <2> QED BY <1>3, <2>2, UntouchedByRun DEF EnqueueOutboundFails, Finish, peerVars, hubVars
<1>4. CASE ListDue(r)
  <2>1. OthersRun(r) /\ run'[r].pc \notin Working /\ m \notin run'[r].batch
    BY <1>4, <1>u, ListEffect DEF Working
  <2> QED BY <1>4, <2>1, UntouchedByRun DEF ListDue, hubVars, peerVars
<1>5. ASSUME NEW n \in run[r].batch, SkipGonePeer(r, n) \/ SendFails(r, n)
      PROVE  Untouched(m)'
  <2>1. /\ OthersRun(r) /\ run'[r].pc \notin Working
        /\ run'[r].batch = run[r].batch \ {n}
    BY <1>5, <1>t, TakeFromEffect DEF SkipGonePeer, SendFails, Working
  <2> QED BY <1>5, <1>u, <2>1, UntouchedByRun DEF SkipGonePeer, SendFails, hubVars, peerVars
<1>6. ASSUME NEW n \in run[r].batch, NEW c \in Slots, Send(r, n, c)
      PROVE  Untouched(m)'
  <2>1. OthersRun(r) /\ run'[r].msg = n /\ run'[r].batch = run[r].batch \ {n}
    BY <1>6, <1>t, TakeFromEffect DEF Send
  <2>2. OthersCall(c) /\ call'[c].msg = n
    <3>1. call' = [call EXCEPT ![c] = [by |-> r, msg |-> n, at |-> "sent"]]
      BY <1>6 DEF Send
    <3> QED BY <1>t, <3>1 DEF CallsOK, OthersCall
  <2>3. n # m
    BY <1>u
  <2>4. \A s \in Runs : /\ m \notin run'[s].batch
                        /\ run'[s].pc \in Working => run'[s].msg # m
    BY <2>1, <2>3 DEF OthersRun, Untouched
  <2>5. \A d \in Slots : call'[d].at # "free" => call'[d].msg # m
    BY <2>2, <2>3 DEF OthersCall, Untouched
  <2> QED BY <1>6, <2>4, <2>5, UntouchedBy DEF Send, hubVars, peerVars
<1>7. ASSUME NEW c \in Slots, Refused(r, c) \/ Answered(r, c)
      PROVE  Untouched(m)'
  <2>1. /\ OthersRun(r) /\ run'[r].msg = run[r].msg /\ run'[r].batch = run[r].batch
        /\ run[r].msg # m
    BY <1>7, <1>t, <1>u, GoEffect DEF Refused, Answered, At, Working
  <2>2. OthersCall(c) /\ call'[c] = NoCall
    BY <1>7, <1>t, CallBecomes DEF Refused, Answered
  <2>4. \A s \in Runs : /\ m \notin run'[s].batch
                        /\ run'[s].pc \in Working => run'[s].msg # m
    BY <2>1 DEF OthersRun, Untouched
  <2>5. \A d \in Slots : call'[d].at # "free" => call'[d].msg # m
    BY <2>2, NoCallType DEF OthersCall, Untouched
  <2> QED BY <1>7, <2>4, <2>5, UntouchedBy DEF Refused, Answered, peerVars
<1>8. CASE MarkDelivered(r) \/ MarkForwarded(r)
  <2>1. /\ OthersRun(r) /\ run'[r].msg = run[r].msg /\ run'[r].batch = run[r].batch
        /\ run[r].msg # m
    BY <1>8, <1>t, <1>u, GoEffect DEF MarkDelivered, MarkForwarded, At, Working
  <2> QED BY <1>8, <1>u, <2>1, UntouchedByRun DEF MarkDelivered, MarkForwarded, peerVars
<1> QED BY <1>1, <1>2, <1>3, <1>4, <1>5, <1>6, <1>7, <1>8 DEF RunStep

LEMMA UntouchedStays ==
  ASSUME TypeInv, [Next]_vars, NEW m, Untouched(m),
         \A r \in Runs : EnqueueOutbound(r) => run[r].msg # m
  PROVE  Untouched(m)'
<1>t. RunsOK /\ CallsOK
  BY DEF TypeInv
<1>u. \A c \in Slots : call[c].at # "free" => call[c].msg # m
  BY DEF Untouched
<1>0. ASSUME UNCHANGED <<taken, run, call>>, outbox' \subseteq outbox
      PROVE  Untouched(m)'
  BY <1>0 DEF Untouched
<1>1. ASSUME NEW p \in Peers, PeerCall(p) \/ OrgTrustCall(p) \/ AgentTrustCall(p)
                               \/ TrustChanges(p)
      PROVE  Untouched(m)'
  BY <1>0, <1>1 DEF PeerCall, OrgTrustCall, AgentTrustCall, CreatePeer, DeletePeer,
     CreateRemoteTrust, DeleteRemoteTrust, TrustChanges, hubVars, peerVars
<1>2. ASSUME NEW r \in Publishers, NEW n \in Msgs, NEW p \in Peers,
             PublishRemote(r, n, p)
      PROVE  Untouched(m)'
  <2>1. r \in Runs
    BY DEF Runs
  <2>2. OthersRun(r) /\ run'[r].pc \notin Working /\ run'[r].batch = run[r].batch
    BY <1>2, <1>t, <2>1, HoldEffect DEF PublishRemote, Working
  <2> QED BY <1>2, <2>1, <2>2, UntouchedByRun DEF PublishRemote, peerVars, Untouched
<1>3. CASE Kick
  <2>1. Background \in Runs
    BY DEF Runs
  <2>2. /\ OthersRun(Background) /\ run'[Background].pc \notin Working
        /\ run'[Background].batch = run[Background].batch
    BY <1>3, <1>t, <2>1, GoEffect DEF Kick, Working
  <2> QED BY <1>3, <2>1, <2>2, UntouchedByRun DEF Kick, hubVars, peerVars, Untouched
<1>4. ASSUME NEW r \in Runs, NEW c \in Slots, AnswerMissed(r, c)
      PROVE  Untouched(m)'
  <2>1. /\ OthersRun(r) /\ run'[r].pc \notin Working /\ run'[r].batch = run[r].batch
        /\ OthersCall(c) /\ (call'[c].at # "free" => call'[c].msg # m)
    BY <1>4, <1>t, <1>u, MissedEffect, NoCallType DEF Working
  <2>2. \A s \in Runs : /\ m \notin run'[s].batch
                        /\ run'[s].pc \in Working => run'[s].msg # m
    BY <2>1 DEF OthersRun, Untouched
  <2>3. \A d \in Slots : call'[d].at # "free" => call'[d].msg # m
    BY <2>1 DEF OthersCall, Untouched
  <2> QED BY <1>4, <2>2, <2>3, UntouchedBy DEF AnswerMissed, peerVars
<1>5. ASSUME NEW c \in Slots, Handle(c) \/ RequestLost(c)
      PROVE  Untouched(m)'
  <2>1. call[c].at # "free" /\ call[c].msg # m
    BY <1>5, <1>u DEF Handle, Refuse, Take, Duplicate, Deliver, DeliverFails, RequestLost
  <2>2. OthersCall(c) /\ (call'[c].at # "free" => call'[c].msg # m)
    BY <1>5, <1>t, <2>1, ReplyEffect, TakeEffect, CallBecomes, NoCallType
       DEF Handle, Refuse, Take, Duplicate, Deliver, DeliverFails, RequestLost
  <2>3. outbox' = outbox /\ run' = run /\ m \notin taken'
    BY <1>5, <2>1 DEF Handle, Refuse, Take, Duplicate, Deliver, DeliverFails,
       RequestLost, hubVars, peerVars, Untouched
  <2> QED BY <2>2, <2>3 DEF Untouched, OthersCall
<1>6. CASE (\E n \in Msgs : BackoffElapses(n)) \/ UNCHANGED vars
  BY <1>0, <1>6 DEF BackoffElapses, vars, hubVars, peerVars
<1> QED BY <1>1, <1>2, <1>3, <1>4, <1>5, <1>6, UntouchedByRunStep DEF Next

-----------------------------------------------------------------------------
(* A message is registered by one publish, before anything is sent.        *)

(* A step of run r that leaves the others and the peers' addresses alone,  *)
(* and the record of every message but the one r had in hand.              *)
LEMMA PublishedOnceKept ==
  ASSUME RunsOK, PublishedOnce, NEW r \in Runs, OthersRun(r), to' = to,
         run'[r].pc \notin {"register", "enqueue"},
         \A m \in Msgs : Untouched(m) =>
           \/ Untouched(m)'
           \/ Publishing(r) /\ m = run[r].msg /\ record'[m] # "none",
         \A m \in Msgs :
           \/ record'[m] = record[m]
           \/ record[m] # "none" /\ record'[m] # "none" /\ ~Untouched(m)
           \/ Publishing(r) /\ m = run[r].msg
  PROVE  PublishedOnce'
<1>0. \A s \in Runs : Publishing(s) =>
        /\ run[s].msg \in Msgs /\ to[run[s].msg] # Nil
        /\ Untouched(run[s].msg)
  BY PeersAssumption DEF Publishing, PublishedOnce, RunsOK, Loose, Sent
<1>1. \A s \in Runs : Publishing(s)' =>
        /\ s # r /\ Publishing(s) /\ run'[s] = run[s]
        /\ Publishing(r) => run[s].msg # run[r].msg
  BY DEF Publishing, OthersRun, PublishedOnce
<1>2. \A m \in Msgs : to'[m] = Nil => record'[m] = "none"
  BY <1>0 DEF PublishedOnce
<1>3. \A m \in Msgs : record'[m] = "none" => Untouched(m)'
  BY <1>0 DEF PublishedOnce
<1>4. ASSUME NEW s \in Runs, Publishing(s)'
      PROVE  /\ Untouched(run[s].msg)'
             /\ record'[run'[s].msg] = IF At(s, "register")' THEN "none" ELSE "queued"
  BY <1>0, <1>1, <1>4 DEF PublishedOnce, At
<1>5. \A s, u \in Runs :
        Publishing(s)' /\ Publishing(u)' /\ run'[s].msg = run'[u].msg => s = u
  BY <1>1 DEF PublishedOnce
<1> QED BY <1>2, <1>3, <1>4, <1>5 DEF PublishedOnce

LEMMA PublishedOnceSame ==
  ASSUME PublishedOnce, run' = run, to' = to, record' = record,
         RunsOK, \A m \in Msgs : Untouched(m) => Untouched(m)'
  PROVE  PublishedOnce'
<1>1. \A r \in Runs : Publishing(r) => run[r].msg \in Msgs
  BY DEF RunsOK, Publishing, Loose, Sent
<1> QED BY <1>1 DEF PublishedOnce, Publishing, At

LEMMA PublishRemotePublishes ==
  ASSUME TypeInv, PublishedOnce, NEW r \in Publishers, NEW n \in Msgs, NEW p \in Peers,
         PublishRemote(r, n, p), \A m \in Msgs : Untouched(m) => Untouched(m)'
  PROVE  PublishedOnce'
<1>1. r \in Runs /\ RunsOK /\ to \in [Msgs -> Peers \cup {Nil}]
  BY DEF Runs, TypeInv, HubOK
<1>2. /\ OthersRun(r) /\ run'[r].pc = "register" /\ run'[r].msg = n
      /\ record[n] = "none" /\ to[n] = Nil /\ record' = record
      /\ to' = [to EXCEPT ![n] = p]
  BY <1>1, HoldEffect DEF PublishRemote
<1>3. \A s \in Runs \ {r} : Publishing(s)' =>
        /\ Publishing(s) /\ run'[s] = run[s]
        /\ run[s].msg \in Msgs /\ run[s].msg # n /\ Untouched(run[s].msg)
  BY <1>1, <1>2, PeersAssumption DEF Publishing, PublishedOnce, OthersRun, RunsOK, Loose, Sent
<1>4. \A m \in Msgs : to'[m] = Nil => record'[m] = "none"
  BY <1>1, <1>2, PeersAssumption DEF PublishedOnce
<1>5. \A m \in Msgs : record'[m] = "none" => Untouched(m)'
  BY <1>2 DEF PublishedOnce
<1>6. ASSUME NEW s \in Runs, Publishing(s)'
      PROVE  /\ Untouched(run[s].msg)'
             /\ record'[run'[s].msg] = IF At(s, "register")' THEN "none" ELSE "queued"
  <2>1. CASE s = r
    BY <1>2, <1>5, <2>1 DEF At
  <2>2. CASE s # r
    BY <1>2, <1>3, <1>6, <2>2 DEF PublishedOnce, At
  <2> QED BY <2>1, <2>2
<1>7. \A s, u \in Runs :
        Publishing(s)' /\ Publishing(u)' /\ run'[s].msg = run'[u].msg => s = u
  BY <1>2, <1>3 DEF PublishedOnce
<1> QED BY <1>4, <1>5, <1>6, <1>7 DEF PublishedOnce

LEMMA RegisterPublishes ==
  ASSUME TypeInv, PublishedOnce, NEW r \in Runs, Register(r),
         \A m \in Msgs : Untouched(m) => Untouched(m)'
  PROVE  PublishedOnce'
<1>1. RunsOK /\ record \in [Msgs -> {"none", "queued", "forwarded"}]
  BY DEF TypeInv, HubOK
<1>2. /\ OthersRun(r) /\ run'[r].pc = "enqueue" /\ run'[r].msg = run[r].msg
      /\ record' = [record EXCEPT ![run[r].msg] = "queued"] /\ to' = to
      /\ Publishing(r) /\ run[r].msg \in Msgs /\ to[run[r].msg] # Nil
      /\ Untouched(run[r].msg)
  BY <1>1, GoEffect, PeersAssumption
     DEF Register, Publishing, At, RunsOK, Loose, Sent, PublishedOnce
<1>3. \A s \in Runs \ {r} : Publishing(s)' =>
        /\ Publishing(s) /\ run'[s] = run[s]
        /\ run[s].msg \in Msgs /\ run[s].msg # run[r].msg /\ Untouched(run[s].msg)
  BY <1>1, <1>2 DEF Publishing, PublishedOnce, OthersRun, RunsOK, Loose, Sent
<1>4. \A m \in Msgs : to'[m] = Nil => record'[m] = "none"
  BY <1>1, <1>2 DEF PublishedOnce
<1>5. \A m \in Msgs : record'[m] = "none" => Untouched(m)'
  BY <1>1, <1>2 DEF PublishedOnce
<1>6. ASSUME NEW s \in Runs, Publishing(s)'
      PROVE  /\ Untouched(run[s].msg)'
             /\ record'[run'[s].msg] = IF At(s, "register")' THEN "none" ELSE "queued"
  <2>1. CASE s = r
    BY <1>1, <1>2, <2>1 DEF At
  <2>2. CASE s # r
    BY <1>1, <1>2, <1>3, <1>6, <2>2 DEF PublishedOnce, At
  <2> QED BY <2>1, <2>2
<1>7. \A s, u \in Runs :
        Publishing(s)' /\ Publishing(u)' /\ run'[s].msg = run'[u].msg => s = u
  BY <1>2, <1>3 DEF PublishedOnce
<1> QED BY <1>4, <1>5, <1>6, <1>7 DEF PublishedOnce

LEMMA PublishedOnceByRunStep ==
  ASSUME TypeInv, PublishedOnce, NEW r \in Runs, RunStep(r), [Next]_vars
  PROVE  PublishedOnce'
<1>t. RunsOK /\ record \in [Msgs -> {"none", "queued", "forwarded"}]
  BY DEF TypeInv, HubOK
<1>1. CASE Register(r)
  <2>2. \A m \in Msgs : Untouched(m) => Untouched(m)'
    BY <1>1, UntouchedByRunStep DEF Register, EnqueueOutbound, At
  <2> QED BY <1>1, <2>2, RegisterPublishes
<1>2. CASE EnqueueOutbound(r)
  <2>1. OthersRun(r) /\ run'[r].pc = "drain" /\ to' = to /\ record' = record
    BY <1>2, <1>t, GoEffect DEF EnqueueOutbound
  <2>2. Publishing(r) /\ record[run[r].msg] # "none"
    BY <1>2 DEF EnqueueOutbound, Publishing, At, PublishedOnce
  <2>3. \A m \in Msgs : Untouched(m) => Untouched(m)' \/ m = run[r].msg
    BY UntouchedByRunStep
  <2> QED BY <1>t, <2>1, <2>2, <2>3, PublishedOnceKept DEF Publishing
<1>3. CASE EnqueueOutboundFails(r)
  <2>1. run' = [run EXCEPT ![r] = IdleRun] /\ to' = to
        /\ record' = [record EXCEPT ![run[r].msg] = "none"] /\ Publishing(r)
    BY <1>3 DEF EnqueueOutboundFails, Publishing, At
  <2>2. OthersRun(r) /\ run'[r] = IdleRun
    BY <1>t, <2>1, RunBecomes
  <2>3. run'[r].pc = "idle"
    BY <2>2 DEF IdleRun
  <2>4. \A m \in Msgs : Untouched(m) => Untouched(m)'
    <3>1. ~EnqueueOutbound(r)
      BY <1>t, <2>3, GoEffect DEF EnqueueOutbound
    <3> QED BY <1>3, <3>1, UntouchedByRunStep
  <2> QED BY <1>t, <2>1, <2>2, <2>3, <2>4, PublishedOnceKept DEF Publishing
<1>4. ASSUME OthersRun(r), run'[r].pc \notin {"register", "enqueue"},
             to' = to, record' = record, ~EnqueueOutbound(r)
      PROVE  PublishedOnce'
  <2>1. \A m \in Msgs : Untouched(m) => Untouched(m)'
    BY <1>4, UntouchedByRunStep
  <2> QED BY <1>t, <1>4, <2>1, PublishedOnceKept
<1>5. CASE ListDue(r)
  <2>1. OthersRun(r) /\ run'[r].pc = "next"
    BY <1>5, ListEffect
  <2> QED BY <1>4, <1>5, <2>1 DEF ListDue, EnqueueOutbound, At, Publishing, hubVars
<1>6. CASE Finish(r)
  <2>1. OthersRun(r) /\ run'[r] = IdleRun
    BY <1>6, <1>t, RunBecomes DEF Finish
  <2>2. run'[r].pc = "idle"
    BY <2>1 DEF IdleRun
  <2> QED BY <1>4, <1>6, <2>1, <2>2 DEF Finish, EnqueueOutbound, At, Publishing, hubVars
<1>7. ASSUME NEW n \in run[r].batch, NEW c \in Slots,
             SkipGonePeer(r, n) \/ SendFails(r, n) \/ Send(r, n, c)
      PROVE  PublishedOnce'
  <2>1. OthersRun(r) /\ run'[r].pc \in {"next", "await"} /\ run[r].pc = "next"
    BY <1>7, <1>t, TakeFromEffect DEF SkipGonePeer, SendFails, Send, Turn, At
  <2> QED BY <1>4, <1>7, <2>1
          DEF SkipGonePeer, SendFails, Send, EnqueueOutbound, At, Publishing, hubVars
<1>8. ASSUME NEW n \in run[r].batch, SkipGonePeer(r, n) \/ SendFails(r, n)
      PROVE  PublishedOnce'
  <2>1. OthersRun(r) /\ run'[r].pc = "next" /\ run[r].pc = "next"
    BY <1>8, <1>t, TakeFromEffect DEF SkipGonePeer, SendFails, Turn, At
  <2> QED BY <1>4, <1>8, <2>1
          DEF SkipGonePeer, SendFails, EnqueueOutbound, At, Publishing, hubVars
<1>9. ASSUME NEW c \in Slots, Refused(r, c) \/ Answered(r, c)
      PROVE  PublishedOnce'
  <2>1. OthersRun(r) /\ run'[r].pc \in {"next", "delivered"} /\ run[r].pc = "await"
    BY <1>9, <1>t, GoEffect DEF Refused, Answered, At
  <2> QED BY <1>4, <1>9, <2>1 DEF Refused, Answered, EnqueueOutbound, At, Publishing
<1>10. CASE MarkDelivered(r)
  <2>1. OthersRun(r) /\ run'[r].pc = "forward" /\ run[r].pc = "delivered"
    BY <1>10, <1>t, GoEffect DEF MarkDelivered, At
  <2> QED BY <1>4, <1>10, <2>1 DEF MarkDelivered, EnqueueOutbound, At, Publishing
<1>11. CASE MarkForwarded(r)
  <2>1. OthersRun(r) /\ run'[r].pc = "next" /\ run[r].pc = "forward" /\ to' = to
    BY <1>11, <1>t, GoEffect DEF MarkForwarded, At
  <2>2. ~Untouched(run[r].msg)
    BY <2>1 DEF Untouched, Working
  <2>3. \A m \in Msgs : \/ record'[m] = record[m]
                        \/ record[m] # "none" /\ record'[m] # "none" /\ ~Untouched(m)
    <3>1. record' = [record EXCEPT ![run[r].msg] = IF @ = "none" THEN "none" ELSE "forwarded"]
      BY <1>11 DEF MarkForwarded
    <3>2. \A m \in Msgs \ {run[r].msg} : record'[m] = record[m]
      BY <1>t, <3>1
    <3>3. ASSUME run[r].msg \in Msgs
          PROVE  \/ record'[run[r].msg] = record[run[r].msg]
                 \/ record[run[r].msg] # "none" /\ record'[run[r].msg] # "none"
      BY <1>t, <3>1, <3>3
    <3>4. ASSUME NEW m \in Msgs
          PROVE  \/ record'[m] = record[m]
                 \/ record[m] # "none" /\ record'[m] # "none" /\ ~Untouched(m)
      <4>1. CASE m = run[r].msg
        BY <2>2, <3>3, <4>1
      <4>2. CASE m # run[r].msg
        BY <3>2, <4>2
      <4> QED BY <4>1, <4>2
    <3> QED BY <3>4
  <2>4. \A m \in Msgs : Untouched(m) => Untouched(m)'
    BY <2>1, UntouchedByRunStep DEF EnqueueOutbound, At
  <2> QED BY <1>t, <2>1, <2>3, <2>4, PublishedOnceKept DEF Publishing
<1> QED BY <1>1, <1>2, <1>3, <1>5, <1>6, <1>7, <1>8, <1>9, <1>10, <1>11 DEF RunStep

LEMMA PublishedOnceStep ==
  ASSUME TypeInv, PublishedOnce, [Next]_vars
  PROVE  PublishedOnce'
<1>t. RunsOK
  BY DEF TypeInv
<1>0. ASSUME UNCHANGED <<run, to, record>>, \A r \in Runs : ~EnqueueOutbound(r)
      PROVE  PublishedOnce'
  BY <1>t, <1>0, UntouchedStays, PublishedOnceSame
<1>q. ASSUME run' = run, NEW r \in Runs, EnqueueOutbound(r) PROVE FALSE
  BY <1>t, <1>q, GoEffect DEF EnqueueOutbound, At
<1>1. ASSUME NEW p \in Peers, PeerCall(p) \/ OrgTrustCall(p) \/ AgentTrustCall(p)
                               \/ TrustChanges(p)
      PROVE  PublishedOnce'
  BY <1>0, <1>q, <1>1 DEF PeerCall, OrgTrustCall, AgentTrustCall, CreatePeer, DeletePeer,
     CreateRemoteTrust, DeleteRemoteTrust, TrustChanges, hubVars
<1>2. ASSUME NEW r \in Publishers, NEW n \in Msgs, NEW p \in Peers,
             PublishRemote(r, n, p)
      PROVE  PublishedOnce'
  <2>1. \A s \in Runs : ~EnqueueOutbound(s)
    <3>1. r \in Runs /\ OthersRun(r) /\ run[r].pc = "idle" /\ run'[r].pc = "register"
      BY <1>t, <1>2, HoldEffect DEF PublishRemote, At, Runs
    <3>2. ASSUME NEW s \in Runs, EnqueueOutbound(s) PROVE FALSE
      BY <1>t, <3>1, <3>2, GoEffect DEF EnqueueOutbound, At, OthersRun
    <3> QED BY <3>2
  <2>2. \A m \in Msgs : Untouched(m) => Untouched(m)'
    BY <2>1, UntouchedStays
  <2> QED BY <1>2, <2>2, PublishRemotePublishes
<1>3. CASE Kick
  <2>1. Background \in Runs
    BY DEF Runs
  <2>2. /\ OthersRun(Background) /\ run'[Background].pc = "drain"
        /\ run[Background].pc = "idle"
    BY <1>3, <1>t, <2>1, GoEffect DEF Kick, At
  <2>3. \A s \in Runs : ~EnqueueOutbound(s)
    <3>1. ASSUME NEW s \in Runs, EnqueueOutbound(s) PROVE FALSE
      BY <1>t, <2>2, <3>1, GoEffect DEF EnqueueOutbound, At, OthersRun
    <3> QED BY <3>1
  <2>4. \A m \in Msgs : Untouched(m) => Untouched(m)'
    BY <2>3, UntouchedStays
  <2> QED BY <1>3, <1>t, <2>1, <2>2, <2>4, PublishedOnceKept DEF Kick, hubVars
<1>4. ASSUME NEW r \in Runs, RunStep(r) PROVE PublishedOnce'
  BY <1>4, PublishedOnceByRunStep
<1>5. ASSUME NEW r \in Runs, NEW c \in Slots, AnswerMissed(r, c)
      PROVE  PublishedOnce'
  <2>1. OthersRun(r) /\ run'[r].pc = "next" /\ run[r].pc = "await"
    BY <1>5, <1>t, MissedEffect DEF AnswerMissed, At, TypeInv
  <2>3. \A s \in Runs : ~EnqueueOutbound(s)
    <3>1. ASSUME NEW s \in Runs, EnqueueOutbound(s) PROVE FALSE
      BY <1>t, <2>1, <3>1, GoEffect DEF EnqueueOutbound, At, OthersRun
    <3> QED BY <3>1
  <2>4. \A m \in Msgs : Untouched(m) => Untouched(m)'
    BY <2>3, UntouchedStays
  <2> QED BY <1>5, <1>t, <2>1, <2>4, PublishedOnceKept DEF AnswerMissed
<1>6. ASSUME NEW c \in Slots, Handle(c) \/ RequestLost(c) PROVE PublishedOnce'
  BY <1>0, <1>q, <1>6 DEF Handle, Refuse, Take, Duplicate, Deliver, DeliverFails,
     RequestLost, hubVars
<1>7. CASE (\E n \in Msgs : BackoffElapses(n)) \/ UNCHANGED vars
  BY <1>0, <1>q, <1>7 DEF BackoffElapses, vars, hubVars
<1> QED BY <1>1, <1>2, <1>3, <1>4, <1>5, <1>6, <1>7 DEF Next

-----------------------------------------------------------------------------
(* A call and the run that waits for it belong together until one ends it. *)

LEMMA CallsAwaitedSame ==
  ASSUME CallsAwaited, call' = call, RunsOK, CallsOK, NEW r \in Runs, OthersRun(r),
         run[r].pc # "await"
  PROVE  CallsAwaited'
<1>1. ASSUME NEW c \in Slots, call[c].by # Nil
      PROVE  call[c].by \in Runs \ {r} /\ run'[call[c].by] = run[call[c].by]
  BY <1>1 DEF CallsAwaited, CallsOK, CallRec, OthersRun, At
<1> QED BY <1>1 DEF CallsAwaited, At

LEMMA CallsAwaitedEnds ==
  ASSUME CallsAwaited, RunsOK, CallsOK, NEW r \in Runs, OthersRun(r),
         NEW c \in Slots, OthersCall(c), call[c].by = r, r # Nil, call'[c].by = Nil
  PROVE  CallsAwaited'
<1>1. ASSUME NEW d \in Slots, call'[d].by # Nil
      PROVE  /\ d # c /\ call'[d] = call[d] /\ call[d].by \in Runs \ {r}
             /\ run'[call[d].by] = run[call[d].by]
  BY <1>1 DEF CallsAwaited, CallsOK, CallRec, OthersRun, OthersCall
<1> QED BY <1>1 DEF CallsAwaited, At

LEMMA CallsAwaitedAt ==
  ASSUME CallsAwaited, CallsOK, run' = run, NEW c \in Slots, OthersCall(c),
         \/ call'[c].by = Nil
         \/ /\ call'[c].by = call[c].by /\ call'[c].msg = call[c].msg
            /\ call'[c].at # "free"
  PROVE  CallsAwaited'
<1>1. ASSUME NEW d \in Slots, call'[d].by # Nil
      PROVE  /\ call'[d].by = call[d].by /\ call'[d].msg = call[d].msg
             /\ call[d].by # Nil /\ call'[d].at # "free"
  BY <1>1 DEF CallsAwaited, OthersCall
<1> QED BY <1>1 DEF CallsAwaited, At

LEMMA CallsAwaitedStep ==
  ASSUME TypeInv, CallsAwaited, [Next]_vars
  PROVE  CallsAwaited'
<1>t. RunsOK /\ CallsOK /\ Nil \notin Runs
  BY NilAssumption DEF TypeInv, Runs
<1>0. ASSUME UNCHANGED <<run, call>> PROVE CallsAwaited'
  BY <1>0 DEF CallsAwaited, At
<1>1. ASSUME NEW p \in Peers, PeerCall(p) \/ OrgTrustCall(p) \/ AgentTrustCall(p)
                               \/ TrustChanges(p)
      PROVE  CallsAwaited'
  BY <1>0, <1>1 DEF PeerCall, OrgTrustCall, AgentTrustCall, CreatePeer, DeletePeer,
     CreateRemoteTrust, DeleteRemoteTrust, TrustChanges
<1>2. ASSUME NEW r \in Publishers, NEW n \in Msgs, NEW p \in Peers,
             PublishRemote(r, n, p)
      PROVE  CallsAwaited'
  <2>1. r \in Runs /\ OthersRun(r) /\ run[r].pc = "idle"
    BY <1>t, <1>2, HoldEffect DEF PublishRemote, At, Runs
  <2> QED BY <1>t, <1>2, <2>1, CallsAwaitedSame DEF PublishRemote
<1>3. CASE Kick
  <2>1. Background \in Runs
    BY DEF Runs
  <2>2. OthersRun(Background) /\ run[Background].pc = "idle"
    BY <1>3, <1>t, <2>1, GoEffect DEF Kick, At
  <2> QED BY <1>t, <1>3, <2>1, <2>2, CallsAwaitedSame DEF Kick
<1>4. ASSUME NEW r \in Runs, RunStep(r) PROVE CallsAwaited'
  <2>1. CASE Register(r) \/ EnqueueOutbound(r) \/ MarkDelivered(r) \/ MarkForwarded(r)
    <3>1. OthersRun(r) /\ run[r].pc # "await" /\ call' = call
      BY <2>1, <1>t, GoEffect
         DEF Register, EnqueueOutbound, MarkDelivered, MarkForwarded, At
    <3> QED BY <1>t, <3>1, CallsAwaitedSame
  <2>2. CASE EnqueueOutboundFails(r) \/ Finish(r)
    <3>1. run' = [run EXCEPT ![r] = IdleRun] /\ run[r].pc # "await" /\ call' = call
      BY <2>2 DEF EnqueueOutboundFails, Finish, At
    <3>2. OthersRun(r)
      BY <1>t, <3>1, RunBecomes
    <3> QED BY <1>t, <3>1, <3>2, CallsAwaitedSame
  <2>3. CASE ListDue(r)
    <3>1. OthersRun(r) /\ run[r].pc # "await" /\ call' = call
      BY <2>3, ListEffect DEF ListDue, At
    <3> QED BY <1>t, <3>1, CallsAwaitedSame
  <2>4. ASSUME NEW n \in run[r].batch, SkipGonePeer(r, n) \/ SendFails(r, n)
        PROVE  CallsAwaited'
    <3>1. OthersRun(r) /\ run[r].pc # "await" /\ call' = call
      BY <2>4, <1>t, TakeFromEffect DEF SkipGonePeer, SendFails, Turn, At
    <3> QED BY <1>t, <3>1, CallsAwaitedSame
  <2>5. ASSUME NEW n \in run[r].batch, NEW c \in Slots, Send(r, n, c)
        PROVE  CallsAwaited'
    <3>1. /\ OthersRun(r) /\ run[r].pc = "next" /\ run'[r].pc = "await" /\ run'[r].msg = n
      BY <2>5, <1>t, TakeFromEffect DEF Send, Turn, At
    <3>2. /\ OthersCall(c) /\ call'[c].msg = n /\ call'[c].by = r
          /\ call'[c].at # "free"
      <4>1. call' = [call EXCEPT ![c] = [by |-> r, msg |-> n, at |-> "sent"]]
        BY <2>5 DEF Send
      <4> QED BY <1>t, <4>1 DEF CallsOK, OthersCall
    <3>3. ASSUME NEW d \in Slots \ {c}, call[d].by # Nil
          PROVE  call[d].by \in Runs \ {r} /\ run'[call[d].by] = run[call[d].by]
      BY <1>t, <3>1, <3>3 DEF CallsAwaited, CallsOK, CallRec, OthersRun, At
    <3>4. \A d \in Slots \ {c} : call'[d] = call[d]
      BY <3>2 DEF OthersCall
    <3>5. \A d \in Slots : call'[d].by # Nil =>
            /\ call'[d].at # "free"
            /\ run'[call'[d].by].pc = "await" /\ run'[call'[d].by].msg = call'[d].msg
      <4>1. ASSUME NEW d \in Slots, call'[d].by # Nil
            PROVE  /\ call'[d].at # "free"
                   /\ run'[call'[d].by].pc = "await"
                   /\ run'[call'[d].by].msg = call'[d].msg
        <5>1. CASE d = c
          BY <3>1, <3>2, <5>1
        <5>2. CASE d # c
          BY <3>3, <3>4, <4>1, <5>2 DEF CallsAwaited, At
        <5> QED BY <5>1, <5>2
      <4> QED BY <4>1
    <3>6. \A d, e \in Slots : call'[d].by # Nil /\ call'[d].by = call'[e].by => d = e
      BY <1>t, <3>2, <3>3, <3>4 DEF CallsAwaited
    <3> QED BY <3>5, <3>6 DEF CallsAwaited, At
  <2>6. ASSUME NEW c \in Slots, Refused(r, c) \/ Answered(r, c)
        PROVE  CallsAwaited'
    <3>1. OthersRun(r) /\ OthersCall(c) /\ call'[c] = NoCall /\ call[c].by = r
      BY <2>6, <1>t, GoEffect, CallBecomes DEF Refused, Answered
    <3> QED BY <1>t, <3>1, CallsAwaitedEnds DEF NoCall
  <2> QED BY <1>4, <2>1, <2>2, <2>3, <2>4, <2>5, <2>6 DEF RunStep
<1>5. ASSUME NEW r \in Runs, NEW c \in Slots, AnswerMissed(r, c)
      PROVE  CallsAwaited'
  <2>1. OthersRun(r) /\ OthersCall(c) /\ call'[c].by = Nil /\ call[c].by = r
    BY <1>5, <1>t, MissedEffect DEF AnswerMissed
  <2> QED BY <1>t, <2>1, CallsAwaitedEnds
<1>6. ASSUME NEW c \in Slots, Refuse(c) \/ Duplicate(c) \/ Deliver(c) \/ DeliverFails(c)
      PROVE  CallsAwaited'
  <2>1. run' = run /\ (Reply(c, "ok") \/ Reply(c, "refused"))
    BY <1>6 DEF Refuse, Duplicate, Deliver, DeliverFails
  <2>2. /\ OthersCall(c)
        /\ \/ call'[c].by = Nil
           \/ /\ call'[c].by = call[c].by /\ call'[c].msg = call[c].msg
              /\ call'[c].at # "free"
    BY <1>t, <2>1, ReplyEffect
  <2> QED BY <1>t, <2>1, <2>2, CallsAwaitedAt
<1>7. ASSUME NEW c \in Slots, Take(c) PROVE CallsAwaited'
  BY <1>7, <1>t, TakeEffect, CallsAwaitedAt DEF Take
<1>8. ASSUME NEW c \in Slots, RequestLost(c) PROVE CallsAwaited'
  <2>1. OthersCall(c) /\ call'[c] = NoCall
    BY <1>8, <1>t, CallBecomes DEF RequestLost
  <2> QED BY <1>8, <1>t, <2>1, CallsAwaitedAt DEF RequestLost, NoCall
<1>9. CASE (\E n \in Msgs : BackoffElapses(n)) \/ UNCHANGED vars
  BY <1>0, <1>9 DEF BackoffElapses, vars
<1> QED BY <1>1, <1>2, <1>3, <1>4, <1>5, <1>6, <1>7, <1>8, <1>9 DEF Next, Handle

-----------------------------------------------------------------------------
(* An "ok" is believed: what was answered so is at the peer and stays.     *)
Believed(m) == m \in taken \cup QueueFails

LEMMA BelievedStays ==
  ASSUME [Next]_vars, NEW m, Believed(m)
  PROVE  Believed(m)'
<1>1. ASSUME NEW r \in Runs, RunStep(r) \/ \E c \in Slots : AnswerMissed(r, c)
      PROVE  taken' = taken
  BY <1>1 DEF RunStep, Register, EnqueueOutbound, EnqueueOutboundFails, ListDue, Finish,
     SkipGonePeer, SendFails, Send, Refused, Answered, MarkDelivered, MarkForwarded,
     AnswerMissed, peerVars
<1>2. ASSUME NEW p \in Peers, PeerCall(p) \/ OrgTrustCall(p) \/ AgentTrustCall(p)
                               \/ TrustChanges(p)
      PROVE  taken' = taken
  BY <1>2 DEF PeerCall, OrgTrustCall, AgentTrustCall, CreatePeer, DeletePeer,
     CreateRemoteTrust, DeleteRemoteTrust, TrustChanges, peerVars
<1>3. ASSUME NEW c \in Slots, Handle(c) \/ RequestLost(c)
      PROVE  \A n \in taken \ taken' : n \in QueueFails
  BY <1>3 DEF Handle, Refuse, Take, Duplicate, Deliver, DeliverFails, RequestLost, peerVars
<1>4. CASE UNCHANGED vars \/ Kick \/ (\E n \in Msgs : BackoffElapses(n))
           \/ \E r \in Publishers, n \in Msgs, p \in Peers : PublishRemote(r, n, p)
  BY <1>4 DEF vars, Kick, BackoffElapses, PublishRemote, peerVars, Believed
<1> QED BY <1>1, <1>2, <1>3, <1>4 DEF Next, Believed

OkInv == TypeInv /\ TakenOnce /\ CallsAwaited /\ OkIsTaken

LEMMA OkIsTakenStep ==
  ASSUME OkInv, [Next]_vars
  PROVE  OkIsTaken'
<1>t. RunsOK /\ CallsOK /\ OkIsTaken
  BY DEF OkInv, TypeInv
<1> DEFINE Ok(c)   == call[c].at = "ok" => Believed(call[c].msg)
           Held(r) == run[r].pc \in {"delivered", "forward"} => Believed(run[r].msg)
<1>o. OkIsTaken <=> (\A c \in Slots : Ok(c)) /\ \A r \in Runs : Held(r)
  BY DEF OkIsTaken, Believed
<1>p. OkIsTaken' <=> (\A c \in Slots : Ok(c)') /\ \A r \in Runs : Held(r)'
  BY DEF OkIsTaken, Believed
<1>c. ASSUME NEW c \in Slots, call'[c].at = "ok" => call[c].at = "ok"
                                                   /\ call'[c].msg = call[c].msg
      PROVE  Ok(c)'
  BY <1>t, <1>o, <1>c, BelievedStays
<1>r. ASSUME NEW r \in Runs,
             \/ run'[r].pc \notin {"delivered", "forward"}
             \/ run'[r].msg = run[r].msg /\ run[r].pc \in {"delivered", "forward"}
      PROVE  Held(r)'
  BY <1>t, <1>o, <1>r, BelievedStays
<1> HIDE DEF Ok, Held
<1>s. ASSUME NEW r \in Runs, OthersRun(r) PROVE \A s \in Runs \ {r} : Held(s)'
  BY <1>s, <1>r DEF OthersRun
<1>d. ASSUME NEW c \in Slots, OthersCall(c) PROVE \A d \in Slots \ {c} : Ok(d)'
  BY <1>d, <1>c DEF OthersCall
<1>0. ASSUME run' = run PROVE \A r \in Runs : Held(r)'
  BY <1>0, <1>r
<1>z. ASSUME call' = call PROVE \A c \in Slots : Ok(c)'
  BY <1>z, <1>c
<1>1. ASSUME NEW p \in Peers, PeerCall(p) \/ OrgTrustCall(p) \/ AgentTrustCall(p)
                               \/ TrustChanges(p)
      PROVE  OkIsTaken'
  BY <1>0, <1>1, <1>p, <1>z DEF PeerCall, OrgTrustCall, AgentTrustCall, CreatePeer,
     DeletePeer, CreateRemoteTrust, DeleteRemoteTrust, TrustChanges
<1>2. ASSUME NEW r \in Publishers, NEW n \in Msgs, NEW p \in Peers,
             PublishRemote(r, n, p)
      PROVE  OkIsTaken'
  <2>1. r \in Runs /\ OthersRun(r) /\ run'[r].pc = "register" /\ call' = call
    BY <1>t, <1>2, HoldEffect DEF PublishRemote, Runs
  <2> QED BY <1>p, <1>r, <1>s, <1>z, <2>1
<1>3. CASE Kick
  <2>1. Background \in Runs
    BY DEF Runs
  <2>2. OthersRun(Background) /\ run'[Background].pc = "drain" /\ call' = call
    BY <1>3, <1>t, <2>1, GoEffect DEF Kick
  <2> QED BY <1>p, <1>r, <1>s, <1>z, <2>1, <2>2
<1>4. ASSUME NEW r \in Runs, RunStep(r) PROVE OkIsTaken'
  <2>0. ASSUME OthersRun(r), call' = call,
               \/ run'[r].pc \notin {"delivered", "forward"}
               \/ run'[r].msg = run[r].msg /\ run[r].pc \in {"delivered", "forward"}
        PROVE  OkIsTaken'
    BY <1>p, <1>r, <1>s, <1>z, <2>0
  <2>1. CASE Register(r) \/ EnqueueOutbound(r) \/ MarkDelivered(r) \/ MarkForwarded(r)
    <3>1. /\ OthersRun(r) /\ call' = call
          /\ \/ run'[r].pc \notin {"delivered", "forward"}
             \/ run'[r].msg = run[r].msg /\ run[r].pc \in {"delivered", "forward"}
      BY <2>1, <1>t, GoEffect
         DEF Register, EnqueueOutbound, MarkDelivered, MarkForwarded, At
    <3> QED BY <2>0, <3>1
  <2>2. CASE EnqueueOutboundFails(r) \/ Finish(r)
    <3>1. run' = [run EXCEPT ![r] = IdleRun] /\ call' = call
      BY <2>2 DEF EnqueueOutboundFails, Finish
    <3>2. OthersRun(r) /\ run'[r] = IdleRun
      BY <1>t, <3>1, RunBecomes
    <3>3. run'[r].pc = "idle"
      BY <3>2 DEF IdleRun
    <3> QED BY <2>0, <3>1, <3>2, <3>3
  <2>3. CASE ListDue(r)
    <3>1. OthersRun(r) /\ run'[r].pc = "next" /\ call' = call
      BY <2>3, ListEffect DEF ListDue, OkInv
    <3> QED BY <2>0, <3>1
  <2>4. ASSUME NEW n \in run[r].batch, SkipGonePeer(r, n) \/ SendFails(r, n)
        PROVE  OkIsTaken'
    <3>1. OthersRun(r) /\ run'[r].pc = "next" /\ call' = call
      BY <2>4, <1>t, TakeFromEffect DEF SkipGonePeer, SendFails
    <3> QED BY <2>0, <3>1
  <2>5. ASSUME NEW n \in run[r].batch, NEW c \in Slots, Send(r, n, c)
        PROVE  OkIsTaken'
    <3>1. OthersRun(r) /\ run'[r].pc = "await"
      BY <2>5, <1>t, TakeFromEffect DEF Send
    <3>2. OthersCall(c) /\ call'[c].at = "sent"
      <4>1. call' = [call EXCEPT ![c] = [by |-> r, msg |-> n, at |-> "sent"]]
        BY <2>5 DEF Send
      <4> QED BY <1>t, <4>1 DEF CallsOK, OthersCall
    <3> QED BY <1>c, <1>d, <1>p, <1>r, <1>s, <3>1, <3>2
  <2>6. ASSUME NEW c \in Slots, Refused(r, c) PROVE OkIsTaken'
    <3>1. OthersRun(r) /\ run'[r].pc = "next" /\ OthersCall(c) /\ call'[c] = NoCall
      BY <2>6, <1>t, GoEffect, CallBecomes DEF Refused
    <3> QED BY <1>c, <1>d, <1>p, <1>r, <1>s, <3>1, NoCallType
  <2>7. ASSUME NEW c \in Slots, Answered(r, c) PROVE OkIsTaken'
    <3>1. /\ OthersRun(r) /\ run'[r].pc = "delivered" /\ run'[r].msg = run[r].msg
          /\ OthersCall(c) /\ call'[c] = NoCall
      BY <2>7, <1>t, GoEffect, CallBecomes DEF Answered
    <3>2. run[r].msg = call[c].msg /\ call[c].at = "ok"
      BY <2>7, NilAssumption DEF Answered, OkInv, CallsAwaited, Runs
    <3>3. Held(r)'
      BY <1>t, <1>o, <3>1, <3>2, BelievedStays DEF Held, Ok
    <3> QED BY <1>c, <1>d, <1>p, <1>s, <3>1, <3>3, NoCallType
  <2> QED BY <1>4, <2>1, <2>2, <2>3, <2>4, <2>5, <2>6, <2>7 DEF RunStep
<1>5. ASSUME NEW r \in Runs, NEW c \in Slots, AnswerMissed(r, c) PROVE OkIsTaken'
  <2>1. /\ OthersRun(r) /\ OthersCall(c) /\ run'[r].pc = "next"
        /\ (call'[c].at = "ok" => call[c].at = "ok" /\ call'[c].msg = call[c].msg)
    BY <1>5, <1>t, MissedEffect, NoCallType
  <2> QED BY <1>c, <1>d, <1>p, <1>r, <1>s, <2>1
<1>6. ASSUME NEW c \in Slots, Refuse(c) \/ DeliverFails(c) PROVE OkIsTaken'
  <2>1. run' = run /\ Reply(c, "refused")
    BY <1>6 DEF Refuse, DeliverFails
  <2>2. OthersCall(c) /\ call'[c].at # "ok"
    BY <1>t, <2>1, ReplyEffect, NoCallType
  <2> QED BY <1>0, <1>c, <1>d, <1>p, <2>1, <2>2
<1>7. ASSUME NEW c \in Slots, Duplicate(c) \/ Deliver(c) PROVE OkIsTaken'
  <2>1. run' = run /\ Reply(c, "ok") /\ Believed(call[c].msg)
    BY <1>7 DEF Duplicate, Deliver, Believed, OkInv, TakenOnce, Handling
  <2>2. /\ OthersCall(c) /\ (call'[c].at # "free" => call'[c].msg = call[c].msg)
    BY <1>t, <2>1, ReplyEffect, NoCallType
  <2>3. Ok(c)'
    BY <2>1, <2>2, BelievedStays DEF Ok
  <2> QED BY <1>0, <1>d, <1>p, <2>1, <2>2, <2>3
<1>8. ASSUME NEW c \in Slots, Take(c) PROVE OkIsTaken'
  <2>1. OthersCall(c) /\ call'[c].at = "taken" /\ run' = run
    BY <1>8, <1>t, TakeEffect DEF Take
  <2> QED BY <1>0, <1>c, <1>d, <1>p, <2>1
<1>9. ASSUME NEW c \in Slots, RequestLost(c) PROVE OkIsTaken'
  <2>1. OthersCall(c) /\ call'[c] = NoCall /\ run' = run
    BY <1>9, <1>t, CallBecomes DEF RequestLost
  <2> QED BY <1>0, <1>c, <1>d, <1>p, <2>1, NoCallType
<1>10. CASE (\E n \in Msgs : BackoffElapses(n)) \/ UNCHANGED vars
  BY <1>0, <1>10, <1>p, <1>z DEF BackoffElapses, vars
<1> QED BY <1>1, <1>2, <1>3, <1>4, <1>5, <1>6, <1>7, <1>8, <1>9, <1>10 DEF Next, Handle

-----------------------------------------------------------------------------
(* What each step does to the records, and to the peers.                   *)

Settled == UNCHANGED <<record, taken, inbox>>

LEMMA RecordEffects ==
  ASSUME [Next]_vars
  PROVE  \/ Settled
         \/ \E r \in Runs : /\ Register(r) \/ EnqueueOutboundFails(r) \/ MarkForwarded(r)
                            /\ taken' = taken /\ inbox' = inbox
         \/ \E c \in Slots : /\ Take(c) \/ Deliver(c) \/ DeliverFails(c)
                             /\ record' = record
<1>1. ASSUME NEW p \in Peers, PeerCall(p) \/ OrgTrustCall(p) \/ AgentTrustCall(p)
                               \/ TrustChanges(p)
      PROVE  Settled
  BY <1>1 DEF PeerCall, OrgTrustCall, AgentTrustCall, CreatePeer, DeletePeer,
     CreateRemoteTrust, DeleteRemoteTrust, TrustChanges, hubVars, peerVars, Settled
<1>2. CASE \/ \E r \in Publishers, m \in Msgs, p \in Peers : PublishRemote(r, m, p)
           \/ Kick \/ (\E m \in Msgs : BackoffElapses(m)) \/ UNCHANGED vars
           \/ \E r \in Runs, c \in Slots : AnswerMissed(r, c)
  BY <1>2 DEF PublishRemote, Kick, BackoffElapses, AnswerMissed, vars, hubVars,
     peerVars, Settled
<1>3. ASSUME NEW r \in Runs, RunStep(r),
             ~(Register(r) \/ EnqueueOutboundFails(r) \/ MarkForwarded(r))
      PROVE  Settled
  BY <1>3 DEF RunStep, EnqueueOutbound, ListDue, Finish, SkipGonePeer, SendFails, Send,
     Refused, Answered, MarkDelivered, hubVars, peerVars, Settled
<1>4. ASSUME NEW r \in Runs, Register(r) \/ EnqueueOutboundFails(r) \/ MarkForwarded(r)
      PROVE  taken' = taken /\ inbox' = inbox
  BY <1>4 DEF Register, EnqueueOutboundFails, MarkForwarded, peerVars
<1>5. ASSUME NEW c \in Slots, Refuse(c) \/ Duplicate(c) \/ RequestLost(c) PROVE Settled
  BY <1>5 DEF Refuse, Duplicate, RequestLost, hubVars, peerVars, Settled
<1>6. ASSUME NEW c \in Slots, Take(c) \/ Deliver(c) \/ DeliverFails(c)
      PROVE  record' = record
  BY <1>6 DEF Take, Deliver, DeliverFails, hubVars
<1> QED BY <1>1, <1>2, <1>3, <1>4, <1>5, <1>6 DEF Next, Handle

(* The message of a run that registers or fails to queue it, and of one    *)
(* that marks it forwarded.                                                *)
LEMMA RecordMoves ==
  ASSUME ChannelInv, NEW r \in Runs
  PROVE  /\ Register(r) =>
              /\ run[r].msg \in Msgs \ taken /\ record[run[r].msg] = "none"
              /\ record' = [record EXCEPT ![run[r].msg] = "queued"]
         /\ EnqueueOutboundFails(r) =>
              /\ run[r].msg \in Msgs \ taken /\ record[run[r].msg] = "queued"
              /\ record' = [record EXCEPT ![run[r].msg] = "none"]
         /\ MarkForwarded(r) =>
              /\ run[r].msg \in Msgs /\ Believed(run[r].msg)
              /\ record[run[r].msg] # "none"
              /\ record' = [record EXCEPT ![run[r].msg] = "forwarded"]
<1>t. RunsOK /\ record \in [Msgs -> {"none", "queued", "forwarded"}]
  BY DEF ChannelInv, TypeInv, HubOK
<1>0. run[r].pc \notin Loose => run[r].msg \in Msgs
  BY <1>t DEF RunsOK, Sent
<1>1. ASSUME Register(r) \/ EnqueueOutboundFails(r)
      PROVE  /\ run[r].msg \in Msgs /\ run[r].msg \notin taken
             /\ record[run[r].msg] = IF At(r, "register") THEN "none" ELSE "queued"
  BY <1>0, <1>1 DEF Register, EnqueueOutboundFails, At, ChannelInv, PublishedOnce,
     Publishing, Untouched, Loose
<1>2. ASSUME MarkForwarded(r)
      PROVE  /\ run[r].msg \in Msgs /\ Believed(run[r].msg) /\ record[run[r].msg] # "none"
             /\ record' = [record EXCEPT ![run[r].msg] = "forwarded"]
  <2>1. run[r].msg \in Msgs /\ run[r].pc = "forward"
    BY <1>0, <1>2 DEF MarkForwarded, At, Loose
  <2>2. Believed(run[r].msg)
    BY <2>1 DEF ChannelInv, OkIsTaken, Believed
  <2>3. ~Untouched(run[r].msg)
    BY <2>1 DEF Untouched, Working
  <2>4. record[run[r].msg] # "none"
    BY <2>1, <2>3 DEF ChannelInv, PublishedOnce
  <2>5. record' = [record EXCEPT ![run[r].msg] = IF @ = "none" THEN "none" ELSE "forwarded"]
    BY <1>2 DEF MarkForwarded
  <2> QED BY <1>t, <2>1, <2>2, <2>4, <2>5
<1> QED BY <1>1, <1>2 DEF Register, EnqueueOutboundFails, At

(* The message of a call that is taken, queued at the peer, or refused.    *)
LEMMA CallMoves ==
  ASSUME ChannelInv, NEW c \in Slots
  PROVE  /\ Take(c) => /\ call[c].msg \in Msgs \ taken /\ record[call[c].msg] # "none"
                       /\ taken' = taken \cup {call[c].msg} /\ inbox' = inbox
         /\ Deliver(c) =>
              /\ call[c].msg \in taken \cap Msgs /\ taken' = taken
              /\ call[c].msg \notin QueueFails =>
                   inbox[call[c].msg] = 0 /\ inbox'[call[c].msg] = 1
              /\ \A n \in Msgs \ {call[c].msg} : inbox'[n] = inbox[n]
         /\ DeliverFails(c) =>
              /\ call[c].msg \in QueueFails /\ taken' = taken \ {call[c].msg}
              /\ \A n \in Msgs \ {call[c].msg} : inbox'[n] = inbox[n]
<1>t. CallsOK /\ PeerOK
  BY DEF ChannelInv, TypeInv
<1>1. ASSUME Take(c)
      PROVE  /\ call[c].msg \in Msgs \ taken /\ record[call[c].msg] # "none"
             /\ taken' = taken \cup {call[c].msg} /\ inbox' = inbox
  <2>1. call[c].msg \in Msgs /\ ~Untouched(call[c].msg)
    BY <1>1, <1>t DEF Take, CallsOK, Sent, Untouched
  <2> QED BY <1>1, <2>1 DEF Take, ChannelInv, PublishedOnce
<1>2. ASSUME Deliver(c)
      PROVE  /\ call[c].msg \in taken \cap Msgs /\ taken' = taken
             /\ call[c].msg \notin QueueFails =>
                  inbox[call[c].msg] = 0 /\ inbox'[call[c].msg] = 1
             /\ \A n \in Msgs \ {call[c].msg} : inbox'[n] = inbox[n]
  <2>1. /\ call[c].msg \in taken \cap Msgs
        /\ call[c].msg \notin QueueFails => inbox[call[c].msg] = 0
    BY <1>2, <1>t DEF Deliver, ChannelInv, TakenOnce, Handling, PeerOK, Early
  <2>2. inbox' = [inbox EXCEPT ![call[c].msg] = @ + 1] /\ taken' = taken
    BY <1>2 DEF Deliver
  <2> QED BY <1>t, <2>1, <2>2 DEF PeerOK
<1>3. ASSUME DeliverFails(c)
      PROVE  /\ call[c].msg \in QueueFails /\ taken' = taken \ {call[c].msg}
             /\ \A n \in Msgs \ {call[c].msg} : inbox'[n] = inbox[n]
  BY <1>3, <1>t DEF DeliverFails, PeerOK
<1> QED BY <1>1, <1>2, <1>3

LEMMA ForwardedStep ==
  ASSUME ChannelInv, [Next]_vars
  PROVE  ForwardedAtPeer'
<1>1. ForwardedAtPeer <=> \A m \in Msgs : record[m] = "forwarded" => Believed(m)
  BY DEF ForwardedAtPeer, Believed
<1>2. ForwardedAtPeer' <=> \A m \in Msgs : record'[m] = "forwarded" => Believed(m)'
  BY DEF ForwardedAtPeer, Believed
<1>3. ASSUME NEW m \in Msgs, record'[m] = "forwarded" PROVE Believed(m)
  <2>0. record \in [Msgs -> {"none", "queued", "forwarded"}] /\ ForwardedAtPeer
    BY DEF ChannelInv, TypeInv, HubOK
  <2>1. CASE record'[m] = record[m]
    BY <1>1, <1>3, <2>0, <2>1
  <2>2. ASSUME NEW r \in Runs,
               Register(r) \/ EnqueueOutboundFails(r) \/ MarkForwarded(r)
        PROVE  Believed(m)
    BY <1>1, <1>3, <2>0, <2>2, RecordMoves
  <2> QED BY <2>1, <2>2, RecordEffects DEF Settled
<1> QED BY <1>2, <1>3, BelievedStays

LEMMA ChannelInvariant == Spec => []ChannelInv
<1>1. Init => ChannelInv
  <2> SUFFICES ASSUME Init PROVE ChannelInv
    OBVIOUS
  <2>1. \A c \in Slots : call[c] = NoCall
    BY DEF Init
  <2>2. \A r \in Runs : run[r] = IdleRun
    BY DEF Init
  <2>3. TakenOnce
    BY NoCallType, <2>1 DEF Init, TakenOnce, AtMostOnce, Handling, Early
  <2>4. \A m : Untouched(m)
    BY NoCallType, <2>1, <2>2 DEF Init, Untouched, IdleRun, Working
  <2>5. PublishedOnce
    BY <2>2, <2>4 DEF Init, PublishedOnce, Publishing, IdleRun
  <2>6. CallsAwaited /\ OkIsTaken
    BY NoCallType, <2>1, <2>2 DEF CallsAwaited, OkIsTaken, IdleRun, NoCall
  <2>7. ForwardedAtPeer
    BY DEF Init, ForwardedAtPeer
  <2> QED BY <2>3, <2>5, <2>6, <2>7, InitTypes DEF ChannelInv
<1>2. ChannelInv /\ [Next]_vars => ChannelInv'
  BY NextTypes, TakenOnceStep, PublishedOnceStep, CallsAwaitedStep, OkIsTakenStep,
     ForwardedStep DEF ChannelInv, OkInv
<1> QED BY <1>1, <1>2, PTL DEF Spec

(* Federation is a channel: what the hub accepts for a peer is taken and   *)
(* queued there at most once, and reported forwarded only after that,      *)
(* however often the outbox sends it and whatever answers are missed.      *)
THEOREM FederationIsAChannel == Spec => ImplementsChannel
<1> DEFINE G   == Msgs \ QueueFails
           acc == {m \in G : record[m] # "none"}
           tak == taken \ QueueFails
           arr == {m \in G : inbox[m] > 0}
           rep == {m \in G : record[m] = "forwarded"}
<1>0. ASSUME NEW n \in G, \/ Channel!Accept(n) \/ Channel!Withdraw(n) \/ Channel!Take(n)
                           \/ Channel!Arrive(n) \/ Channel!Report(n)
      PROVE  Channel!Next
  BY <1>0 DEF Channel!Next
<1>1. Init => Channel!Init
  BY DEF Init, Channel!Init
<1>2. ChannelInv /\ [Next]_vars => [Channel!Next]_(Channel!channelVars)
  <2> SUFFICES ASSUME ChannelInv, [Next]_vars
               PROVE  Channel!Next \/ UNCHANGED Channel!channelVars
    OBVIOUS
  <2>t. /\ record \in [Msgs -> {"none", "queued", "forwarded"}]
        /\ taken \subseteq Msgs /\ inbox \in [Msgs -> Nat]
    BY DEF ChannelInv, TypeInv, HubOK, PeerOK
  <2>1. CASE Settled
    BY <2>1 DEF Settled, Channel!channelVars
  <2>2. ASSUME NEW r \in Runs, taken' = taken, inbox' = inbox,
               Register(r) \/ EnqueueOutboundFails(r) \/ MarkForwarded(r)
        PROVE  Channel!Next \/ UNCHANGED Channel!channelVars
    <3>m. PICK m \in Msgs : m = run[r].msg
      BY <2>2, RecordMoves
    <3>0. \A n \in Msgs \ {m} : record'[n] = record[n]
      BY <2>2, <2>t, <3>m, RecordMoves
    <3>1. CASE Register(r)
      <4>1. m \in Msgs \ taken /\ record[m] = "none" /\ record'[m] = "queued"
        BY <2>t, <3>m, <3>1, RecordMoves
      <4>2. CASE m \in G
        <5>1. acc' = acc \cup {m} /\ rep' = rep /\ m \notin acc \cup tak
          BY <3>0, <4>1, <4>2
        <5>2. Channel!Accept(m)
          BY <2>2, <5>1 DEF Channel!Accept
        <5> QED BY <1>0, <4>2, <5>2
      <4>3. CASE m \notin G
        <5>1. acc' = acc /\ rep' = rep
          BY <3>0, <4>3
        <5> QED BY <2>2, <5>1 DEF Channel!channelVars
      <4> QED BY <4>2, <4>3
    <3>2. CASE EnqueueOutboundFails(r)
      <4>1. m \in Msgs \ taken /\ record[m] = "queued" /\ record'[m] = "none"
        BY <2>t, <3>m, <3>2, RecordMoves
      <4>2. CASE m \in G
        <5>1. acc' = acc \ {m} /\ rep' = rep /\ m \in acc \ tak
          BY <3>0, <4>1, <4>2
        <5>2. Channel!Withdraw(m)
          BY <2>2, <5>1 DEF Channel!Withdraw
        <5> QED BY <1>0, <4>2, <5>2
      <4>3. CASE m \notin G
        <5>1. acc' = acc /\ rep' = rep
          BY <3>0, <4>3
        <5> QED BY <2>2, <5>1 DEF Channel!channelVars
      <4> QED BY <4>2, <4>3
    <3>3. CASE MarkForwarded(r)
      <4>1. m \in Msgs /\ Believed(m) /\ record[m] # "none" /\ record'[m] = "forwarded"
        BY <2>t, <3>m, <3>3, RecordMoves
      <4>2. CASE m \in G /\ record[m] # "forwarded"
        <5>1. acc' = acc /\ rep' = rep \cup {m} /\ m \in acc \cap tak /\ m \notin rep
          BY <3>0, <4>1, <4>2 DEF Believed
        <5>2. Channel!Report(m)
          BY <2>2, <5>1 DEF Channel!Report
        <5> QED BY <1>0, <4>2, <5>2
      <4>3. CASE ~(m \in G /\ record[m] # "forwarded")
        <5>1. acc' = acc /\ rep' = rep
          BY <3>0, <4>1, <4>3
        <5> QED BY <2>2, <5>1 DEF Channel!channelVars
      <4> QED BY <4>2, <4>3
    <3> QED BY <2>2, <3>1, <3>2, <3>3
  <2>3. ASSUME NEW c \in Slots, record' = record,
               Take(c) \/ Deliver(c) \/ DeliverFails(c)
        PROVE  Channel!Next \/ UNCHANGED Channel!channelVars
    <3>m. PICK m : m = call[c].msg
      OBVIOUS
    <3>0. acc' = acc /\ rep' = rep
      BY <2>3
    <3>1. CASE Take(c)
      <4>1. /\ m \in Msgs \ taken /\ record[m] # "none"
            /\ taken' = taken \cup {m} /\ arr' = arr
        BY <3>m, <3>1, CallMoves
      <4>2. CASE m \in G
        <5>1. tak' = tak \cup {m} /\ m \in acc \ tak
          BY <4>1, <4>2
        <5>2. Channel!Take(m)
          BY <3>0, <4>1, <5>1 DEF Channel!Take
        <5> QED BY <1>0, <4>2, <5>2
      <4>3. CASE m \notin G
        <5>1. tak' = tak
          BY <4>1, <4>3
        <5> QED BY <3>0, <4>1, <5>1 DEF Channel!channelVars
      <4> QED BY <4>2, <4>3
    <3>2. CASE Deliver(c)
      <4>1. /\ m \in taken \cap Msgs /\ tak' = tak
            /\ m \notin QueueFails => inbox[m] = 0 /\ inbox'[m] = 1
            /\ \A n \in Msgs \ {m} : inbox'[n] = inbox[n]
        BY <2>t, <3>m, <3>2, CallMoves
      <4>2. CASE m \in G
        <5>1. arr' = arr \cup {m} /\ m \in tak \ arr
          BY <4>1, <4>2
        <5>2. Channel!Arrive(m)
          BY <3>0, <4>1, <5>1 DEF Channel!Arrive
        <5> QED BY <1>0, <4>2, <5>2
      <4>3. CASE m \notin G
        <5>1. arr' = arr
          BY <4>1, <4>3
        <5> QED BY <3>0, <4>1, <5>1 DEF Channel!channelVars
      <4> QED BY <4>2, <4>3
    <3>3. CASE DeliverFails(c)
      <4>1. tak' = tak /\ arr' = arr
        BY <3>m, <3>3, CallMoves
      <4> QED BY <3>0, <4>1 DEF Channel!channelVars
    <3> QED BY <2>3, <3>1, <3>2, <3>3
  <2> QED BY <2>1, <2>2, <2>3, RecordEffects
<1> QED BY <1>1, <1>2, ChannelInvariant, PTL DEF Spec, ImplementsChannel, Channel!Spec

(* A message stays forwarded, and leaves the outbox only with its peer or  *)
(* once its peer has it.                                                   *)
THEOREM UndeliveredIsKept == Spec => OutboxKeepsUndelivered
<1> DEFINE Kept(m) == /\ record[m] = "forwarded" => record'[m] = "forwarded"
                      /\ m \in outbox \ (outbox' \cup QueueFails) =>
                           m \in taken \/ to[m] \notin peers'
<1>1. ChannelInv /\ [Next]_vars => [\A m \in Msgs : Kept(m)]_vars
  <2> SUFFICES ASSUME ChannelInv, [Next]_vars, NEW m \in Msgs
               PROVE  Kept(m)
    OBVIOUS
  <2>t. record \in [Msgs -> {"none", "queued", "forwarded"}]
    BY DEF ChannelInv, TypeInv, HubOK
  <2>1. record[m] = "forwarded" => record'[m] = "forwarded"
    BY <2>t, RecordEffects, RecordMoves DEF Settled
  <2>2. ASSUME m \in outbox \ (outbox' \cup QueueFails)
        PROVE  m \in taken \/ to[m] \notin peers'
    <3>1. ASSUME NEW p \in Peers, DeletePeer(p) PROVE to[m] \notin peers'
      BY <2>2, <3>1 DEF DeletePeer
    <3>2. ASSUME NEW r \in Runs, MarkDelivered(r) PROVE m \in taken
      BY <2>2, <3>2 DEF MarkDelivered, At, ChannelInv, OkIsTaken
    <3>3. CASE UNCHANGED vars \/ (\E n \in Msgs : BackoffElapses(n)) \/ Kick
               \/ \E r \in Publishers, n \in Msgs, p \in Peers : PublishRemote(r, n, p)
      BY <2>2, <3>3 DEF vars, hubVars, BackoffElapses, Kick, PublishRemote
    <3>4. ASSUME NEW p \in Peers, ~DeletePeer(p),
                 PeerCall(p) \/ OrgTrustCall(p) \/ AgentTrustCall(p) \/ TrustChanges(p)
          PROVE  FALSE
      BY <2>2, <3>4 DEF PeerCall, OrgTrustCall, AgentTrustCall, CreatePeer,
         CreateRemoteTrust, DeleteRemoteTrust, TrustChanges, hubVars
    <3>5. ASSUME NEW r \in Runs, ~MarkDelivered(r),
                 RunStep(r) \/ \E c \in Slots : AnswerMissed(r, c)
          PROVE  FALSE
      BY <2>2, <3>5 DEF RunStep, Register, EnqueueOutbound, EnqueueOutboundFails, ListDue,
         Finish, SkipGonePeer, SendFails, Send, Refused, Answered, MarkForwarded,
         AnswerMissed, hubVars
    <3>6. ASSUME NEW c \in Slots, Handle(c) \/ RequestLost(c) PROVE FALSE
      BY <2>2, <3>6 DEF Handle, Refuse, Take, Duplicate, Deliver, DeliverFails,
         RequestLost, hubVars
    <3> QED BY <3>1, <3>2, <3>3, <3>4, <3>5, <3>6 DEF Next
  <2> QED BY <2>1, <2>2
<1> QED BY <1>1, ChannelInvariant, PTL DEF Spec, OutboxKeepsUndelivered

-----------------------------------------------------------------------------
(* What is accepted for a peer is not forgotten. *)

(* A run that holds a message stays so until it acts, and what is in the   *)
(* outbox, or went with its peer, stays there.                             *)
LEMMA HeldStays ==
  ASSUME TypeInv, CallsAwaited, [Next]_vars, NEW r \in Runs,
         run[r].pc \in {"enqueue", "forward"},
         ~EnqueueOutbound(r), ~EnqueueOutboundFails(r), ~MarkForwarded(r)
  PROVE  run'[r] = run[r]
<1>t. RunsOK /\ CallsOK
  BY DEF TypeInv
<1>0. ASSUME NEW s \in Runs, OthersRun(s), s # r PROVE run'[r] = run[r]
  BY <1>0 DEF OthersRun
<1>1. ASSUME NEW s \in Publishers, NEW n \in Msgs, NEW p \in Peers, PublishRemote(s, n, p)
      PROVE  run'[r] = run[r]
  <2>1. s \in Runs /\ OthersRun(s) /\ run[s].pc = "idle"
    BY <1>t, <1>1, HoldEffect DEF PublishRemote, Runs, At
  <2> QED BY <1>0, <2>1
<1>2. CASE Kick
  <2>1. Background \in Runs
    BY DEF Runs
  <2>2. OthersRun(Background) /\ run[Background].pc = "idle"
    BY <1>2, <1>t, <2>1, GoEffect DEF Kick, At
  <2> QED BY <1>0, <2>1, <2>2
<1>3. ASSUME NEW s \in Runs, RunStep(s) PROVE run'[r] = run[r]
  <2>1. CASE s # r
    <3>1. CASE Register(s) \/ EnqueueOutbound(s) \/ MarkDelivered(s) \/ MarkForwarded(s)
      BY <1>0, <1>t, <2>1, <3>1, GoEffect
         DEF Register, EnqueueOutbound, MarkDelivered, MarkForwarded
    <3>2. CASE EnqueueOutboundFails(s) \/ Finish(s)
      BY <1>0, <1>t, <2>1, <3>2, RunBecomes DEF EnqueueOutboundFails, Finish
    <3>3. CASE ListDue(s)
      BY <1>0, <2>1, <3>3, ListEffect
    <3>4. ASSUME NEW n \in run[s].batch, NEW c \in Slots,
                 SkipGonePeer(s, n) \/ SendFails(s, n) \/ Send(s, n, c)
          PROVE  run'[r] = run[r]
      BY <1>0, <1>t, <2>1, <3>4, TakeFromEffect DEF SkipGonePeer, SendFails, Send
    <3>5. ASSUME NEW n \in run[s].batch, SkipGonePeer(s, n) \/ SendFails(s, n)
          PROVE  run'[r] = run[r]
      BY <1>0, <1>t, <2>1, <3>5, TakeFromEffect DEF SkipGonePeer, SendFails
    <3>6. ASSUME NEW c \in Slots, Refused(s, c) \/ Answered(s, c)
          PROVE  run'[r] = run[r]
      BY <1>0, <1>t, <2>1, <3>6, GoEffect DEF Refused, Answered
    <3> QED BY <1>3, <3>1, <3>2, <3>3, <3>4, <3>5, <3>6 DEF RunStep
  <2>2. CASE s = r
    BY <1>3, <2>2 DEF RunStep, Register, ListDue, Finish, SkipGonePeer, SendFails, Send,
       Turn, Refused, Answered, MarkDelivered, At
  <2> QED BY <2>1, <2>2
<1>4. ASSUME NEW s \in Runs, NEW c \in Slots, AnswerMissed(s, c)
      PROVE  run'[r] = run[r]
  <2>1. OthersRun(s) /\ run[s].pc = "await"
    BY <1>4, <1>t, MissedEffect DEF AnswerMissed, At
  <2> QED BY <1>0, <2>1
<1>5. ASSUME NEW p \in Peers, PeerCall(p) \/ OrgTrustCall(p) \/ AgentTrustCall(p)
                               \/ TrustChanges(p)
      PROVE  run' = run
  BY <1>5 DEF PeerCall, OrgTrustCall, AgentTrustCall, CreatePeer, DeletePeer,
     CreateRemoteTrust, DeleteRemoteTrust, TrustChanges
<1>6. ASSUME NEW c \in Slots, Handle(c) \/ RequestLost(c) PROVE run' = run
  BY <1>6 DEF Handle, Refuse, Take, Duplicate, Deliver, DeliverFails, RequestLost
<1>7. CASE (\E n \in Msgs : BackoffElapses(n)) \/ UNCHANGED vars
  BY <1>7 DEF BackoffElapses, vars
<1> QED BY <1>1, <1>2, <1>3, <1>4, <1>5, <1>6, <1>7 DEF Next

LEMMA OutboxStays ==
  ASSUME [Next]_vars, NEW m \in outbox \cup orphaned,
         ~\E r \in Runs : MarkDelivered(r) /\ run[r].msg = m
  PROVE  m \in outbox' \cup orphaned'
<1>1. ASSUME NEW p \in Peers, DeletePeer(p) PROVE m \in outbox' \cup orphaned'
  BY <1>1 DEF DeletePeer
<1>2. ASSUME NEW r \in Runs, MarkDelivered(r) PROVE m \in outbox' \cup orphaned'
  BY <1>2 DEF MarkDelivered
<1>3. CASE UNCHANGED vars \/ (\E n \in Msgs : BackoffElapses(n)) \/ Kick
           \/ \E r \in Publishers, n \in Msgs, p \in Peers : PublishRemote(r, n, p)
  BY <1>3 DEF vars, hubVars, BackoffElapses, Kick, PublishRemote
<1>4. ASSUME NEW p \in Peers, ~DeletePeer(p),
             PeerCall(p) \/ OrgTrustCall(p) \/ AgentTrustCall(p) \/ TrustChanges(p)
      PROVE  m \in outbox' \cup orphaned'
  BY <1>4 DEF PeerCall, OrgTrustCall, AgentTrustCall, CreatePeer,
     CreateRemoteTrust, DeleteRemoteTrust, TrustChanges, hubVars
<1>5. ASSUME NEW r \in Runs, ~MarkDelivered(r),
             RunStep(r) \/ \E c \in Slots : AnswerMissed(r, c)
      PROVE  m \in outbox' \cup orphaned'
  BY <1>5 DEF RunStep, Register, EnqueueOutbound, EnqueueOutboundFails, ListDue,
     Finish, SkipGonePeer, SendFails, Send, Refused, Answered, MarkForwarded,
     AnswerMissed, hubVars
<1>6. ASSUME NEW c \in Slots, Handle(c) \/ RequestLost(c)
      PROVE  m \in outbox' \cup orphaned'
  BY <1>6 DEF Handle, Refuse, Take, Duplicate, Deliver, DeliverFails, RequestLost, hubVars
<1> QED BY <1>1, <1>2, <1>3, <1>4, <1>5, <1>6 DEF Next

(* A message accepted for a peer is in the outbox, or held by the run that *)
(* is queueing it or has its answer, until it is forwarded or its peer is  *)
(* deleted.                                                                *)
THEOREM AcceptedIsKept == Spec => []QueuedIsKept
<1>1. Init => QueuedIsKept
  BY DEF Init, QueuedIsKept
<1>2. ChannelInv /\ QueuedIsKept /\ [Next]_vars => QueuedIsKept'
  <2> SUFFICES ASSUME ChannelInv, QueuedIsKept, [Next]_vars,
                      NEW m \in Msgs, record'[m] = "queued"
               PROVE  \/ m \in outbox' \cup orphaned'
                      \/ \E r \in Runs : run'[r].pc \in {"enqueue", "forward"}
                                         /\ run'[r].msg = m
    BY DEF QueuedIsKept, At
  <2>t. TypeInv /\ CallsAwaited /\ RunsOK
        /\ record \in [Msgs -> {"none", "queued", "forwarded"}]
    BY DEF ChannelInv, TypeInv, HubOK
  <2>1. ASSUME NEW r \in Runs, Register(r), run[r].msg = m
        PROVE  run'[r].pc = "enqueue" /\ run'[r].msg = m
    BY <2>1, <2>t, GoEffect DEF Register
  <2>2. record[m] = "queued" \/ \E r \in Runs : Register(r) /\ run[r].msg = m
    BY <2>t, RecordEffects, RecordMoves DEF Settled
  <2>3. CASE record[m] = "queued"
    <3>1. CASE m \in outbox \cup orphaned
      <4>1. ASSUME NEW r \in Runs, MarkDelivered(r), run[r].msg = m
            PROVE  run'[r].pc = "forward" /\ run'[r].msg = m
        BY <4>1, <2>t, GoEffect DEF MarkDelivered
      <4> QED BY <3>1, <4>1, OutboxStays
    <3>2. ASSUME NEW r \in Runs, run[r].pc \in {"enqueue", "forward"}, run[r].msg = m
          PROVE  \/ m \in outbox'
                 \/ run'[r].pc \in {"enqueue", "forward"} /\ run'[r].msg = m
      <4>1. CASE EnqueueOutbound(r)
        <5>1. outbox' = outbox \cup {run[r].msg}
          BY <4>1 DEF EnqueueOutbound
        <5> QED BY <3>2, <5>1
      <4>2. ~EnqueueOutboundFails(r) /\ ~MarkForwarded(r)
        BY <2>t, <3>2, RecordMoves
      <4>3. CASE ~EnqueueOutbound(r)
        BY <2>t, <3>2, <4>2, <4>3, HeldStays
      <4> QED BY <4>1, <4>3
    <3> QED BY <2>3, <3>1, <3>2 DEF QueuedIsKept, At
  <2> QED BY <2>1, <2>2, <2>3
<1> QED BY <1>1, <1>2, ChannelInvariant, PTL DEF Spec

(* Every call in the middle of handling goes on, but for the one that      *)
(* delivers its message or fails to.                                       *)
LEMMA HandlingStays ==
  ASSUME CallsOK, RunsOK, [Next]_vars, NEW c \in Slots, Handling(c),
         ~Deliver(c), ~DeliverFails(c)
  PROVE  Handling(c)' /\ call'[c].msg = call[c].msg
<1>0. ASSUME NEW d \in Slots, d # c, OthersCall(d)
      PROVE  Handling(c)' /\ call'[c].msg = call[c].msg
  BY <1>0 DEF OthersCall, Handling
<1>1. ASSUME NEW r \in Runs, RunStep(r) \/ \E d \in Slots : AnswerMissed(r, d)
      PROVE  Handling(c)' /\ call'[c].msg = call[c].msg
  <2>1. ASSUME NEW d \in Slots, AnswerMissed(r, d)
        PROVE  Handling(c)' /\ call'[c].msg = call[c].msg
    BY <1>0, <2>1, MissedEffect DEF Handling
  <2>2. ASSUME NEW n \in run[r].batch, NEW d \in Slots, Send(r, n, d)
        PROVE  Handling(c)' /\ call'[c].msg = call[c].msg
    <3>1. d # c /\ OthersCall(d)
      BY <2>2, CallBecomes DEF Send, Handling
    <3> QED BY <1>0, <3>1
  <2>3. ASSUME NEW d \in Slots, Refused(r, d) \/ Answered(r, d)
        PROVE  Handling(c)' /\ call'[c].msg = call[c].msg
    <3>1. d # c /\ OthersCall(d)
      BY <2>3, CallBecomes DEF Refused, Answered, Handling
    <3> QED BY <1>0, <3>1
  <2>4. CASE call' = call
    BY <2>4 DEF Handling
  <2> QED BY <1>1, <2>1, <2>2, <2>3, <2>4 DEF RunStep, Register, EnqueueOutbound,
          EnqueueOutboundFails, ListDue, Finish, SkipGonePeer, SendFails, MarkDelivered,
          MarkForwarded
<1>2. ASSUME NEW d \in Slots, Handle(d) \/ RequestLost(d)
      PROVE  Handling(c)' /\ call'[c].msg = call[c].msg
  <2>1. OthersCall(d)
    BY <1>2, ReplyEffect, TakeEffect, CallBecomes DEF Handle, Refuse, Take, Duplicate,
       Deliver, DeliverFails, RequestLost
  <2>2. d # c
    BY <1>2 DEF Handle, Refuse, Take, Duplicate, RequestLost, Handling
  <2> QED BY <1>0, <2>1, <2>2
<1>3. ASSUME NEW p \in Peers, PeerCall(p) \/ OrgTrustCall(p) \/ AgentTrustCall(p)
                               \/ TrustChanges(p)
      PROVE  call' = call
  BY <1>3 DEF PeerCall, OrgTrustCall, AgentTrustCall, CreatePeer, DeletePeer,
     CreateRemoteTrust, DeleteRemoteTrust, TrustChanges
<1>4. CASE \/ \E r \in Publishers, m \in Msgs, p \in Peers : PublishRemote(r, m, p)
           \/ Kick \/ (\E m \in Msgs : BackoffElapses(m)) \/ UNCHANGED vars
  BY <1>4 DEF PublishRemote, Kick, BackoffElapses, vars, Handling
<1> QED BY <1>1, <1>2, <1>3, <1>4 DEF Next, Handling

(* What the hub reports forwarded is in the receiver's queue, or with the  *)
(* handler that is to put it there.                                        *)
THEOREM ReportedIsTaken == Spec => []ForwardedIsTaken
<1>1. Init => TakenArrives
  BY DEF Init, TakenArrives
<1>2. ChannelInv /\ TakenArrives /\ [Next]_vars => TakenArrives'
  <2> SUFFICES ASSUME ChannelInv, TakenArrives, [Next]_vars,
                      NEW m \in taken' \ QueueFails
               PROVE  inbox'[m] = 1 \/ \E c \in Slots : Handling(c)' /\ call'[c].msg = m
    BY DEF TakenArrives, Handling
  <2>t. CallsOK /\ RunsOK /\ inbox \in [Msgs -> Nat] /\ taken \subseteq Msgs
    BY DEF ChannelInv, TypeInv, PeerOK
  <2>1. ASSUME NEW c \in Slots, Take(c), call[c].msg = m
        PROVE  Handling(c)' /\ call'[c].msg = m
    BY <2>1, <2>t, TakeEffect DEF Handling
  <2>2. m \in taken \/ \E c \in Slots : Take(c) /\ call[c].msg = m
    BY RecordEffects, CallMoves DEF Settled
  <2>3. CASE m \in taken
    <3>1. CASE inbox[m] = 1
      BY <2>t, <2>3, <3>1, RecordEffects, CallMoves DEF Settled
    <3>2. ASSUME NEW c \in Slots, Handling(c), call[c].msg = m
          PROVE  inbox'[m] = 1 \/ (Handling(c)' /\ call'[c].msg = m)
      <4>1. CASE Deliver(c)
        BY <2>t, <3>2, <4>1, CallMoves
      <4>2. ~DeliverFails(c)
        BY <3>2 DEF DeliverFails
      <4> QED BY <2>t, <3>2, <4>1, <4>2, HandlingStays
    <3> QED BY <2>3, <3>1, <3>2 DEF TakenArrives
  <2> QED BY <2>1, <2>2, <2>3
<1>3. ChannelInv /\ TakenArrives => ForwardedIsTaken
  BY DEF ChannelInv, ForwardedAtPeer, TakenArrives, ForwardedIsTaken, Handling
<1> QED BY <1>1, <1>2, <1>3, ChannelInvariant, PTL DEF Spec

=============================================================================
