---------------------------- MODULE PeerFederation ----------------------------
(***************************************************************************)
(* Federation: a hub with an outbox of messages for peer hubs, which it    *)
(* sends again until the peer answers, and the handler of a peer that      *)
(* takes them.  The outbox is drained by one background run, started by    *)
(* any request, and by every publish for its own message; the two are not  *)
(* kept apart.  A call can be cut off while its handler still runs at the  *)
(* peer.  Outbound ids are those of their messages.                        *)
(***************************************************************************)
EXTENDS Naturals, FiniteSets, FiniteSetsExt

CONSTANTS
  Peers,        \* the peer ids, in the order the outbox is drained in
  Msgs,         \* the messages that may be published
  Publishers,   \* the requests that publish
  Background,   \* the background run of the outbox
  Slots,        \* the calls that may be under way at the peers (bound)
  Limit,        \* how many outbounds the background run takes at a time
  OrgScoped,    \* whether the sender belongs to an organization
  Hanging,      \* the peers that may leave a call unanswered
  QueueFails,   \* the messages a peer's queue may refuse
  Nil

ASSUME PeersAssumption == Peers \subseteq Nat /\ Nil \notin Peers
ASSUME NilAssumption   == Nil \notin Msgs /\ Nil \notin Publishers \cup {Background}
ASSUME RunsAssumption  == Background \notin Publishers
ASSUME LimitAssumption == Limit \in Nat \ {0}

VARIABLES
  peers,      \* peerInstances: the peers registered at the hub
  trusts,     \* remoteOrgTrusts, remoteAgentTrusts: the kinds held per peer
  record,     \* messageRecords of the hub: the status of each message
  to,         \* the peer each message is addressed to
  outbox,     \* peerOutbounds
  due,        \* the outbounds whose next attempt is due
  health,     \* LastSuccessfulAt and LastFailureAt of each peer
  run,        \* what each drain of the outbox and each publish is doing
  call,       \* the calls under way, or still handled at a peer
  trusting,   \* the peers that know the hub and trust its sender
  taken,      \* messageRecords of the peers
  inbox,      \* how often each message was put in the receiver's queue
  misreported, \* the messages put there by a call that failed (history)
  orphaned    \* the messages whose outbound went with its peer (history)

hubVars  == <<peers, trusts, record, to, outbox, due, health, orphaned>>
peerVars == <<trusting, taken, inbox, misreported>>
vars     == <<hubVars, peerVars, run, call>>

Runs    == Publishers \cup {Background}
Kinds   == {"org", "agent"}
RunPC   == {"idle", "register", "enqueue", "drain", "next", "await",
            "delivered", "forward"}
IdleRun == [pc |-> "idle", msg |-> Nil, batch |-> {}, expired |-> FALSE]
NoCall  == [by |-> Nil, msg |-> Nil, at |-> "free"]

At(r, pc)   == run[r].pc = pc
Go(r, pc)   == run' = [run EXCEPT ![r] = [@ EXCEPT !.pc = pc]]
Hold(r, pc, m) == run' = [run EXCEPT ![r] = [@ EXCEPT !.pc = pc, !.msg = m]]

(* hasActiveFederatedTrustPath: a personal agent needs no org trust. *)
HasActiveTrust(p, kind) == kind \in trusts[p]
TrustPath(p) == HasActiveTrust(p, "agent") /\ (OrgScoped => HasActiveTrust(p, "org"))

Init ==
  /\ peers = {} /\ trusts = [p \in Peers |-> {}]
  /\ record = [m \in Msgs |-> "none"] /\ to = [m \in Msgs |-> Nil]
  /\ outbox = {} /\ due = {} /\ orphaned = {}
  /\ health = [p \in Peers |-> "unknown"]
  /\ run = [r \in Runs |-> IdleRun]
  /\ call = [c \in Slots |-> NoCall]
  /\ trusting = Peers /\ taken = {} /\ inbox = [m \in Msgs |-> 0] /\ misreported = {}

-----------------------------------------------------------------------------
(* Administration, at the hub and at the peers. *)

CreatePeer(p) ==
  /\ p \notin peers
  /\ peers' = peers \cup {p}
  /\ UNCHANGED <<trusts, record, to, outbox, due, orphaned, health, run, call,
                 peerVars>>

DeletePeer_LeavesOutbox(p) ==   \* mutant: the outbounds outlive their peer
  /\ p \in peers
  /\ peers' = peers \ {p}
  /\ trusts' = [trusts EXCEPT ![p] = {}]
  /\ health' = [health EXCEPT ![p] = "unknown"]
  /\ UNCHANGED <<record, to, outbox, due, orphaned, run, call, peerVars>>

(* The outbounds and the trusts of a peer go with it; the records of the   *)
(* messages do not.                                                        *)
DeletePeer(p) ==
  LET gone == {m \in outbox : to[m] = p} IN
  /\ p \in peers
  /\ peers' = peers \ {p}
  /\ trusts' = [trusts EXCEPT ![p] = {}]
  /\ outbox' = outbox \ gone
  /\ due' = due \ gone
  /\ orphaned' = orphaned \cup gone
  /\ health' = [health EXCEPT ![p] = "unknown"]
  /\ UNCHANGED <<record, to, run, call, peerVars>>

CreateRemoteTrust(p, kind) ==
  /\ p \in peers
  /\ trusts' = [trusts EXCEPT ![p] = @ \cup {kind}]
  /\ UNCHANGED <<peers, record, to, outbox, due, orphaned, health, run, call,
                 peerVars>>

DeleteRemoteTrust(p, kind) ==
  /\ kind \in trusts[p]
  /\ trusts' = [trusts EXCEPT ![p] = @ \ {kind}]
  /\ UNCHANGED <<peers, record, to, outbox, due, orphaned, health, run, call,
                 peerVars>>

(* The peer's own administrator registers or trusts the hub, or no longer. *)
TrustChanges(p) ==
  /\ trusting' \in {trusting \cup {p}, trusting \ {p}}
  /\ UNCHANGED <<hubVars, run, call, taken, inbox, misreported>>

-----------------------------------------------------------------------------
(* Publishing to an agent of a peer: each lookup and each update takes the *)
(* store's lock for itself.  A publish sent again with its client_msg_id   *)
(* gets the record there is, and changes nothing of what is kept here.     *)

PublishRemote(r, m, p) ==
  /\ At(r, "idle")
  /\ record[m] = "none" /\ to[m] = Nil
  /\ p \in peers /\ TrustPath(p)
  /\ to' = [to EXCEPT ![m] = p]
  /\ Hold(r, "register", m)
  /\ UNCHANGED <<peers, trusts, record, outbox, due, orphaned, health, call,
                 peerVars>>

Register(r) ==
  /\ At(r, "register")
  /\ record' = [record EXCEPT ![run[r].msg] = "queued"]
  /\ Go(r, "enqueue")
  /\ UNCHANGED <<peers, trusts, to, outbox, due, orphaned, health, call, peerVars>>

(* The new outbound is due at once, and the publish drains one outbound.   *)
EnqueueOutbound(r) ==
  LET m == run[r].msg IN
  /\ At(r, "enqueue")
  /\ to[m] \in peers
  /\ outbox' = outbox \cup {m}
  /\ due' = due \cup {m}
  /\ Go(r, "drain")
  /\ UNCHANGED <<peers, trusts, record, to, orphaned, health, call, peerVars>>

(* The peer was deleted meanwhile, or there is no id to be had for the     *)
(* outbound: the publish fails, the record goes.                           *)
EnqueueOutboundFails(r) ==
  /\ At(r, "enqueue")
  /\ record' = [record EXCEPT ![run[r].msg] = "none"]
  /\ run' = [run EXCEPT ![r] = IdleRun]
  /\ UNCHANGED <<peers, trusts, to, outbox, due, orphaned, health, call, peerVars>>

-----------------------------------------------------------------------------
(* processPeerOutboxes. *)

(* Any request but a peer's starts the background run unless it is running. *)
Kick ==
  /\ At(Background, "idle")
  /\ Go(Background, "drain")
  /\ UNCHANGED <<hubVars, call, peerVars>>

(* The outbounds taken up: at most `limit', those of the first peers. *)
Batches(limit) ==
  {b \in SUBSET due :
     /\ Cardinality(b) = Min({limit, Cardinality(due)})
     /\ \A m \in b, n \in due \ b : to[m] <= to[n]}

ListDue(r) ==
  /\ At(r, "drain")
  /\ \E b \in Batches(IF r = Background THEN Limit ELSE 1) :
       run' = [run EXCEPT ![r] = [IdleRun EXCEPT !.pc = "next", !.batch = b]]
  /\ UNCHANGED <<hubVars, call, peerVars>>

Finish(r) ==
  /\ At(r, "next") /\ run[r].batch = {}
  /\ run' = [run EXCEPT ![r] = IdleRun]
  /\ UNCHANGED <<hubVars, call, peerVars>>

(* The outbound a run turns to next: it was copied, so it may be gone.     *)
Turn(r, m) ==
  /\ At(r, "next")
  /\ m \in run[r].batch
  /\ \A n \in run[r].batch : to[m] <= to[n]

TakeFrom(r, m, pc) ==
  run' = [run EXCEPT ![r] = [@ EXCEPT !.pc = pc, !.msg = m, !.batch = run[r].batch \ {m}]]

(* RecordPeerDeliveryFailure, MarkPeerOutboundRetry: two calls, but the    *)
(* first touches health only, which no step reads.  An outbound that is    *)
(* gone stays gone.                                                        *)
Retry(m) ==
  /\ health' = [health EXCEPT ![to[m]] = IF to[m] \in peers THEN "failed" ELSE @]
  /\ due' = due \ {m}

SkipGonePeer(r, m) ==
  /\ Turn(r, m)
  /\ to[m] \notin peers
  /\ TakeFrom(r, m, "next")
  /\ UNCHANGED <<hubVars, call, peerVars>>

Send(r, m, c) ==
  /\ Turn(r, m) /\ ~run[r].expired
  /\ to[m] \in peers
  /\ call[c].at = "free"
  /\ call' = [call EXCEPT ![c] = [by |-> r, msg |-> m, at |-> "sent"]]
  /\ TakeFrom(r, m, "await")
  /\ UNCHANGED <<hubVars, peerVars>>

(* The peer cannot be reached, or the run's deadline has passed: nothing   *)
(* is sent, and the attempt counts as failed.                              *)
SendFails(r, m) ==
  /\ Turn(r, m)
  /\ to[m] \in peers
  /\ run[r].expired \/ to[m] \in Hanging
  /\ Retry(m)
  /\ TakeFrom(r, m, "next")
  /\ UNCHANGED <<peers, trusts, record, to, outbox, orphaned, call, peerVars>>

AnswerMissed_GivesUp(r, c) ==   \* mutant: a call that was cut off is not repeated
  /\ At(r, "await") /\ call[c].by = r
  /\ to[call[c].msg] \in Hanging
  /\ call' = [call EXCEPT ![c] = IF @.at \in {"ok", "refused"} THEN NoCall
                                 ELSE [@ EXCEPT !.by = Nil]]
  /\ outbox' = outbox \ {run[r].msg} /\ due' = due \ {run[r].msg}
  /\ Go(r, "next")
  /\ UNCHANGED <<peers, trusts, record, to, health, orphaned, peerVars>>

(* The call is cut off: its handler may not have run, or may still run.    *)
(* The wait may use up the deadline of the run, which is that of one call. *)
AnswerMissed(r, c) ==
  /\ At(r, "await") /\ call[c].by = r
  /\ to[call[c].msg] \in Hanging
  /\ call' = [call EXCEPT ![c] = IF @.at \in {"ok", "refused"} THEN NoCall
                                 ELSE [@ EXCEPT !.by = Nil]]
  /\ Retry(run[r].msg)
  /\ \E late \in BOOLEAN :
       run' = [run EXCEPT ![r] = [@ EXCEPT !.pc = "next", !.expired = late]]
  /\ UNCHANGED <<peers, trusts, record, to, outbox, orphaned, peerVars>>

Refused(r, c) ==
  /\ At(r, "await") /\ call[c].by = r /\ call[c].at = "refused"
  /\ call' = [call EXCEPT ![c] = NoCall]
  /\ Retry(run[r].msg)
  /\ Go(r, "next")
  /\ UNCHANGED <<peers, trusts, record, to, outbox, orphaned, peerVars>>

Answered_AnyStatus(r, c) ==   \* mutant: the status of the answer is not looked at
  /\ At(r, "await") /\ call[c].by = r /\ call[c].at \in {"ok", "refused"}
  /\ call' = [call EXCEPT ![c] = NoCall]
  /\ health' = [health EXCEPT ![to[run[r].msg]] = IF to[run[r].msg] \in peers THEN "ok" ELSE @]
  /\ Go(r, "delivered")
  /\ UNCHANGED <<peers, trusts, record, to, outbox, due, orphaned, peerVars>>

Answered(r, c) ==
  /\ At(r, "await") /\ call[c].by = r /\ call[c].at = "ok"
  /\ call' = [call EXCEPT ![c] = NoCall]
  /\ health' = [health EXCEPT ![to[run[r].msg]] = IF to[run[r].msg] \in peers THEN "ok" ELSE @]
  /\ Go(r, "delivered")
  /\ UNCHANGED <<peers, trusts, record, to, outbox, due, orphaned, peerVars>>

MarkDelivered(r) ==
  LET m == run[r].msg IN
  /\ At(r, "delivered")
  /\ outbox' = outbox \ {m}
  /\ due' = due \ {m}
  /\ Go(r, "forward")
  /\ UNCHANGED <<peers, trusts, record, to, orphaned, health, call, peerVars>>

MarkForwarded(r) ==
  LET m == run[r].msg IN
  /\ At(r, "forward")
  /\ record' = [record EXCEPT ![m] = IF @ = "none" THEN "none" ELSE "forwarded"]
  /\ Go(r, "next")
  /\ UNCHANGED <<peers, trusts, to, outbox, due, orphaned, health, call, peerVars>>

BackoffElapses(m) ==
  /\ m \in outbox \ due
  /\ due' = due \cup {m}
  /\ UNCHANGED <<peers, trusts, record, to, outbox, orphaned, health, run, call,
                 peerVars>>

-----------------------------------------------------------------------------
(* handlePeerInboundMessage at the peer.  A caller that has gone does not  *)
(* stop the handler; its answer goes nowhere.                              *)

Reply(c, ans) ==
  call' = [call EXCEPT ![c] = IF @.by = Nil THEN NoCall ELSE [@ EXCEPT !.at = ans]]

(* A request nobody waits for may be lost before it reaches the peer. *)
RequestLost(c) ==
  /\ call[c].at = "sent" /\ call[c].by = Nil
  /\ call' = [call EXCEPT ![c] = NoCall]
  /\ UNCHANGED <<hubVars, run, peerVars>>

(* Unknown peer, bad signature or time, unknown receiver, no trust path.   *)
Refuse(c) ==
  /\ call[c].at = "sent"
  /\ to[call[c].msg] \notin trusting
  /\ Reply(c, "refused")
  /\ UNCHANGED <<hubVars, run, peerVars>>

Take_Again(c) ==   \* mutant: an inbound message is not looked up first
  /\ call[c].at = "sent"
  /\ to[call[c].msg] \in trusting
  /\ taken' = taken \cup {call[c].msg}
  /\ call' = [call EXCEPT ![c].at = "taken"]
  /\ UNCHANGED <<hubVars, run, trusting, inbox, misreported>>

Take(c) ==
  /\ call[c].at = "sent"
  /\ to[call[c].msg] \in trusting
  /\ call[c].msg \notin taken
  /\ taken' = taken \cup {call[c].msg}
  /\ call' = [call EXCEPT ![c].at = "taken"]
  /\ UNCHANGED <<hubVars, run, trusting, inbox, misreported>>

Duplicate(c) ==
  /\ call[c].at = "sent"
  /\ to[call[c].msg] \in trusting
  /\ call[c].msg \in taken
  /\ Reply(c, "ok")
  /\ UNCHANGED <<hubVars, run, peerVars>>

Deliver(c) ==
  /\ call[c].at = "taken"
  /\ inbox' = [inbox EXCEPT ![call[c].msg] = @ + 1]
  /\ Reply(c, "ok")
  /\ UNCHANGED <<hubVars, run, trusting, taken, misreported>>

(* The put fails and the record goes, so that the message is sent again.   *)
(* An object store may have done what it reports failed; it does so once   *)
(* for a message (bound).                                                  *)
DeliverFails(c) ==
  LET m == call[c].msg IN
  /\ call[c].at = "taken" /\ m \in QueueFails
  /\ taken' = taken \ {m}
  /\ \/ UNCHANGED <<inbox, misreported>>
     \/ /\ m \notin misreported
        /\ misreported' = misreported \cup {m}
        /\ inbox' = [inbox EXCEPT ![m] = @ + 1]
  /\ Reply(c, "refused")
  /\ UNCHANGED <<hubVars, run, trusting>>

-----------------------------------------------------------------------------
RunStep(r) ==
  \/ Register(r) \/ EnqueueOutbound(r) \/ EnqueueOutboundFails(r)
  \/ ListDue(r) \/ Finish(r)
  \/ \E m \in run[r].batch :
       SkipGonePeer(r, m) \/ SendFails(r, m) \/ \E c \in Slots : Send(r, m, c)
  \/ \E c \in Slots : Refused(r, c) \/ Answered(r, c)
  \/ MarkDelivered(r) \/ MarkForwarded(r)

Handle(c) == Refuse(c) \/ Take(c) \/ Duplicate(c) \/ Deliver(c) \/ DeliverFails(c)

(* The routes of the administrator; an agent's trusts are its owner's too.  *)
PeerCall(p)       == CreatePeer(p) \/ DeletePeer(p)
OrgTrustCall(p)   == CreateRemoteTrust(p, "org") \/ DeleteRemoteTrust(p, "org")
AgentTrustCall(p) == CreateRemoteTrust(p, "agent") \/ DeleteRemoteTrust(p, "agent")

Next ==
  \/ \E p \in Peers :
       PeerCall(p) \/ OrgTrustCall(p) \/ AgentTrustCall(p) \/ TrustChanges(p)
  \/ \E r \in Publishers, m \in Msgs, p \in Peers : PublishRemote(r, m, p)
  \/ Kick
  \/ \E r \in Runs : RunStep(r) \/ \E c \in Slots : AnswerMissed(r, c)
  \/ \E m \in Msgs : BackoffElapses(m)
  \/ \E c \in Slots : Handle(c) \/ RequestLost(c)

Spec == Init /\ [][Next]_vars

(* Requests keep coming, so that runs are started; goroutines that can     *)
(* proceed do; backoffs elapse; a handler at a peer finishes.              *)
FairSpec ==
  /\ Spec
  /\ WF_vars(Kick)
  /\ \A r \in Runs : WF_vars(RunStep(r))
  /\ \A m \in Msgs : WF_vars(BackoffElapses(m))
  /\ \A c \in Slots : WF_vars(Handle(c))

-----------------------------------------------------------------------------
TypeOK ==
  /\ peers \subseteq Peers /\ trusts \in [Peers -> SUBSET Kinds]
  /\ record \in [Msgs -> {"none", "queued", "forwarded"}]
  /\ to \in [Msgs -> Peers \cup {Nil}]
  /\ outbox \subseteq Msgs /\ due \subseteq outbox /\ orphaned \subseteq Msgs
  /\ health \in [Peers -> {"unknown", "ok", "failed"}]
  /\ run \in [Runs -> [pc : RunPC, msg : Msgs \cup {Nil}, batch : SUBSET Msgs,
                       expired : BOOLEAN]]
  /\ call \in [Slots -> [by : Runs \cup {Nil}, msg : Msgs \cup {Nil},
                         at : {"free", "sent", "taken", "ok", "refused"}]]
  /\ trusting \subseteq Peers /\ taken \subseteq Msgs
  /\ misreported \subseteq Msgs /\ inbox \in [Msgs -> Nat]

(* However often the outbox sends a message again, to a peer that may      *)
(* still be handling the first call, the receiver's queue gets it once,    *)
(* and once more only when the queue reports a put failed that was done    *)
(* (handlePeerInboundMessage, the replay of CreateOrGetMessageRecord).     *)
AtMostOnce == \A m \in Msgs : inbox[m] <= IF m \in misreported THEN 2 ELSE 1

(* A peer that is deleted leaves nothing that would be sent to it, or      *)
(* would trust it, should its id be used again (DeletePeerInstance).       *)
NothingOfGonePeers ==
  /\ \A m \in outbox : to[m] \in peers
  /\ \A p \in Peers \ peers : trusts[p] = {} /\ health[p] = "unknown"

(* A message accepted for a peer is not forgotten: as long as it is not    *)
(* forwarded it is in the outbox, or in the hands of a publish or of a     *)
(* run that has its answer, unless its peer was deleted.                   *)
QueuedIsKept ==
  \A m \in Msgs : record[m] = "queued" =>
    \/ m \in outbox \cup orphaned
    \/ \E r \in Runs : At(r, "enqueue") /\ run[r].msg = m
    \/ \E r \in Runs : At(r, "forward") /\ run[r].msg = m

(* A message reported forwarded is in the receiver's queue, or is on its   *)
(* way from a call that has taken it: what a replay is answered on.        *)
ForwardedIsTaken ==
  \A m \in Msgs \ QueueFails : record[m] = "forwarded" =>
    inbox[m] = 1 \/ \E c \in Slots : call[c].at = "taken" /\ call[c].msg = m

(* A message stays forwarded, and an outbound leaves the outbox only with  *)
(* its peer or once the peer has answered for it.                          *)
OutboxKeepsUndelivered ==
  [][\A m \in Msgs :
       /\ record[m] = "forwarded" => record'[m] = "forwarded"
       /\ m \in outbox \ (outbox' \cup QueueFails) =>
            m \in taken \/ to[m] \notin peers']_vars

(* Every outbound to a peer that answers and comes to trust the sender for *)
(* good is delivered in the end: refusals and backoffs only delay it.      *)
OutboxDrains ==
  \A m \in Msgs :
    <>[](\A p \in Peers : to[m] = p => p \in trusting) =>
      [](m \in outbox => <>(m \notin outbox))

(* Federation is a channel that hands a message over once. *)
Channel == INSTANCE PeerChannel WITH
  Msgs     <- Msgs \ QueueFails,
  accepted <- {m \in Msgs \ QueueFails : record[m] # "none"},
  taken    <- taken \ QueueFails,
  arrived  <- {m \in Msgs \ QueueFails : inbox[m] > 0},
  reported <- {m \in Msgs \ QueueFails : record[m] = "forwarded"}

ImplementsChannel == Channel!Spec
=============================================================================
