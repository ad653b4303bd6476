# Verification of MoltenHub

MoltenHub (`src/`, Go) is a hub through which software agents exchange messages.
Humans own organizations and agents, establish trust between organizations and
between agents, and agents publish messages to each other, pull them, and ack or
nack each delivery. Hubs can be federated, and state and queues live in memory or
in an S3 bucket.

This directory holds TLA+ models of the hub, the TLC runs that check them on small
instances and the TLAPS proofs that hold for every instance. `PROJECT.json` lists
the components, the runs, which lines of the source each definition stands for, the
hazards of the code and which properties watch them, and the theorems.

## 1. Inventory

| component | state | operations | interacts with |
|---|---|---|---|
| Message store (`store/memory.go`) | `messageRecords`, `messageByClientMsg`, `queues`, `messageDeliveries`, `queueMetrics`, `stats` | CreateOrGet/Abort/Lease/Ack/Release/ExpireMessageLeases, Enqueue, Dequeue, the purges of RevokeAgent, DeleteAgent, DeleteOrg | called by the message handlers, the federation and the A2A adapter; one mutex |
| Message handlers (`api/handlers_messages.go`, dispatch in `handlers_v1.go`) | the stack of each request | publish, dispatch, pull, ack, nack, requeue of expired leases | several store calls per request, no lock held between them |
| Long-poll waiters (`longpoll/waiters.go`, `pullForAgent`) | `byAgent`: the channels of waiting pulls | Register, cancel, Notify | every handler that queues a message notifies |
| Trust graph (`store/memory.go`) | `orgTrusts`, `agentTrusts` and their pair indexes | request, approve, block, revoke, CanPublish | reads memberships and agents; agent removal edits it |
| Organizations, memberships, invites, access keys | `orgs`, `memberships`, `invites`, `orgAccessKeys`, `personalOrgByHuman` | create, invite, accept, revoke, delete | accepting an invite moves agents; deletion cascades |
| Agent lifecycle | `agents`, `binds`, handle and URI indexes, token index | bind tokens, registration, rotation, finalization, revocation, deletion | trust, queues, presence |
| Agent presence | `agentPresence` | heartbeat, WebSocket open and close | pulls and WebSocket sessions touch it |
| Peer federation (`api/handlers_federation.go`) | peers, remote trusts, `peerOutbox` | publish to a remote agent, outbox delivery with retry, inbound delivery | the peer hub over HTTP |
| S3 state store (`store/s3_state.go`) | memory store plus objects | every control call followed by a persist; load at start | S3 |
| S3 queue store (`store/s3_queue.go`) | queue objects | Enqueue, Dequeue under a lock per agent | S3 |
| Collective event stream | subscribers with a buffer of 64 | subscribe, publish, unsubscribe | every handler publishes events |
| A2A adapter, runtime envelope, WebSocket commands | sessions | translate to publish, pull, ack, nack | message handlers |
| Discovery, router, auth, handles, start-up, signing, tools | none that changes concurrently | decoding, checking, formatting | - |

What makes the code hard to test:

* a request is a sequence of atomic store calls with no lock between them, so every
  pair of requests interleaves, and an agent may be removed between two calls;
* leases expire by the clock, and are taken back only by whichever pull comes next;
* counters and indexes are kept up to date call by call instead of recomputed;
* a pull waits on a channel it registers after it found the queue empty;
* with S3, a call may take effect and still be reported as failed, and a crash may
  come between two writes;
* with federation, deliveries are retried and therefore duplicated.

What makes each component correct: a message is in one place until it is settled
(store and handlers); a waiting pull is woken (long poll); an edge is active only
with both consents, and nothing is left pointing at what was removed (trust graph,
agents, organizations); a message crosses to a peer once (federation); a restart
loses nothing that was answered (S3). Each is made precise in the module's
properties below.

## 2. Modules

| module | what it is |
|---|---|
| `MessageStore` | the message half of `MemoryStore`, one operator per store call |
| `MessageDelivery` | the handlers over it, one action per atomic step of a request |
| `MessageLifecycle` | abstract specification: the life of a message as its publisher and receiver see it |
| `LongPoll` | the waiting of pulls: `Waiters` and the loop of `pullForAgent` |
| `TrustGraph` | trust edges, the roles that decide about them, and all that removes or moves what they join |
| `PeerFederation` | two federated hubs: peers, remote trusts, the outbox, its drains, the inbound handler |
| `PeerChannel` | abstract specification: a channel between two hubs that hands a message over once |
| `PersistedStore` | the S3 state store: memory, one object per entry, the save, the load |
| `DurableState` | requests over it and over the S3 queue store, with calls that fail and crashes |
| `Membership` | humans, organizations, memberships, invites, access keys, and all their indexes |
| `OrgDirectory` | abstract specification: who has which role where |
| `AgentLifecycle` | agents, their names, bearer tokens and bind tokens, and their indexes |
| `Presence` | online and offline: sessions, heartbeats, the shared presence object, staleness |
| `A2ATasks` | tasks as the A2A adapter derives them from message records |
| `MC*` | the instances for TLC |
| `MessageDeliveryProofs`, `LongPollProofs`, `TrustGraphProofs`, `PeerFederationProofs`, `MembershipProofs`, `AgentLifecycleProofs`, `DurableStateProofs`, `PresenceProofs` | the proofs |

Definitions named `X_Something` are variants of `X` with a plausible bug; they are
used in no specification, and exist to show that each property would notice
(`mutants` in `PROJECT.json`).

How they meet: `MessageDelivery` is `MessageStore` plus the handlers, and implements
`MessageLifecycle`; `DurableState` is `PersistedStore` plus the same requests, now with
a save inside each call. `PeerFederation` implements `PeerChannel`. `Membership`
implements `OrgDirectory`, which is what `TrustGraph` takes for granted of roles.
`LongPoll` is the waiting between a pull's empty dequeue and its next one;
`Presence` is the session around such pulls.

Most of the newer modules have a variable `setup`, chosen from the constant `Setups`
in the initial state and never changed: a use of the hub, that is which calls are
made, which faults may come and how many. One run then looks at several
small uses, each of which makes one combination of behaviours meet, instead of
one large use or many runs; the MC module says what each use is for.

### MessageStore and MessageDelivery

Each store call holds `MemoryStore.mu`, so it is one atomic step. A *worker* is a
goroutine that serves one request at a time. `job[w].pc` names the next call of its
handler:

    publish   Authorize -> Register (or RegisterReplay) -> PublishEnqueue -> CountQueued
                                       PublishEnqueueFails -> Abort
    dispatch  the same, the agent being both sender and receiver
    pull      Sweep -> Requeue* (or RequeueFails) -> Dequeue -> Claim
    ack       Ack
    nack      Nack -> PutBack (or PutBackFails)

Between two steps of a worker, other workers step, leases elapse (`LeaseElapses`)
and agents are removed (`RemoveAgents`, the common effect of RevokeAgent, DeleteAgent
and DeleteOrg on messages: purge the queues, and nothing else).

Abstractions: ids are numbers in the order of creation, so that an id also stands
for `CreatedAt`; a delivery id is the pair (message, attempt); a queue slice is the
set of its (index, message) pairs; time is the set of leases whose expiry has
passed. `accepted` and `lost` are history variables. Left out: message text, the
audit log, collective events, `OldestLeaseExpiryAt`, the counter of dropped messages
(it belongs to the trust check), the read-only status query. The error branches of
Lease, Ack, Release and Expire for a record that is missing are not written:
`ClaimNeverFails` and `LeaseMatchesRecord` show they are unreachable.

### LongPoll

A *pull* is a goroutine in `pullForAgent`; a *producer* is any handler that queues a
message and then, in a second step, calls `Notify` (publish, dispatch, nack, requeue,
inbound federation). `waiters[a]` is the set of pulls whose channel is in
`byAgent[a]`, `signalled` the pulls whose channel (capacity one) is full. `Leave` is
the cancel that every branch runs before it goes on to `after`. The constant `Flaky`
admits what an S3 store adds: a dequeue that fails with or without having removed
the message, a claim that fails and puts the message back silently (or fails at
that too), a put that succeeds without an answer. A queue is only its length.

### TrustGraph

Every operation is one store call under `MemoryStore.mu`, so the difficulty is not
interleaving within a request but long sequences of legal calls by people whose
roles change. `orgTrusts` and `agentTrusts` map a pair to its edge; the code's edge
table and pair index are written together everywhere. An edge has the set of its
ends that approved instead of a left and a right flag; left and right matter only
where an administrator of both organizations acts for the left one (`OrgSide`).
`binds` are the bind tokens and agent invites that are neither used nor expired.
Agents keep the record they had when they were deleted, with the status "deleted",
like `archivedAgents`.

`orgConsent` and `agentConsent` are history variables: the ends for which somebody
who was then entitled to speak for them has asked for the trust, or approved it,
since it was last blocked, revoked or dropped. A person entitled for both ends who
acts agrees for both.

Left out: handles, URIs and token hashes (a name that is taken, so that an agent is
not moved, is a free choice in `Join`); invites to an organization, of which only
the acceptance is an action; the limit of two agents per human; access keys; trust
with remote peers. `RegisterAgent` is not modelled: no handler calls it.

### PeerFederation

`run[r]` is a drain of the outbox: the background run, or a publish sending its own
message; nothing keeps the two apart, as in the code. `call[c]` is a delivery at
the peer: sent, taken (its record made), answered or refused; it goes on when the
sender gives up waiting, which is how an answer is lost. `Hanging` are the peers
that may leave a call unanswered, `QueueFails` the messages the peer's queue may
refuse, so that their record is aborted and they are sent again; an object store may
have done the put it reports failed, which the history variable `misreported` keeps.
`PeerChannel` is claimed for the other messages only. A publish sent again with its
`client_msg_id` gets the record there is and changes nothing that is modelled. A peer may be deleted and registered
again at any moment. The signature of a request is taken to be right, and the
receiving hub's own trust is the set `trusting`.

### PersistedStore and DurableState

A call changes memory, then saves: under `persistMu` it compares the *desired*
objects with those *last saved*, puts what differs, deletes what is gone, and notes
the new state as saved only at the end. Objects are written in the order of their
key's kind (entries, leases, records, queues), and within a kind in any order, as the
code sorts by key. Every put and delete is a step; it may fail with or without its
effect, and the hub may crash between any two. `Load` is what a start makes of the
bucket. With `objectQueue`, queues are objects of their own (`s3QueueStore`), put
and deleted directly. Entries stand for all other maps (organizations, peers,
trusts): they have no content and their ids are not used again. The objects of
audit and statistics are not modelled; a failure in one of them is a failing call
whose effect does not matter. `CanReturn` keeps two deliveries in reserve, so that
the bound `MaxDeliveries` never stops a claim in the middle of a request.

### Membership

One store call each, made with any address its human ever presents; `SignIn` may
change the address on record between two calls. Every index is a variable of its own
(`membershipOf`, `inviteSecrets`, `orgByHandle`, `humanByHandle`, `keySecrets`), and
`Restart` rebuilds them as `rebuildStateIndexesLocked` does: where several
records claim one entry, Go's map order decides, so any of them may win. Left out:
metadata documents, audit, lists, `EnsurePersonalOrg`, which no handler calls.

### AgentLifecycle

`nameIdx` stands for the two name indexes, `agentByURI` and `tokens` for theirs.
Two requests may redeem at once: the count of a human's agents, the look at the bind
token and the redemption are separate store calls, and so are the attempts at a
temporary name. A save may fail after memory changed (the caller is told of a failure
and the agent exists), and a crash may separate the object of the new agent from
that of its used token. Who may call is in `TrustGraph` and `Membership`, agents'
invites are in `TrustGraph`.

### Presence

One agent, and one or two hubs over one bucket (as in
`TestS3StateStore_GetAgentPresenceRefreshesFromS3`, `store/s3_state_test.go:1360`). A
session is two goroutines: the reader, which ends with the deferred offline, and the
delivery loop, which makes a heartbeat before every pull. Time is the age of each
record in seconds, cut at `OfflineAfter`; of two records of the same second either
may be the newer. The put of a status that did not change is left out within
`PutInterval`, a put that fails is reported to nobody, and a reader compares what it
read from the bucket with memory only after it has the lock.

### A2ATasks

A task's state is told from its message record and from the *correlated* status
messages, of which the one updated last counts. `Letters` are the messages of a use:
who sends which to whom, what it is about, what it says and in which context. A publish
has its message registered, from when lists show it, and then queued or, when the queue
fails, withdrawn; retry, pull, ack, release, restart and the two queries are one step
each: what lies inside them is in `MessageDelivery` and `DurableState`. `pager` is a
client that goes through a list by a `Filter` (an agent, a context, a state, a time);
its `left` counts, as history, the tasks that have left the list since its first page.

## 3. What is checked

| run | instance | properties |
|---|---|---|
| `delivery` | 2 agents, 2 messages, 1 client_msg_id, 2 workers; either agent may be removed at any step, or never | `SingleCustody`, `NothingForgotten`, `ClaimNeverFails`, `MetricsExact`, `OneRecordPerKey`, `LossNeedsRemoval` |
| `delivery_live` | 2 agents, 2 messages, 2 workers, no client_msg_id | `AcceptedIsDelivered`, `OverdueIsTakenBack`, `ImplementsLifecycle` |
| `delivery_innocent` | 3 agents, the third may be removed | `NoInnocentLoss`: violated (section 5) |
| `longpoll` | 2 agents, one with a store that may fail, 2 pulls, 1 producer, 1 queued at a time | `NoWaiterLeaks`, `NoLostWakeup`, `WaiterIsServed`, `EveryPullEnds` |
| `trust` | 2 organizations, 2 agents, 2 humans; trust is closed by blocking it | `PublishNeedsConsent`, `NoDanglingTrust` |
| `federation` | 1 peer that may hang, 2 messages, one of which its queue may refuse, 2 calls under way | `AtMostOnce`, `NothingOfGonePeers`, `ImplementsChannel`, `OutboxKeepsUndelivered` |
| `durable` | 7 uses: 2 messages under one key; queue objects; status queries; failing calls; control entries; two messages, with and without a failure | `OneCopy`, `AckedIsSettled`, `HistoryIsKept`, `LossNeedsWindow`, `AnswersAreDurable` |
| `durable_live` | 5 uses, each with either a crash or a failure or neither | `AcceptedIsDelivered` |
| `membership` | 4 uses: members who come and go; the same with restarts; names; access keys | `MembersHaveTheirRole`, `NamesAreForEver`, `SpentKeysOpenNothing`, `IsADirectory`, `JoinsNeedAnInvite` |
| `agents` | 6 uses: names and moves; names freed; tokens; the limit with one request and with two; failed saves and crashes | `NamesLeadToAgents`, `DeletedNamesStay`, `TokensOpenTheirAgent`, `OneAnswerPerBind`, `LimitHolds` |
| `presence` | 4 uses: two sessions at one hub with late calls; at two hubs; overtaken readers, a failed put and a crash; a session that moves | `EndedIsOffline`, `OpenIsShownOnline`, `GoneIsShownOffline` |
| `a2a` | 8 uses: 3 agents, up to 4 messages, pages of 1, with failed publishes, redelivery, retries, expiry, filters, a restart | `PagesSkipNothing`, `LastIsTold` |

`MessageDelivery`:

* `SingleCustody` - a message is in at most one queue slot, request, batch or lease.
* `NothingForgotten` - a registered message is in one of them exactly until it is
  acked or lost; nothing brings a settled message back.
* `ClaimNeverFails` - the lease of a dequeued message cannot fail.
* `MetricsExact` - the incremental queue metrics equal a recomputation.
* `OneRecordPerKey` - `client_msg_id` identifies at most one registered message.
* `LossNeedsRemoval` - messages are lost only because an agent was removed.
* `ImplementsLifecycle` - every step is a step of `MessageLifecycle` or a stutter.
* `AcceptedIsDelivered`, `OverdueIsTakenBack` - under the fairness below.

`LongPoll`: `NoWaiterLeaks` (the table holds exactly the channels of pulls between
Register and cancel), `NoLostWakeup` (a pull waits on a non-empty queue only while a
signal or a notification is on its way), `WaiterIsServed` (so it does not stay),
`EveryPullEnds` (its deadline ends it, whatever fails).

`TrustGraph`: `PublishNeedsConsent` (a message may pass only while both agents'
sides and, across organizations, both organizations' sides have agreed since the
trust was last closed), `NoDanglingTrust` (deletions leave nothing that refers to
what is gone).

`PeerFederation`: `AtMostOnce` (the receiver's queue gets a message once, however
often the outbox sends it and whatever answers are lost, and once more only when it
reports a put failed that was done), `NothingOfGonePeers`,
`OutboxKeepsUndelivered` (an outbound leaves the outbox only with its peer or once
the peer has taken it), `ImplementsChannel`.

`DurableState`: `OneCopy` (a message is in one place, also after a restart from a
half-finished save), `AckedIsSettled` (an answered ack survives every crash),
`HistoryIsKept` (and its record stays acked in the bucket, whatever is saved later),
`LossNeedsWindow` (only a request that held a message at the crash loses it),
`AnswersAreDurable` (an entry answered as created and a delivery handed to the receiver,
`CreatedIsDurable` and `HandedIsDurable`, are found after every restart, even if saves
before or after failed), `AcceptedIsDelivered`. The first four are about runs in which
no call of the bucket fails; section 5 says what failures do.

`Membership`: `MembersHaveTheirRole` (the index leads to every active membership,
after a restart too), `NamesAreForEver`, `SpentKeysOpenNothing`, `JoinsNeedAnInvite`
(nobody joins but by a pending invite for his address and that role, which it uses
up), `IsADirectory` (the refinement of `OrgDirectory`). Restarts are offered where a
human joins once; with a second stay the first property fails (section 5).

`AgentLifecycle`: `NamesLeadToAgents`, `DeletedNamesStay`, `TokensOpenTheirAgent`
(the indexes and the agents agree through renames, moves, rotations, deletions and
restarts), `OneAnswerPerBind` (a bind token answers with one agent, when two requests
race and when the hub crashes in between), `LimitHolds` (two agents per human, and one
more for every further request at the same time).

`Presence`: `EndedIsOffline` (when the sessions have ended, everybody is told so at
once: no heartbeat comes after the offline, and the offline is never held back; at one
hub, or at two whose sets come in order - section 5 says what happens elsewhere),
`OpenIsShownOnline` (one that stays open is shown online in the end, although the
close of an older one came later), `GoneIsShownOffline` (whatever failed or crashed).

`A2ATasks`: `PagesSkipNothing` (of the tasks in a list at the start, a client that pages
through it misses at most one for each task that leaves the list meanwhile: none when
tasks only come in, are pulled, acked, put back and sent again under a filter that does
not look at that; section 5 says when one is missed), `LastIsTold` (what was said last of
a task is told in the end, unless messages are held two at a time, put back, sent again
or withdrawn).

Kept beside the listed runs, with the same MC modules (`tlc -config X.cfg MC...`):
`MessageDelivery_more`, `DurableState_more` and `Membership_more` check the type
invariants and further invariants on the instances above and pass (`StatsMatch`,
`LeaseMatchesRecord`; `BucketIsMemory`; `HandlesAreTheirs`, `OneOpenInvite`, `CodesOfPendingInvites`,
`NothingOfGoneOrgs`).
`PeerFederation_drains` passes too: `OutboxDrains`, every outbound is delivered in the
end to a peer that answers and comes to trust the sender. `TrustGraph_super` is `trust`
with a super administrator and with revocations, too long for a listed run; the theorems
of `TrustGraph` hold for any set of them. Those of section 5 give counterexamples.

**Bounds.** `Msgs` bounds the messages ever created, `MaxAttempts` the attempt whose
lease may still elapse or be nacked (2: one redelivery, which is where double
delivery, late acks and requeue races arise), `Served` the kinds of requests clients
make, `Removals` the removals administrators make, `MaxQueued` a queue's length. Two
workers give every pair of requests; two messages give batches, order and the
oldest-message bookkeeping; two agents give both directions. In `TrustGraph`, two
organizations and two agents are what an edge and a move across organizations need,
`MaxBinds` bounds the tokens outstanding at a time; the invitable role is `admin`, since
a role matters only as one that may or may not decide. In `PeerFederation`, `Slots` bounds
the calls under way: two let a retry overtake the call it repeats, and `Limit` 1 makes a
drain leave something behind; a put is misreported once per message. `MaxLeft` (0) lets a
hub restart only before a task has left the list that is being read. `Closings` are the
ways in which trust is closed: blocking and revoking differ only in the status they leave,
which nothing but a new request reads. In `DurableState`, `Membership`, `AgentLifecycle`,
`Presence` and `A2ATasks` each use names its own bounds (`crashes`, `failures`,
`deliveries`, `memberships`, `agents`, `lag`, ...): one failure and one or two
crashes are enough to leave and then to load a half-written bucket, two stays of a
member and three invites to have an old record beside a new one, two requests to race.
Agents, workers and names are symmetric in some safety runs; the runs with temporal
properties under fairness use no symmetry.

**Deadlock** is checked where the system must be able to go on: `delivery_live`,
`longpoll`, `trust`, `membership`. It is not in `delivery` and `delivery_innocent`
(the agents may all be removed), and in the other runs because their uses are finite:
when the messages, agents or failures allowed are spent, nothing more happens.

**Fairness.** `WF(Step(w))`: a goroutine that has a next store call makes it.
`SF(StartPull(a))`: an agent keeps polling - an assumption about agents, which the
documented protocol asks of them; without it nothing takes an expired lease back,
since `requeueExpiredLeases` runs only inside a pull. In `LongPoll`, `FairSpec`
assumes only that goroutines run; that timers fire and deadlines pass, which
`time.NewTimer` provides, is the hypothesis `TimePasses` of `EveryPullEnds`. In
`DurableState`, `LiveSpec` assumes that requests go on, that the receiver pulls and that
leases elapse. In `Presence`, store calls are answered (weak), and the steps of a
session and the clock come although others happen in between (strong: they
are goroutines and a clock, which no other goroutine can stop, only precede). In
`A2ATasks`, the messages of the use are published, pulled and acked (the withdrawal of
one is never owed). No fairness is
assumed of failures, crashes, clients who hang up, producers or administrators.

## 4. What is proved

For any agents, messages, keys, workers, peers, organizations and humans, and any bound:

| module | theorems (the property a run checks, where it has another name) |
|---|---|
| `MessageDelivery` | `TypeCorrect`, `OneCopy` (`SingleCustody`), `CustodyUntilTheEnd` (`NothingForgotten`), `LeasesAgree` (`LeaseMatchesRecord`), `ClaimSucceeds` (`ClaimNeverFails`), `KeysAreIdempotent` (`OneRecordPerKey`), `LossesFollowRemovals` (`LossNeedsRemoval`), `MetricsAreExact` (`MetricsExact`), `LifecycleIsKept` (the refinement of `MessageLifecycle`) |
| `LongPoll` | `TypeCorrect`, `ChannelsAreReturned` (`NoWaiterLeaks`), `WakeupsAreKept` (`NoLostWakeup`) |
| `TrustGraph` | `TypeCorrect`, `NothingWithoutConsent` (`PublishNeedsConsent`), `NothingDangles` (`NoDanglingTrust`) |
| `PeerFederation` | `TypeCorrect`, `GonePeersLeaveNothing` (`NothingOfGonePeers`), `QueuedAtMostOnce` (`AtMostOnce`), `UndeliveredIsKept` (`OutboxKeepsUndelivered`), `AcceptedIsKept` (`QueuedIsKept`), `ReportedIsTaken` (`ForwardedIsTaken`), `FederationIsAChannel` (the refinement of `PeerChannel`) |
| `Membership` | `TypeCorrect`, `NamesStay` (`NamesAreForEver`), `SpentKeysStaySpent` (`SpentKeysOpenNothing`), `GoneOrgsLeaveNothing` (`NothingOfGoneOrgs`), `HandlesStayTheirs` (`HandlesAreTheirs`), `MembersAreFound` (`MembersHaveTheirRole`), `InvitesLetIn` (`JoinsNeedAnInvite`), `RemovedStayOut` (`RevokedStayOut`), `StoreIsADirectory` (the refinement of `OrgDirectory`) |
| `AgentLifecycle` | `TypeCorrect`, `TokensStayTheirs` (`TokensOpenTheirAgent`), `OneAnswer` (`OneAnswerPerBind`), `NamesLead` (`NamesLeadToAgents`), `BuriedNamesStay` (`DeletedNamesStay`), `LimitIsBounded` (`LimitHolds`) |
| `DurableState` | `TypeCorrect`, `CreatedStays` (`CreatedIsDurable`), `HandedStays` (`HandedIsDurable`), `AnswersStay` (`AnswersAreDurable`, the two), `OneCopyEach` (`OneCopy`), `AckedStaysSettled` (`AckedIsSettled`), `HistoryStays` (`HistoryIsKept`), `LossesNeedAWindow` (`LossNeedsWindow`, see below) |
| `Presence` | `TypeCorrect`, `EndsAreShown` (`EndedIsOffline`) |

**Custody.** `CustodyInv` is inductive; `NothingForgotten` alone is not,
because whether a step empties a message's custody depends on who else holds it. It
joins the two custody properties with: every place a message is in belongs to the
agents in its envelope; only a worker in `requeue` has a batch; the message a worker
is about to register is not registered; records and leases agree. Its proof speaks
of the places of one message: a step either leaves them (*Stays*), moves the message
from one to another (*Placed*), or removes the last (*Ends*), and each action is
shown to do one of these for the message it touches and the first for all others.

**The life of a message.** `MessageLifecycle` knows a message's phase only.
`LifecycleEffect` says of a step of the handlers which messages go from which phase to
which (*Moves*): the record and the custody tell the phase, and `CustodyInv` gives
that nothing else changes it. Beyond it one fact is needed, `Unhanded`: while a publish
has still to queue its message, nobody has been handed it. `OneRecordPerKey` follows with
`RegisterIsFresh`; `LossNeedsRemoval` with *an abort comes after a removal*;
`MetricsExact` with *the slots of a queue lie below the next one*, since otherwise an
append could fall on a slot that is taken and the count would be one too high.

**Wakeups.** A pull goes to wait only when it sees an empty queue; a
queue grows only by a producer that still has to notify; and because the table holds
every waiting pull (`NoWaiterLeaks`), the notification reaches it. The theorem is
about agents outside `Flaky`: with a store that fails it is false, by the design of the
one-second recheck.

**Trust.** `PublishNeedsConsent` is about active edges; the inductive
`ConsentInv` says of every edge that each approval it records was given
(`EdgeOK`). It is stated once for a table of edges over any set (`GraphOK`), and
organizations and agents are two instances of it. `NoDanglingTrust` is inductive
together with it. The assumptions are that organization ids are ordered (`Left`
exists) and that nobody is invited as an owner, which `CreateInvite` refuses.

**Federation.** `AtMostOnce` is not inductive: a second delivery of a
queued message must be known to be impossible. The invariant (`TakenOnce`) adds that a message
which is queued at the peer has its record there (`taken`), and that a call between
making the record and queueing the message is the only such call for that message and
finds nothing queued yet but by a put that was misreported; once the record exists, a
later delivery is answered from it.
The channel (`ChannelInv`) needs more: a publish that has not queued its message is the
only one that has it and nothing of it is on its way (`PublishedOnce`); a call belongs
to the one run that waits for it (`CallsAwaited`), so that the *ok* a run reads
answers its own message; an *ok* is given only for what was taken (`OkIsTaken`); and
what is reported forwarded is at the peer (`ForwardedAtPeer`).

**Organizations.** `MemberInv` says of the index of memberships that it leads back to the
pair it is asked for (`IndexLeadsBack`), that whoever has a record is in it
(`EveryoneIsIndexed`), and that records are those of organizations that live. That it
leads to the *active* record is true only where a rebuild has no choice. The theorems
that rest on it have the hypothesis `NobodyComesBack`: the hub does not restart, or a
human joins an organization once. Both are uses the run checks; without it the
properties are false (`Membership_lockout`, `Membership_undone`). `NamesStay`,
`SpentKeysStaySpent`, `GoneOrgsLeaveNothing` and `HandlesStayTheirs` need no such hypothesis.

**Agents.** `NamesLeadToAgents` and, once it says of every number whether it
opens, `TokensOpenTheirAgent` are inductive (`TokensAgree`). `OneAnswerPerBind` needs that a
token that has answered is not open any more (`AnsweredIsUsed`). `DeletedNamesStay`
needs to follow an agent that a crash left both live and archived (`HalfDeleted`): it may
have moved since, but once only, and cannot come back to the name that was
archived. For the limit, a request that is redeeming counts as an agent it may still make:
`LoadsHold` bounds agents and such requests together. Its assumption is that
workers are finitely many, as the bound counts them.

**Crashes.** `CreatedIsDurable` holds although saves fail. `CreationInv` follows the
object of an entry: it is in the bucket, or among the puts of the save in
progress, and no save deletes it while the entry is there; ids are not used again.
`HandedIsDurable` is the same argument for leases (`LeasingInv`), whose ids are made by
claims and may end without a save when their record is gone. `OneCopy` and `AckedIsSettled` are about a bucket that does not fail, and rest on
`CustodyInv`. It has four parts. *One place* (`OnePlace`): a message leaves a trace, in
memory, in the bucket or in what was last saved, at one object only; one request at
most has it in hand; and what a request has in hand is found by no other, and is traced only
while the save that takes it away is in progress. *Synced*: between saves, bucket and last
saved state are memory; during a save, what is still among its puts and deletes is as
it was before and the rest as it will be. *In time* (`InTime`): a message leaves a trace
only once it is published, and none once its ack was answered. *Records kept*: the
record of a message that is anywhere is in the bucket, which is why a request fails
only where memory forgot it. A request's change to the queue or the leases is
one of two, and each is proved to keep *one place* once for all actions that make
it: it takes what it found (`TakeKeeps`) or it puts what it has in hand (`PutKeeps`). A
step of a save keeps *synced* by the order of its puts and deletes alone. After a crash the
requests are gone, and a start finds exactly what was traced. The assumption is that
a run publishes finitely many messages (`MsgsAssumption`), since memory keeps the queue in a
sequence made from the bucket's objects; a violation of either property needs only a
finite run.

**What a crash may take.** `LossNeedsWindow` and `HistoryIsKept` rest on `WindowInv`,
beside `CustodyInv`. A message is *kept* if a pull or an ack finds it or a request has it;
it is *over* if its record says acked, in memory if it is there and in the bucket, or
among the puts of a save that has not deleted its lease yet. Every step but a crash keeps a
message kept or over, because the puts of a save go before its deletes; a crash makes lost
only what a request had. Three facts join the two: what is in memory and not in the
bucket is of the request that is saving it (`StoredSoon`); the bucket has the
records last saved and those put since (`Written`); a publish has its message to itself
until it is queued (`PublishFits`). `LossNeedsWindow` has the hypothesis `QueriesAreFresh`:
the hub does not keep its queues in `s3QueueStore` and answer queries of messages as well. A
query may then read the record of a message that is queued, and cache it after the ack
was saved; the next save puts the old record back, which is `DurableState_stale` of
section 5. `HistoryIsKept` says so itself.

**Presence.** A hub that has a session says offline when it ends, so what can go wrong is a
hub without a session that goes on showing an *online* it took from the shared object.
`EndInv` says of every such *online*, in a memory or in the object, that it is
*superseded*: another hub has a session still, whose offline is to come and will not be
older, or has put an offline that is not older, or is about to. For one hub
nothing can be taken over, and whatever set comes last is an offline. With two hubs the
other one is the only one that can have put it. That takes `InOrder`: where two sessions of
one hub set late, an offline may come last that is older than what the other hub took. With a
third hub an offline that was held back may be put over a younger one.

Only model-checked:

* `PagesSkipNothing` of `A2ATasks`: it counts in a sorted list and its pages, and would be
  induction over the list.
* `StatsMatch`, `OneOpenInvite`, `CodesOfPendingInvites` and `BucketIsMemory`, which runs kept
  beside the listed ones check.
* All liveness properties: fairness and `ENABLED` are outside what the prover supports.

## 5. Findings

`requeueExpiredLeases` (`api/handlers_messages.go:898`) returns at the first message
that cannot be queued. `ExpireMessageLeases` has by then removed the leases of the
whole batch, so the messages after it are in no queue and on no lease: their records
say `queued` for ever, although their agents are all there. One removed receiver
with an expired lease is enough. The run `delivery_innocent` gives the trace; the
tests (`api/router_test.go:2884`) expect an expired lease to be requeued on the next
pull.

Further counterexamples, each from the configuration named:

* `TrustGraph_peered` - an agent's invite (`store/memory.go:1245`) is not tied to the
  agent's life: redeemed after its host was deleted it makes an agent joined to nothing
  that exists, where `api/openapi.md:1706` promises a peer.
* `TrustGraph_invite` - the same call by an agent of no organization returns a token
  that `RedeemBindToken` always refuses (`api/openapi.md:1705`).
* `DurableState_unqueued` - a publish whose record is saved with an error leaves the
  record in memory; the retry under the same client_msg_id is answered 202 as its
  replay, and no queue ever gets the message (`store/s3_state.go:2343`).
* `DurableState_stale` - `GetMessageRecord` caches what it read without the lock; a
  lease and an ack in between are overwritten (`store/s3_state.go:2391`).
* `DurableState_removed` - an object put by a save that fails later is not noted as
  saved (`store/s3_state.go:1011`), so the removal of its entry does not delete it, and
  a restart brings it back.
* `DurableState_twice` - a restart loads queued and leased messages only
  (`store/s3_state.go:1658`): a publish retried after its message was acked is a
  second message, although `api/openapi.md:2047` calls the key one of idempotency.
* `Membership_lockout`, `Membership_undone` - a member who was revoked and invited
  again has two records, and a restart may index the revoked one
  (`store/s3_state.go:1945`): he is listed, has no role, and can be neither revoked nor
  invited; a further invite and revocation can leave him a role after the next restart.
* `AgentLifecycle_limit` - two redemptions at once pass the limit of two agents
  (`api/handlers_v1.go:1114`), which is counted in an earlier store call.
* `A2ATasks_over` - a task told completed is told working again when the status message
  before the last is pulled, as "latest" goes by `UpdatedAt` (`api/handlers_a2a.go:966`),
  which a delivery, an ack or a retry of any status message sets.

Seen while modelling and not given a property of their own: a queue put whose answer is
lost leaves an object whose record is aborted, which the pull that dequeues it puts back
in front of the queue again and again (`api/handlers_messages.go:931`), and a delete whose
answer is lost loses the message; a failed save of a lease leaves the lease in
memory and the message in the queue; an inbound delivery that finds the record of an
earlier one answers "duplicate" before that one has queued the message and though
it may still abort (`api/handlers_federation.go:550`); a crash in the middle of
a redemption leaves a bind token that answers again, with the agent of the first
time left over; a heartbeat whose reader was overtaken within a second may put
an older status back until the next beat;
where two sessions of an agent are at one hub and the deferred offline of one comes last,
it is saved with its older time, and another hub that had taken a younger *online* shows
it until it is too old (`SetAgentPresence` replaces what it has without a look at times,
`store/s3_state.go:712`); among three hubs the same comes of an offline that was held back
by the throttle and is written by the next save of that hub, over a younger record
(`store/s3_state.go:1126`); after a restart the state of a task falls
back to that of its record, since acked status messages are not loaded; lists of tasks
do not look at status messages at all; a list paged by offset skips a task when one
that was counted in an earlier page is gone from it, as the record of a publish that failed
(`store/memory.go:3524`), a task no longer in the state asked for
(`api/handlers_a2a.go:696`), or an acked one that a restart has not loaded
(the bound of `PagesSkipNothing` is reached in each of these uses).

## 6. Not modelled

* The collective event stream: a copy to each subscriber's buffer that is given up when
  the buffer is full. It promises no reader anything, and cannot block by construction.
* Discovery, skills, profiles and metadata: normalisation and listing over what the trust
  graph allows, without state of their own.
* Router, CORS, static UI, human authentication, S3 signing, the envelopes of the runtime
  and A2A protocols, text normalisation of handles: decoding, checking and formatting.
* Start-up: sequential; the load it retries is in `DurableState`.
* The smoke and latency tools: sequential clients.
* Within modelled parts: audit logs and statistics that nothing decides by; a publish
  whose trust is revoked between its check and its enqueue (the message was allowed
  when it was checked, and no line promises more); federated messages in `A2ATasks`,
  and two changes in one nanosecond there; revoked agents and the activity log in
  `Presence`; the number of peers a hub has beyond one that hangs.

## 7. Plan

1. `PagesSkipNothing` of `A2ATasks`, with an invariant that says where in the list the
   records not yet seen are.
2. `BucketIsMemory` of `DurableState`, by an invariant that gives, for each state file,
   what memory has changed since its last save.
3. The publish whose trust is revoked between its check and its enqueue, once the
   repository says what it promises there.
