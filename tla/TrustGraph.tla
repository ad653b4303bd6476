----------------------------- MODULE TrustGraph -----------------------------
(***************************************************************************)
(* Who may publish to whom (store/memory.go): trust edges between          *)
(* organizations and between agents, the roles that decide who may request *)
(* and approve them, and everything that happens to them when members join *)
(* and leave, agents are bound, hosted, moved to an organization, revoked  *)
(* and deleted, and organizations are deleted.  Every operation is one     *)
(* store call, atomic under MemoryStore.mu.                                *)
(*                                                                         *)
(* An edge is found by the pair it joins: the edge tables and their pair   *)
(* indexes are written together everywhere.  Instead of a left and a right *)
(* approval an edge has the set of its ends that approved.  Handles, URIs, *)
(* tokens and expiry are left out; an invite to an organization is Join.   *)
(***************************************************************************)
EXTENDS Integers, FiniteSets

CONSTANTS
  Orgs,      \* organization ids, compared to order a pair
  Agents,    \* agent UUIDs
  Humans,
  Supers,    \* the humans who are super administrators
  Nil,       \* an empty org id, no owner, no host
  Served,    \* bound: the operations humans and agents call
  MaxBinds,  \* bound: unused bind tokens at a time
  Invitable, \* bound: the roles invites are made for
  Closings   \* bound: how edges are closed, by a block or a revocation

ASSUME IdsAssumption   == Orgs \subseteq Nat
ASSUME NilAssumption   == Nil \notin Orgs \cup Agents \cup Humans
ASSUME SuperAssumption == Supers \subseteq Humans
ASSUME ClosingsAssumption == Closings \subseteq {"blocked", "revoked"}
ASSUME InvitableAssumption == Invitable \subseteq {"viewer", "member", "admin"}

VARIABLES
  orgs,          \* organization -> "none", "live" or "deleted"
  role,          \* organization and human -> role of the active membership
  agents,        \* agent -> model.Agent, "none" before and "deleted" after
  binds,         \* bind tokens neither used nor expired
  orgTrusts,     \* pair of organizations -> edge
  agentTrusts,   \* pair of agents -> edge
  orgConsent,    \* history: pair -> ends for which someone entitled agreed
  agentConsent   \*   to the trust since it was last closed

directoryVars == <<orgs, role, agents, binds>>
vars == <<directoryVars, orgTrusts, agentTrusts, orgConsent, agentConsent>>

Rank == [none |-> 0, viewer |-> 1, member |-> 2, admin |-> 3, owner |-> 4]
Role == DOMAIN Rank

Agent   == [status : {"none", "active", "revoked", "deleted"},
            org : Orgs \cup {Nil}, owner : Humans \cup {Nil},
            host : Agents \cup {Nil}]
NoAgent == [status |-> "none", org |-> Nil, owner |-> Nil, host |-> Nil]
Bind    == [org : Orgs \cup {Nil}, owner : Humans \cup {Nil},
            host : Agents \cup {Nil}]

PairsOf(S) == {{c[1], c[2]} : c \in {d \in S \X S : d[1] # d[2]}}
OrgPairs   == PairsOf(Orgs)
AgentPairs == PairsOf(Agents)

(* canonicalPair.  Which of two agents is on the left never matters.       *)
Left(q) == CHOOSE o \in q : \A p \in q : o <= p

(* model.TrustEdge between the two of q, NoEdge where there is none.       *)
Edge(q) == [state : {"none", "pending", "active", "blocked", "revoked"},
            approved : SUBSET q]
NoEdge  == [state |-> "none", approved |-> {}]


Init ==
  /\ orgs = [o \in Orgs |-> "none"]
  /\ role = [m \in Orgs \X Humans |-> "none"]
  /\ agents = [a \in Agents |-> NoAgent]
  /\ binds = {}
  /\ orgTrusts = [q \in OrgPairs |-> NoEdge]
  /\ agentTrusts = [q \in AgentPairs |-> NoEdge]
  /\ orgConsent = [q \in OrgPairs |-> {}]
  /\ agentConsent = [q \in AgentPairs |-> {}]

-----------------------------------------------------------------------------
(* Roles.                                                                  *)
Live(o)       == o \in Orgs /\ orgs[o] = "live"
Exists(a)     == agents[a].status \in {"active", "revoked"}
Active(a)     == agents[a].status = "active"
RoleIn(o, h)  == IF o = Nil THEN "none" ELSE role[<<o, h>>]
AtLeast(r, s) == Rank[r] >= Rank[s]

AdminOf(h, o) == AtLeast(RoleIn(o, h), "admin")

Manages(h, a) ==
  Exists(a) /\ (AdminOf(h, agents[a].org) \/ agents[a].owner = h)

MayRequest(h, a) == Manages(h, a) \/ RoleIn(agents[a].org, h) # "none"

MayDelete(h, a) ==
  IF agents[a].org = Nil THEN agents[a].owner = h
  ELSE RoleIn(agents[a].org, h) = "owner"

(* Who may speak for one end of an edge.                                   *)
ForOrg(h, o)   == h \in Supers \/ AdminOf(h, o)
ForAgent(h, a) == h \in Supers \/ Manages(h, a)

-----------------------------------------------------------------------------
(* Edges.                                                                  *)
Settle(q, S) == [state |-> IF S = q THEN "active" ELSE "pending", approved |-> S]

(* applyTrustRequest, applyAgentTrustRequest: the ends in S approve; what  *)
(* a closed edge had approved does not count.                              *)
Requested(q, e, S) ==
  Settle(q, (IF e.state \in {"blocked", "revoked"} THEN {} ELSE e.approved) \cup S)

Approved(q, e, S) == Settle(q, e.approved \cup S)

Closed_Keeps(e, st) == [state |-> st, approved |-> e.approved]   \* mutant: approvals stay

Closed(e, st) == [state |-> st, approved |-> {}]

OrgSide_Other(q, h) == {o \in q : \E p \in q \ {o} : ForOrg(h, p)}   \* mutant: sides swapped

(* loadEdgeForActorLocked: whoever speaks for both ends acts for the left. *)
OrgSide(q, h) ==
  IF ForOrg(h, Left(q)) THEN {Left(q)} ELSE {o \in q : ForOrg(h, o)}

OrgAgrees(q, h) ==
  /\ orgConsent' = [orgConsent EXCEPT ![q] = @ \cup {o \in q : ForOrg(h, o)}]
  /\ UNCHANGED <<directoryVars, agentTrusts, agentConsent>>

RequestOrgTrust(h, o, peer) ==
  LET q == {o, peer} IN
  /\ o # peer /\ Live(o) /\ Live(peer)
  /\ ForOrg(h, o)
  /\ orgTrusts' = [orgTrusts EXCEPT ![q] = Requested(q, @, {o})]
  /\ OrgAgrees(q, h)

ApproveOrgTrust(h, q) ==
  /\ orgTrusts[q] # NoEdge
  /\ OrgSide(q, h) # {}
  /\ orgTrusts' = [orgTrusts EXCEPT ![q] = Approved(q, @, OrgSide(q, h))]
  /\ OrgAgrees(q, h)

(* blockTrustLocked, revokeTrustLocked.                                    *)
CloseOrgTrust(h, q, st) ==
  /\ orgTrusts[q] # NoEdge
  /\ OrgSide(q, h) # {}
  /\ orgTrusts' = [orgTrusts EXCEPT ![q] = Closed(@, st)]
  /\ orgConsent' = [orgConsent EXCEPT ![q] = {}]
  /\ UNCHANGED <<directoryVars, agentTrusts, agentConsent>>

AgentAgrees(q, h) ==
  /\ agentConsent' = [agentConsent EXCEPT ![q] = @ \cup {a \in q : ForAgent(h, a)}]
  /\ UNCHANGED <<directoryVars, orgTrusts, orgConsent>>

(* A member of the agent's organization who does not manage it may ask,    *)
(* and approves nothing; whoever manages both agents approves for both.    *)
AskingApproves(h, a, peer) ==
  IF ~ForAgent(h, a) THEN {} ELSE {a} \cup {x \in {peer} : ForAgent(h, x)}

RequestAgentTrust(h, a, peer) ==
  LET q == {a, peer} IN
  /\ a # peer /\ Active(a) /\ Active(peer)
  /\ h \in Supers \/ MayRequest(h, a)
  /\ agentTrusts' = [agentTrusts EXCEPT
                       ![q] = Requested(q, @, AskingApproves(h, a, peer))]
  /\ AgentAgrees(q, h)

ApproveAgentTrust(h, q) ==
  LET ends == {a \in q : ForAgent(h, a)} IN
  /\ agentTrusts[q] # NoEdge
  /\ \A a \in q : Exists(a)
  /\ ends # {}
  /\ agentTrusts' = [agentTrusts EXCEPT ![q] = Approved(q, @, ends)]
  /\ AgentAgrees(q, h)

CloseAgentTrust(h, q, st) ==
  /\ agentTrusts[q] # NoEdge
  /\ \A a \in q : Exists(a)
  /\ \E a \in q : ForAgent(h, a)
  /\ agentTrusts' = [agentTrusts EXCEPT ![q] = Closed(@, st)]
  /\ agentConsent' = [agentConsent EXCEPT ![q] = {}]
  /\ UNCHANGED <<directoryVars, orgTrusts, orgConsent>>

-----------------------------------------------------------------------------
(* Organizations and members.                                              *)
TrustUnchanged == UNCHANGED <<orgTrusts, agentTrusts, orgConsent, agentConsent>>

CreateOrg(h, o) ==
  /\ orgs[o] = "none"
  /\ orgs' = [orgs EXCEPT ![o] = "live"]
  /\ role' = [role EXCEPT ![<<o, h>>] = "owner"]
  /\ UNCHANGED <<agents, binds>> /\ TrustUnchanged

(* acceptInviteLocked: an active member keeps his role; his personal       *)
(* agents move to the organization, but for those whose name is taken.     *)
Join(h, o, r) ==
  /\ Live(o)
  /\ role' = [role EXCEPT ![<<o, h>>] = IF @ = "none" THEN r ELSE @]
  /\ \E moved \in SUBSET {a \in Agents : Active(a) /\ agents[a].org = Nil
                                                   /\ agents[a].owner = h} :
       agents' = [a \in Agents |-> IF a \in moved
                                   THEN [agents[a] EXCEPT !.org = o] ELSE agents[a]]
  /\ UNCHANGED <<orgs, binds>> /\ TrustUnchanged

RevokeMembership(h, o, target) ==
  /\ Live(o)
  /\ role[<<o, target>>] \notin {"none", "owner"}
  /\ \/ h \in Supers \/ RoleIn(o, h) = "owner"
     \/ RoleIn(o, h) = "admin" /\ role[<<o, target>>] # "admin"
  /\ role' = [role EXCEPT ![<<o, target>>] = "none"]
  /\ UNCHANGED <<orgs, agents, binds>> /\ TrustUnchanged

DropOrgEdges_None(o) == UNCHANGED <<orgTrusts, orgConsent>>   \* mutant: edges stay

DropOrgEdges(o) ==
  /\ orgTrusts' = [q \in OrgPairs |-> IF o \in q THEN NoEdge ELSE orgTrusts[q]]
  /\ orgConsent' = [q \in OrgPairs |-> IF o \in q THEN {} ELSE orgConsent[q]]

DropAgentEdges(gone) ==
  /\ agentTrusts' = [q \in AgentPairs |->
                       IF q \cap gone # {} THEN NoEdge ELSE agentTrusts[q]]
  /\ agentConsent' = [q \in AgentPairs |->
                        IF q \cap gone # {} THEN {} ELSE agentConsent[q]]

Deleted(gone) == [a \in Agents |-> IF a \in gone
                                   THEN [agents[a] EXCEPT !.status = "deleted"]
                                   ELSE agents[a]]

(* The agents of the organization go with it, and their edges; so do its   *)
(* own edges, its memberships and its bind tokens.                         *)
DeleteOrg(h, o) ==
  LET gone == {a \in Agents : Exists(a) /\ agents[a].org = o} IN
  /\ Live(o)
  /\ h \in Supers \/ RoleIn(o, h) = "owner"
  /\ orgs' = [orgs EXCEPT ![o] = "deleted"]
  /\ role' = [m \in Orgs \X Humans |-> IF m[1] = o THEN "none" ELSE role[m]]
  /\ agents' = Deleted(gone)
  /\ binds' = {b \in binds : b.org # o}
  /\ DropAgentEdges(gone)
  /\ DropOrgEdges(o)

-----------------------------------------------------------------------------
(* Agents.                                                                 *)

(* Two tokens for the same are one here: each is redeemed for an agent.    *)
Issue(b) == binds' = binds \cup {b} /\ Cardinality(binds') <= MaxBinds

(* CreateBindToken.  A super administrator may bind for anybody.           *)
CreateBind(h, o, owner) ==
  /\ \/ /\ Live(o)
        /\ h \in Supers \/ AtLeast(RoleIn(o, h), "member")
        /\ owner # Nil => /\ RoleIn(o, owner) # "none"
                          /\ h \in Supers \cup {owner} \/ AdminOf(h, o)
     \/ o = Nil /\ owner # Nil /\ h \in Supers \cup {owner}
  /\ Issue([org |-> o, owner |-> owner, host |-> Nil])
  /\ UNCHANGED <<orgs, role, agents>> /\ TrustUnchanged

(* CreateAgentInviteBindToken: an agent that has no host invites another.  *)
InviteAgent(a) ==
  /\ Active(a) /\ agents[a].host = Nil
  /\ Issue([org |-> agents[a].org, owner |-> Nil, host |-> a])
  /\ UNCHANGED <<orgs, role, agents>> /\ TrustUnchanged

(* RedeemBindToken.  The owner must still be a member; that the host is    *)
(* still there is not looked at.                                           *)
Redeemable(b) ==
  IF b.owner = Nil THEN Live(b.org)
  ELSE b.org = Nil \/ (Live(b.org) /\ RoleIn(b.org, b.owner) # "none")

Redeem(b, a) ==
  LET q == {b.host, a} IN
  /\ Redeemable(b)
  /\ agents[a] = NoAgent
  /\ agents' = [agents EXCEPT ![a] = [status |-> "active", org |-> b.org,
                                      owner |-> b.owner, host |-> b.host]]
  /\ binds' = binds \ {b}
  /\ IF b.host = Nil THEN UNCHANGED <<agentTrusts, agentConsent>>
     ELSE /\ agentTrusts' = [agentTrusts EXCEPT ![q] = Settle(q, q)]
          /\ agentConsent' = [agentConsent EXCEPT ![q] = q]
  /\ UNCHANGED <<orgs, role, orgTrusts, orgConsent>>

(* The time of a token has passed: it is there, and of no use any more.    *)
Expire(b) == binds' = binds \ {b} /\ UNCHANGED <<orgs, role, agents>> /\ TrustUnchanged

RevokeAgent(h, a) ==
  /\ Active(a)
  /\ ForAgent(h, a)
  /\ agents' = [agents EXCEPT ![a].status = "revoked"]
  /\ agentTrusts' = [q \in AgentPairs |->
                       IF a \in q /\ agentTrusts[q] # NoEdge
                       THEN Closed(agentTrusts[q], "revoked") ELSE agentTrusts[q]]
  /\ agentConsent' = [q \in AgentPairs |-> IF a \in q THEN {} ELSE agentConsent[q]]
  /\ UNCHANGED <<orgs, role, binds, orgTrusts, orgConsent>>

DeleteAgent(h, a) ==
  /\ Exists(a)
  /\ h \in Supers \/ MayDelete(h, a)
  /\ agents' = Deleted({a})
  /\ DropAgentEdges({a})
  /\ UNCHANGED <<orgs, role, binds, orgTrusts, orgConsent>>

-----------------------------------------------------------------------------
OrgCall(h) ==
  \E o \in Orgs :
    \/ "CreateOrg" \in Served /\ CreateOrg(h, o)
    \/ "DeleteOrg" \in Served /\ DeleteOrg(h, o)
    \/ "Join" \in Served /\ \E r \in Invitable : Join(h, o, r)
    \/ /\ "RevokeMembership" \in Served
       /\ \E target \in Humans : RevokeMembership(h, o, target)

AgentCall(h) ==
  \/ /\ "CreateBind" \in Served
     /\ \E o \in Orgs \cup {Nil}, owner \in Humans \cup {Nil} : CreateBind(h, o, owner)
  \/ \E a \in Agents : \/ "RevokeAgent" \in Served /\ RevokeAgent(h, a)
                       \/ "DeleteAgent" \in Served /\ DeleteAgent(h, a)

OrgTrustCall(h) ==
  \/ \E o, peer \in Orgs : RequestOrgTrust(h, o, peer)
  \/ \E q \in OrgPairs : \/ ApproveOrgTrust(h, q)
                         \/ \E st \in Closings : CloseOrgTrust(h, q, st)

AgentTrustCall(h) ==
  \/ \E a, peer \in Agents : RequestAgentTrust(h, a, peer)
  \/ \E q \in AgentPairs : \/ ApproveAgentTrust(h, q)
                           \/ \E st \in Closings : CloseAgentTrust(h, q, st)

Next ==
  \/ \E h \in Humans : \/ OrgCall(h) \/ AgentCall(h)
                       \/ OrgTrustCall(h) \/ AgentTrustCall(h)
  \/ "InviteAgent" \in Served /\ \E a \in Agents : InviteAgent(a)
  \/ \E b \in binds : \/ Expire(b)
                      \/ \E a \in Agents : Redeem(b, a)

Spec == Init /\ [][Next]_vars

-----------------------------------------------------------------------------
(* CanPublish: what a publish asks of the graph.                           *)
HostAllows(a, peer) == agents[a].host \in {Nil, peer}

OrgsAllow(o, p) ==
  (o # Nil /\ p # Nil /\ o # p) => orgTrusts[{o, p}].state = "active"

CanPublish(a, peer) ==
  /\ Active(a) /\ Active(peer)
  /\ HostAllows(a, peer) /\ HostAllows(peer, a)
  /\ OrgsAllow(agents[a].org, agents[peer].org)
  /\ agentTrusts[{a, peer}].state = "active"

-----------------------------------------------------------------------------
(* An edge records the approvals its state stands for: both when it is     *)
(* active, not both when it is pending, none otherwise.                    *)
Coherent(q, e) ==
  /\ e \in Edge(q)
  /\ e.state = "active" <=> e.approved = q
  /\ e.state \in {"none", "blocked", "revoked"} => e.approved = {}

TypeOK ==
  /\ orgs \in [Orgs -> {"none", "live", "deleted"}]
  /\ role \in [Orgs \X Humans -> Role]
  /\ agents \in [Agents -> Agent]
  /\ binds \subseteq Bind
  /\ orgTrusts \in [OrgPairs -> Edge(Orgs)] /\ orgConsent \in [OrgPairs -> SUBSET Orgs]
  /\ agentTrusts \in [AgentPairs -> Edge(Agents)]
  /\ agentConsent \in [AgentPairs -> SUBSET Agents]
  /\ \A q \in OrgPairs : Coherent(q, orgTrusts[q])
  /\ \A q \in AgentPairs : Coherent(q, agentTrusts[q])

(* A message may pass between two agents only while, for each of them,     *)
(* someone who managed it then has agreed to their trust since it was last *)
(* blocked or revoked and, across organizations, an administrator of each  *)
(* has agreed to the trust of the two; through requests, approvals,        *)
(* closings, moves to another organization, revocations and deletions in   *)
(* any order (CanPublish against the trust operations).                    *)
PublishNeedsConsent ==
  \A a, peer \in Agents : (a # peer /\ CanPublish(a, peer)) =>
    /\ agentConsent[{a, peer}] = {a, peer}
    /\ LET o == agents[a].org  p == agents[peer].org
       IN (o # Nil /\ p # Nil /\ o # p) => orgConsent[{o, p}] = {o, p}

(* Nothing is left of what was deleted: an edge joins organizations that   *)
(* exist and agents that exist, except that the edge of a hosted agent may *)
(* lead to a host deleted before the invite was redeemed, and no agent is  *)
(* left in an organization that is gone (DeleteOrg, DeleteAgent,           *)
(* RedeemBindToken, transferHumanOwnedAgentsToOrgLocked).                  *)
OrgEdgesJoinOrgs ==
  \A q \in OrgPairs : orgTrusts[q] # NoEdge => \A o \in q : Live(o)

AgentEdgesJoinAgents ==
  \A q \in AgentPairs : agentTrusts[q] # NoEdge =>
    \A a \in q : Exists(a) \/ \E guest \in q : agents[guest].host = a

AgentsAreInOrgs ==
  \A a \in Agents : Exists(a) /\ agents[a].org # Nil => Live(agents[a].org)

NoDanglingTrust == OrgEdgesJoinOrgs /\ AgentEdgesJoinAgents /\ AgentsAreInOrgs

(* What the API promises of an agent's invite: redeeming it peers the new  *)
(* agent with its host (openapi.md, POST /v1/agents/me/bind-tokens).       *)
HostedIsPeered ==
  [][\A a, host \in Agents :
       (agents[a] = NoAgent /\ agents'[a].host = host) => CanPublish(a, host)']_vars

(* And of creating one: the token it returns lets an agent join.           *)
InviteIsRedeemable ==
  \A b \in binds : (b.host # Nil /\ Active(b.host)) => Redeemable(b)
=============================================================================
