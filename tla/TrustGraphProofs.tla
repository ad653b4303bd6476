-------------------------- MODULE TrustGraphProofs --------------------------
(***************************************************************************)
(* Proofs about TrustGraph, for any organizations, agents, humans and      *)
(* super administrators.  A graph is a table of edges with the consent     *)
(* given to each; organizations have one and agents have one, and the same *)
(* lemmas serve both.                                                      *)
(***************************************************************************)
EXTENDS TrustGraph, TLAPS

(* An edge of q counts no approval that was not given.                     *)
EdgeOK(q, e, C) == Coherent(q, e) /\ e.approved \subseteq C /\ C \subseteq q

GraphOK(S, f, c) ==
  /\ f \in [PairsOf(S) -> Edge(S)]
  /\ c \in [PairsOf(S) -> SUBSET S]
  /\ \A q \in PairsOf(S) : EdgeOK(q, f[q], c[q])

DirectoryOK ==
  /\ orgs \in [Orgs -> {"none", "live", "deleted"}]
  /\ role \in [Orgs \X Humans -> Role]
  /\ agents \in [Agents -> Agent]
  /\ binds \subseteq Bind

ConsentInv ==
  /\ DirectoryOK
  /\ GraphOK(Orgs, orgTrusts, orgConsent)
  /\ GraphOK(Agents, agentTrusts, agentConsent)

-----------------------------------------------------------------------------
(* Pairs.                                                                  *)
LEMMA PairOf ==
  ASSUME NEW S, NEW x \in S, NEW y \in S, x # y
  PROVE  {x, y} \in PairsOf(S)
<1>1. <<x, y>> \in {d \in S \X S : d[1] # d[2]}
  OBVIOUS
<1>2. {x, y} = {<<x, y>>[1], <<x, y>>[2]}
  OBVIOUS
<1>3. QED  BY <1>1, <1>2 DEF PairsOf

LEMMA PairShape ==
  ASSUME NEW S, NEW q \in PairsOf(S)
  PROVE  q \subseteq S /\ q # {}
<1>1. PICK c \in {d \in S \X S : d[1] # d[2]} : q = {c[1], c[2]}
  BY DEF PairsOf
<1>2. QED  BY <1>1

LEMMA LeftOf ==
  ASSUME NEW q \in PairsOf(Orgs)
  PROVE  Left(q) \in q
<1>1. PICK c \in {d \in Orgs \X Orgs : d[1] # d[2]} : q = {c[1], c[2]}
  BY DEF PairsOf
<1>2. c[1] \in Nat /\ c[2] \in Nat
  BY IdsAssumption
<1>3. \E o \in q : \A p \in q : o <= p
  BY <1>1, <1>2
<1>4. QED  BY <1>3 DEF Left

(* Edges.                                                                  *)
LEMMA SettleOK ==
  ASSUME NEW q, NEW C \in SUBSET q, NEW T \in SUBSET C
  PROVE  EdgeOK(q, Settle(q, T), C)
<1>1. Settle(q, T).state = IF T = q THEN "active" ELSE "pending"
  BY DEF Settle
<1>2. Settle(q, T).approved = T
  BY DEF Settle
<1>3. Settle(q, T) \in Edge(q)
  BY DEF Settle, Edge
<1>4. QED  BY <1>1, <1>2, <1>3 DEF EdgeOK, Coherent

LEMMA RequestedOK ==
  ASSUME NEW q, NEW e, NEW C, EdgeOK(q, e, C),
         NEW D \in SUBSET q, NEW T \in SUBSET D
  PROVE  EdgeOK(q, Requested(q, e, T), C \cup D)
<1> DEFINE old == IF e.state \in {"blocked", "revoked"} THEN {} ELSE e.approved
<1>1. old \cup T \in SUBSET (C \cup D) /\ C \cup D \in SUBSET q
  BY DEF EdgeOK
<1>2. Requested(q, e, T) = Settle(q, old \cup T)
  BY DEF Requested
<1> HIDE DEF old
<1>3. QED  BY <1>1, <1>2, SettleOK

LEMMA ApprovedOK ==
  ASSUME NEW q, NEW e, NEW C, EdgeOK(q, e, C),
         NEW D \in SUBSET q, NEW T \in SUBSET D
  PROVE  EdgeOK(q, Approved(q, e, T), C \cup D)
<1>1. e.approved \cup T \in SUBSET (C \cup D) /\ C \cup D \in SUBSET q
  BY DEF EdgeOK
<1>2. QED  BY <1>1, SettleOK DEF Approved

LEMMA ClosedOK ==
  ASSUME NEW q, q # {}, NEW e, NEW st \in {"blocked", "revoked"}
  PROVE  EdgeOK(q, Closed(e, st), {})
BY DEF EdgeOK, Coherent, Edge, Closed

LEMMA NoEdgeOK ==
  ASSUME NEW q, q # {}
  PROVE  EdgeOK(q, NoEdge, {})
BY DEF EdgeOK, Coherent, Edge, NoEdge

(* Graphs.                                                                 *)
LEMMA GraphFrom ==
  ASSUME NEW S, NEW f, NEW c,
         f = [q \in PairsOf(S) |-> f[q]], c = [q \in PairsOf(S) |-> c[q]],
         \A q \in PairsOf(S) : EdgeOK(q, f[q], c[q])
  PROVE  GraphOK(S, f, c)
<1>1. ASSUME NEW q \in PairsOf(S)
      PROVE  f[q] \in Edge(S) /\ c[q] \in SUBSET S
  <2>1. q \subseteq S
    BY PairShape
  <2>2. f[q] \in Edge(q) /\ c[q] \subseteq q
    BY DEF EdgeOK, Coherent
  <2>3. QED  BY <2>1, <2>2 DEF Edge
<1>2. QED  BY <1>1 DEF GraphOK

LEMMA GraphUpdate ==
  ASSUME NEW S, NEW f, NEW c, GraphOK(S, f, c), NEW p \in PairsOf(S),
         NEW e, NEW C, EdgeOK(p, e, C)
  PROVE  GraphOK(S, [f EXCEPT ![p] = e], [c EXCEPT ![p] = C])
<1> DEFINE g == [f EXCEPT ![p] = e]
           d == [c EXCEPT ![p] = C]
<1>1. g = [q \in PairsOf(S) |-> IF q = p THEN e ELSE f[q]]
  BY DEF GraphOK
<1>2. d = [q \in PairsOf(S) |-> IF q = p THEN C ELSE c[q]]
  BY DEF GraphOK
<1> HIDE DEF g, d
<1>3. \A q \in PairsOf(S) : EdgeOK(q, g[q], d[q])
  BY <1>1, <1>2 DEF GraphOK
<1>4. g = [q \in PairsOf(S) |-> g[q]] /\ d = [q \in PairsOf(S) |-> d[q]]
  BY <1>1, <1>2
<1>5. GraphOK(S, g, d)
  BY <1>3, <1>4, GraphFrom
<1>6. QED  BY <1>5 DEF g, d

-----------------------------------------------------------------------------
(* Directory.                                                              *)
LEMMA RoleValues ==
  Role = {"none", "viewer", "member", "admin", "owner"}
BY DEF Role, Rank

LEMMA DeletedOK ==
  ASSUME DirectoryOK, NEW gone
  PROVE  Deleted(gone) \in [Agents -> Agent]
<1>1. ASSUME NEW a \in Agents
      PROVE  [agents[a] EXCEPT !.status = "deleted"] \in Agent
  <2>1. agents[a] \in Agent
    BY DEF DirectoryOK
  <2>2. QED  BY <2>1 DEF Agent
<1>2. QED  BY <1>1 DEF Deleted, DirectoryOK

LEMMA DirectoryInit == Init => DirectoryOK
<1> SUFFICES ASSUME Init PROVE DirectoryOK
  OBVIOUS
<1>1. NoAgent \in Agent
  BY DEF NoAgent, Agent
<1>2. QED  BY <1>1, RoleValues DEF Init, DirectoryOK

LEMMA IssueOK ==
  ASSUME DirectoryOK, NEW b \in Bind, Issue(b)
  PROVE  binds' \subseteq Bind
BY DEF Issue, DirectoryOK

LEMMA DirectoryNext ==
  ASSUME DirectoryOK, [Next]_vars
  PROVE  DirectoryOK'
<1>1. ASSUME NEW h \in Humans, NEW o \in Orgs, CreateOrg(h, o)
      PROVE  DirectoryOK'
  BY <1>1, RoleValues DEF CreateOrg, DirectoryOK
<1>2. ASSUME NEW h \in Humans, NEW o \in Orgs, DeleteOrg(h, o)
      PROVE  DirectoryOK'
  <2>1. agents' \in [Agents -> Agent]
    BY <1>2, DeletedOK DEF DeleteOrg
  <2>2. orgs' \in [Orgs -> {"none", "live", "deleted"}] /\ binds' \subseteq Bind
    BY <1>2 DEF DeleteOrg, DirectoryOK
  <2>3. role' \in [Orgs \X Humans -> Role]
    BY <1>2, RoleValues DEF DeleteOrg, DirectoryOK
  <2>4. QED  BY <2>1, <2>2, <2>3 DEF DirectoryOK
<1>3. ASSUME NEW h \in Humans, NEW o \in Orgs, NEW r \in Invitable, Join(h, o, r)
      PROVE  DirectoryOK'
  <2>1. PICK moved \in SUBSET Agents :
          agents' = [a \in Agents |-> IF a \in moved
                                       THEN [agents[a] EXCEPT !.org = o] ELSE agents[a]]
    BY <1>3 DEF Join
  <2>2. ASSUME NEW a \in Agents
        PROVE  [agents[a] EXCEPT !.org = o] \in Agent
    <3>1. agents[a] \in Agent
      BY DEF DirectoryOK
    <3>2. QED  BY <3>1 DEF Agent
  <2>3. agents' \in [Agents -> Agent]
    BY <2>1, <2>2 DEF DirectoryOK
  <2>4. role' \in [Orgs \X Humans -> Role]
    BY <1>3, RoleValues, InvitableAssumption DEF Join, DirectoryOK
  <2>5. QED  BY <1>3, <2>3, <2>4 DEF Join, DirectoryOK
<1>4. ASSUME NEW h \in Humans, NEW o \in Orgs, NEW target \in Humans,
             RevokeMembership(h, o, target)
      PROVE  DirectoryOK'
  BY <1>4, RoleValues DEF RevokeMembership, DirectoryOK
<1>5. ASSUME NEW h \in Humans, NEW o \in Orgs \cup {Nil},
             NEW owner \in Humans \cup {Nil}, CreateBind(h, o, owner)
      PROVE  DirectoryOK'
  <2>1. [org |-> o, owner |-> owner, host |-> Nil] \in Bind
    BY DEF Bind
  <2>2. binds' \subseteq Bind
    BY <1>5, <2>1, IssueOK DEF CreateBind
  <2>3. QED  BY <1>5, <2>2 DEF CreateBind, DirectoryOK
<1>6. ASSUME NEW a \in Agents, InviteAgent(a)
      PROVE  DirectoryOK'
  <2>1. [org |-> agents[a].org, owner |-> Nil, host |-> a] \in Bind
    BY DEF Bind, DirectoryOK, Agent
  <2>2. binds' \subseteq Bind
    BY <1>6, <2>1, IssueOK DEF InviteAgent
  <2>3. QED  BY <1>6, <2>2 DEF InviteAgent, DirectoryOK
<1>7. ASSUME NEW b \in binds, NEW a \in Agents, Redeem(b, a)
      PROVE  DirectoryOK'
  <2>1. [status |-> "active", org |-> b.org, owner |-> b.owner, host |-> b.host] \in Agent
    BY DEF DirectoryOK, Bind, Agent
  <2>2. agents' \in [Agents -> Agent]
    BY <1>7, <2>1 DEF Redeem, DirectoryOK
  <2>3. QED  BY <1>7, <2>2 DEF Redeem, DirectoryOK
<1>8. ASSUME NEW b \in binds, Expire(b)
      PROVE  DirectoryOK'
  BY <1>8 DEF Expire, DirectoryOK
<1>9. ASSUME NEW h \in Humans, NEW a \in Agents, RevokeAgent(h, a)
      PROVE  DirectoryOK'
  <2>1. agents' = [agents EXCEPT ![a] = [agents[a] EXCEPT !.status = "revoked"]]
    BY <1>9 DEF RevokeAgent
  <2>2. [agents[a] EXCEPT !.status = "revoked"] \in Agent
    <3>1. agents[a] \in Agent
      BY DEF DirectoryOK
    <3>2. QED  BY <3>1 DEF Agent
  <2>3. agents' \in [Agents -> Agent]
    BY <2>1, <2>2 DEF DirectoryOK
  <2>4. QED  BY <1>9, <2>3 DEF RevokeAgent, DirectoryOK
<1>10. ASSUME NEW h \in Humans, NEW a \in Agents, DeleteAgent(h, a)
       PROVE  DirectoryOK'
  BY <1>10, DeletedOK DEF DeleteAgent, DirectoryOK
<1>11. ASSUME UNCHANGED directoryVars
       PROVE  DirectoryOK'
  BY <1>11 DEF directoryVars, DirectoryOK
<1>12. ASSUME NEW h \in Humans, OrgTrustCall(h) \/ AgentTrustCall(h)
       PROVE  UNCHANGED directoryVars
  BY <1>12 DEF OrgTrustCall, AgentTrustCall, RequestOrgTrust, ApproveOrgTrust,
     CloseOrgTrust, RequestAgentTrust, ApproveAgentTrust, CloseAgentTrust,
     OrgAgrees, AgentAgrees
<1>13. QED
  BY <1>1, <1>2, <1>3, <1>4, <1>5, <1>6, <1>7, <1>8, <1>9, <1>10, <1>11, <1>12
  DEF Next, OrgCall, AgentCall, vars

-----------------------------------------------------------------------------
(* Graphs after a step.                                                    *)
OrgGraph   == GraphOK(Orgs, orgTrusts, orgConsent)
AgentGraph == GraphOK(Agents, agentTrusts, agentConsent)

LEMMA GraphsInit == Init => OrgGraph /\ AgentGraph
<1> SUFFICES ASSUME Init PROVE OrgGraph /\ AgentGraph
  OBVIOUS
<1>1. \A q \in OrgPairs : EdgeOK(q, orgTrusts[q], orgConsent[q])
  BY PairShape, NoEdgeOK DEF Init, OrgPairs
<1>2. \A q \in AgentPairs : EdgeOK(q, agentTrusts[q], agentConsent[q])
  BY PairShape, NoEdgeOK DEF Init, AgentPairs
<1>3. OrgGraph
  BY <1>1, GraphFrom DEF Init, OrgGraph, OrgPairs
<1>4. AgentGraph
  BY <1>2, GraphFrom DEF Init, AgentGraph, AgentPairs
<1>5. QED  BY <1>3, <1>4

LEMMA OrgTrustKeepsGraph ==
  ASSUME OrgGraph, NEW h \in Humans, OrgTrustCall(h)
  PROVE  OrgGraph'
<1> DEFINE say(q) == {o \in q : ForOrg(h, o)}
<1>1. ASSUME NEW o \in Orgs, NEW peer \in Orgs, RequestOrgTrust(h, o, peer)
      PROVE  OrgGraph'
  <2> DEFINE q == {o, peer}
             e == Requested(q, orgTrusts[q], {o})
  <2>1. q \in PairsOf(Orgs)
    BY <1>1, PairOf DEF RequestOrgTrust
  <2>2. {o} \in SUBSET say(q) /\ say(q) \in SUBSET q
    BY <1>1 DEF RequestOrgTrust
  <2>3. EdgeOK(q, orgTrusts[q], orgConsent[q])
    BY <2>1 DEF OrgGraph, GraphOK
  <2>4. EdgeOK(q, e, orgConsent[q] \cup say(q))
    BY <2>2, <2>3, RequestedOK
  <2>5. /\ orgTrusts' = [orgTrusts EXCEPT ![q] = e]
        /\ orgConsent' = [orgConsent EXCEPT ![q] = orgConsent[q] \cup say(q)]
    BY <1>1 DEF RequestOrgTrust, OrgAgrees
  <2> HIDE DEF q, e, say
  <2>6. QED  BY <2>1, <2>4, <2>5, GraphUpdate DEF OrgGraph
<1>2. ASSUME NEW q \in OrgPairs, ApproveOrgTrust(h, q)
      PROVE  OrgGraph'
  <2> DEFINE e == Approved(q, orgTrusts[q], OrgSide(q, h))
  <2>1. q \in PairsOf(Orgs)
    BY DEF OrgPairs
  <2>2. OrgSide(q, h) \in SUBSET say(q) /\ say(q) \in SUBSET q
    <3>1. CASE ForOrg(h, Left(q))
      <4>1. OrgSide(q, h) = {Left(q)}
        BY <3>1 DEF OrgSide
      <4>2. Left(q) \in q
        BY <2>1, LeftOf
      <4>3. QED  BY <3>1, <4>1, <4>2
    <3>2. CASE ~ForOrg(h, Left(q))
      BY <3>2 DEF OrgSide
    <3>3. QED  BY <3>1, <3>2
  <2>3. EdgeOK(q, orgTrusts[q], orgConsent[q])
    BY <2>1 DEF OrgGraph, GraphOK
  <2>4. EdgeOK(q, e, orgConsent[q] \cup say(q))
    BY <2>2, <2>3, ApprovedOK
  <2>5. /\ orgTrusts' = [orgTrusts EXCEPT ![q] = e]
        /\ orgConsent' = [orgConsent EXCEPT ![q] = orgConsent[q] \cup say(q)]
    BY <1>2 DEF ApproveOrgTrust, OrgAgrees
  <2> HIDE DEF e, say
  <2>6. QED  BY <2>1, <2>4, <2>5, GraphUpdate DEF OrgGraph
<1>3. ASSUME NEW q \in OrgPairs, NEW st \in Closings,
             CloseOrgTrust(h, q, st)
      PROVE  OrgGraph'
  <2>1. q \in PairsOf(Orgs)
    BY DEF OrgPairs
  <2>2. EdgeOK(q, Closed(orgTrusts[q], st), {})
    BY <2>1, PairShape, ClosedOK, ClosingsAssumption
  <2>3. /\ orgTrusts' = [orgTrusts EXCEPT ![q] = Closed(orgTrusts[q], st)]
        /\ orgConsent' = [orgConsent EXCEPT ![q] = {}]
    BY <1>3 DEF CloseOrgTrust
  <2>4. QED  BY <2>1, <2>2, <2>3, GraphUpdate DEF OrgGraph
<1>4. QED  BY <1>1, <1>2, <1>3 DEF OrgTrustCall

LEMMA AgentTrustKeepsGraph ==
  ASSUME AgentGraph, NEW h \in Humans, AgentTrustCall(h)
  PROVE  AgentGraph'
<1> DEFINE say(q) == {a \in q : ForAgent(h, a)}
<1>1. ASSUME NEW a \in Agents, NEW peer \in Agents, RequestAgentTrust(h, a, peer)
      PROVE  AgentGraph'
  <2> DEFINE q == {a, peer}
             e == Requested(q, agentTrusts[q], AskingApproves(h, a, peer))
  <2>1. q \in PairsOf(Agents)
    BY <1>1, PairOf DEF RequestAgentTrust
  <2>2. AskingApproves(h, a, peer) \in SUBSET say(q) /\ say(q) \in SUBSET q
    BY DEF AskingApproves
  <2>3. EdgeOK(q, agentTrusts[q], agentConsent[q])
    BY <2>1 DEF AgentGraph, GraphOK
  <2>4. EdgeOK(q, e, agentConsent[q] \cup say(q))
    BY <2>2, <2>3, RequestedOK
  <2>5. /\ agentTrusts' = [agentTrusts EXCEPT ![q] = e]
        /\ agentConsent' = [agentConsent EXCEPT ![q] = agentConsent[q] \cup say(q)]
    BY <1>1 DEF RequestAgentTrust, AgentAgrees
  <2> HIDE DEF q, e, say
  <2>6. QED  BY <2>1, <2>4, <2>5, GraphUpdate DEF AgentGraph
<1>2. ASSUME NEW q \in AgentPairs, ApproveAgentTrust(h, q)
      PROVE  AgentGraph'
  <2> DEFINE e == Approved(q, agentTrusts[q], say(q))
  <2>1. q \in PairsOf(Agents)
    BY DEF AgentPairs
  <2>2. say(q) \in SUBSET say(q) /\ say(q) \in SUBSET q
    OBVIOUS
  <2>3. EdgeOK(q, agentTrusts[q], agentConsent[q])
    BY <2>1 DEF AgentGraph, GraphOK
  <2>4. EdgeOK(q, e, agentConsent[q] \cup say(q))
    BY <2>2, <2>3, ApprovedOK
  <2>5. /\ agentTrusts' = [agentTrusts EXCEPT ![q] = e]
        /\ agentConsent' = [agentConsent EXCEPT ![q] = agentConsent[q] \cup say(q)]
    BY <1>2 DEF ApproveAgentTrust, AgentAgrees
  <2> HIDE DEF e, say
  <2>6. QED  BY <2>1, <2>4, <2>5, GraphUpdate DEF AgentGraph
<1>3. ASSUME NEW q \in AgentPairs, NEW st \in Closings,
             CloseAgentTrust(h, q, st)
      PROVE  AgentGraph'
  <2>1. q \in PairsOf(Agents)
    BY DEF AgentPairs
  <2>2. EdgeOK(q, Closed(agentTrusts[q], st), {})
    BY <2>1, PairShape, ClosedOK, ClosingsAssumption
  <2>3. /\ agentTrusts' = [agentTrusts EXCEPT ![q] = Closed(agentTrusts[q], st)]
        /\ agentConsent' = [agentConsent EXCEPT ![q] = {}]
    BY <1>3 DEF CloseAgentTrust
  <2>4. QED  BY <2>1, <2>2, <2>3, GraphUpdate DEF AgentGraph
<1>4. QED  BY <1>1, <1>2, <1>3 DEF AgentTrustCall

(* What removals do to the edges: those of the removed go or are closed,   *)
(* with all that was agreed to; the others stay as they are.               *)
LEMMA DropOrgEdgesOK ==
  ASSUME OrgGraph, NEW o, DropOrgEdges(o)
  PROVE  OrgGraph'
<1>1. \A q \in PairsOf(Orgs) : EdgeOK(q, orgTrusts'[q], orgConsent'[q])
  <2> SUFFICES ASSUME NEW q \in PairsOf(Orgs)
               PROVE  EdgeOK(q, orgTrusts'[q], orgConsent'[q])
    OBVIOUS
  <2>1. CASE o \in q
    <3>1. orgTrusts'[q] = NoEdge /\ orgConsent'[q] = {}
      BY <2>1 DEF DropOrgEdges, OrgPairs
    <3>2. QED  BY <3>1, PairShape, NoEdgeOK
  <2>2. CASE o \notin q
    <3>1. orgTrusts'[q] = orgTrusts[q] /\ orgConsent'[q] = orgConsent[q]
      BY <2>2 DEF DropOrgEdges, OrgPairs
    <3>2. QED  BY <3>1 DEF OrgGraph, GraphOK
  <2>3. QED  BY <2>1, <2>2
<1>2. /\ orgTrusts' = [q \in PairsOf(Orgs) |-> orgTrusts'[q]]
      /\ orgConsent' = [q \in PairsOf(Orgs) |-> orgConsent'[q]]
  BY DEF DropOrgEdges, OrgPairs
<1>3. QED  BY <1>1, <1>2, GraphFrom DEF OrgGraph

LEMMA DropAgentEdgesOK ==
  ASSUME AgentGraph, NEW gone, DropAgentEdges(gone)
  PROVE  AgentGraph'
<1>1. \A q \in PairsOf(Agents) : EdgeOK(q, agentTrusts'[q], agentConsent'[q])
  <2> SUFFICES ASSUME NEW q \in PairsOf(Agents)
               PROVE  EdgeOK(q, agentTrusts'[q], agentConsent'[q])
    OBVIOUS
  <2>1. CASE q \cap gone # {}
    <3>1. agentTrusts'[q] = NoEdge /\ agentConsent'[q] = {}
      BY <2>1 DEF DropAgentEdges, AgentPairs
    <3>2. QED  BY <3>1, PairShape, NoEdgeOK
  <2>2. CASE q \cap gone = {}
    <3>1. agentTrusts'[q] = agentTrusts[q] /\ agentConsent'[q] = agentConsent[q]
      BY <2>2 DEF DropAgentEdges, AgentPairs
    <3>2. QED  BY <3>1 DEF AgentGraph, GraphOK
  <2>3. QED  BY <2>1, <2>2
<1>2. /\ agentTrusts' = [q \in PairsOf(Agents) |-> agentTrusts'[q]]
      /\ agentConsent' = [q \in PairsOf(Agents) |-> agentConsent'[q]]
  BY DEF DropAgentEdges, AgentPairs
<1>3. QED  BY <1>1, <1>2, GraphFrom DEF AgentGraph

LEMMA RevokeAgentOK ==
  ASSUME AgentGraph, NEW h \in Humans, NEW a \in Agents, RevokeAgent(h, a)
  PROVE  AgentGraph'
<1>1. \A q \in PairsOf(Agents) : EdgeOK(q, agentTrusts'[q], agentConsent'[q])
  <2> SUFFICES ASSUME NEW q \in PairsOf(Agents)
               PROVE  EdgeOK(q, agentTrusts'[q], agentConsent'[q])
    OBVIOUS
  <2>1. CASE a \in q /\ agentTrusts[q] # NoEdge
    <3>1. agentTrusts'[q] = Closed(agentTrusts[q], "revoked") /\ agentConsent'[q] = {}
      BY <2>1 DEF RevokeAgent, AgentPairs
    <3>2. QED  BY <3>1, PairShape, ClosedOK
  <2>2. CASE a \in q /\ agentTrusts[q] = NoEdge
    <3>1. agentTrusts'[q] = NoEdge /\ agentConsent'[q] = {}
      BY <2>2 DEF RevokeAgent, AgentPairs
    <3>2. QED  BY <3>1, PairShape, NoEdgeOK
  <2>3. CASE a \notin q
    <3>1. agentTrusts'[q] = agentTrusts[q] /\ agentConsent'[q] = agentConsent[q]
      BY <2>3 DEF RevokeAgent, AgentPairs
    <3>2. QED  BY <3>1 DEF AgentGraph, GraphOK
  <2>4. QED  BY <2>1, <2>2, <2>3
<1>2. /\ agentTrusts' = [q \in PairsOf(Agents) |-> agentTrusts'[q]]
      /\ agentConsent' = [q \in PairsOf(Agents) |-> agentConsent'[q]]
  BY DEF RevokeAgent, AgentPairs
<1>3. QED  BY <1>1, <1>2, GraphFrom DEF AgentGraph

(* The edge of a hosted agent.  Were the host the agent itself, nothing    *)
(* would be written; it never is, but that is not needed here.             *)
LEMMA RedeemOK ==
  ASSUME AgentGraph, NEW b \in binds, NEW a \in Agents, Redeem(b, a)
  PROVE  AgentGraph'
<1> DEFINE q == {b.host, a}
<1>1. CASE b.host = Nil
  BY <1>1 DEF Redeem, AgentGraph
<1>2. CASE b.host # Nil /\ q \in PairsOf(Agents)
  <2>1. EdgeOK(q, Settle(q, q), q)
    BY SettleOK
  <2>2. /\ agentTrusts' = [agentTrusts EXCEPT ![q] = Settle(q, q)]
        /\ agentConsent' = [agentConsent EXCEPT ![q] = q]
    BY <1>2 DEF Redeem
  <2> HIDE DEF q
  <2>3. QED  BY <1>2, <2>1, <2>2, GraphUpdate DEF AgentGraph
<1>3. CASE b.host # Nil /\ q \notin PairsOf(Agents)
  <2>1. /\ agentTrusts' = [agentTrusts EXCEPT ![q] = Settle(q, q)]
        /\ agentConsent' = [agentConsent EXCEPT ![q] = q]
    BY <1>3 DEF Redeem
  <2> HIDE DEF q
  <2>2. agentTrusts' = agentTrusts /\ agentConsent' = agentConsent
    BY <1>3, <2>1 DEF AgentGraph, GraphOK
  <2>3. QED  BY <2>2 DEF AgentGraph
<1>4. QED  BY <1>1, <1>2, <1>3

LEMMA GraphsNext ==
  ASSUME OrgGraph, AgentGraph, [Next]_vars
  PROVE  OrgGraph' /\ AgentGraph'
<1>1. ASSUME NEW h \in Humans, NEW o \in Orgs, DeleteOrg(h, o)
      PROVE  OrgGraph' /\ AgentGraph'
  BY <1>1, DropOrgEdgesOK, DropAgentEdgesOK DEF DeleteOrg
<1>2. ASSUME NEW h \in Humans, NEW a \in Agents, DeleteAgent(h, a)
      PROVE  OrgGraph' /\ AgentGraph'
  <2>1. AgentGraph'
    BY <1>2, DropAgentEdgesOK DEF DeleteAgent
  <2>2. QED  BY <1>2, <2>1 DEF DeleteAgent, OrgGraph
<1>3. ASSUME NEW h \in Humans, NEW a \in Agents, RevokeAgent(h, a)
      PROVE  OrgGraph' /\ AgentGraph'
  <2>1. AgentGraph'
    BY <1>3, RevokeAgentOK
  <2>2. QED  BY <1>3, <2>1 DEF RevokeAgent, OrgGraph
<1>4. ASSUME NEW b \in binds, NEW a \in Agents, Redeem(b, a)
      PROVE  OrgGraph' /\ AgentGraph'
  <2>1. AgentGraph'
    BY <1>4, RedeemOK
  <2>2. QED  BY <1>4, <2>1 DEF Redeem, OrgGraph
<1>5. ASSUME NEW h \in Humans, OrgTrustCall(h)
      PROVE  OrgGraph' /\ AgentGraph'
  <2>1. UNCHANGED <<agentTrusts, agentConsent>>
    BY <1>5 DEF OrgTrustCall, RequestOrgTrust, ApproveOrgTrust, CloseOrgTrust, OrgAgrees
  <2>2. QED  BY <1>5, <2>1, OrgTrustKeepsGraph DEF AgentGraph
<1>6. ASSUME NEW h \in Humans, AgentTrustCall(h)
      PROVE  OrgGraph' /\ AgentGraph'
  <2>1. UNCHANGED <<orgTrusts, orgConsent>>
    BY <1>6 DEF AgentTrustCall, RequestAgentTrust, ApproveAgentTrust, CloseAgentTrust,
       AgentAgrees
  <2>2. QED  BY <1>6, <2>1, AgentTrustKeepsGraph DEF OrgGraph
<1>7. ASSUME TrustUnchanged
      PROVE  OrgGraph' /\ AgentGraph'
  BY <1>7 DEF TrustUnchanged, OrgGraph, AgentGraph
<1>8. QED
  BY <1>1, <1>2, <1>3, <1>4, <1>5, <1>6, <1>7
  DEF Next, OrgCall, AgentCall, vars, TrustUnchanged, CreateOrg, Join,
      RevokeMembership, CreateBind, InviteAgent, Expire

-----------------------------------------------------------------------------
(* What edges join.                                                        *)
LEMMA DanglingInit == Init => NoDanglingTrust
BY DEF Init, NoDanglingTrust, OrgEdgesJoinOrgs, AgentEdgesJoinAgents, AgentsAreInOrgs,
   Exists, NoAgent

LEMMA OrgEdgesNext ==
  ASSUME ConsentInv, OrgEdgesJoinOrgs, [Next]_vars
  PROVE  OrgEdgesJoinOrgs'
<1>1. ASSUME NEW h \in Humans, NEW o \in Orgs, CreateOrg(h, o)
      PROVE  OrgEdgesJoinOrgs'
  <2>1. \A p : Live(p) => Live(p)'
    BY <1>1 DEF CreateOrg, Live, ConsentInv, DirectoryOK
  <2>2. QED  BY <1>1, <2>1 DEF CreateOrg, TrustUnchanged, OrgEdgesJoinOrgs
<1>2. ASSUME NEW h \in Humans, NEW o \in Orgs, DeleteOrg(h, o)
      PROVE  OrgEdgesJoinOrgs'
  <2>1. \A p : Live(p) /\ p # o => Live(p)'
    BY <1>2 DEF DeleteOrg, Live, ConsentInv, DirectoryOK
  <2>2. \A q \in OrgPairs : orgTrusts'[q] # NoEdge => o \notin q /\ orgTrusts[q] # NoEdge
    BY <1>2 DEF DeleteOrg, DropOrgEdges
  <2>3. QED  BY <2>1, <2>2 DEF OrgEdgesJoinOrgs
<1>3. ASSUME NEW h \in Humans, NEW o \in Orgs, NEW peer \in Orgs,
             RequestOrgTrust(h, o, peer)
      PROVE  OrgEdgesJoinOrgs'
  <2>1. \A p : Live(p)' <=> Live(p)
    BY <1>3 DEF RequestOrgTrust, OrgAgrees, directoryVars, Live
  <2>2. \A q \in OrgPairs : q # {o, peer} => orgTrusts'[q] = orgTrusts[q]
    BY <1>3 DEF RequestOrgTrust, ConsentInv, GraphOK, OrgPairs
  <2>3. Live(o) /\ Live(peer)
    BY <1>3 DEF RequestOrgTrust
  <2>4. QED  BY <2>1, <2>2, <2>3 DEF OrgEdgesJoinOrgs
<1>4. ASSUME NEW h \in Humans, NEW p \in OrgPairs,
             \/ ApproveOrgTrust(h, p)
             \/ \E st \in Closings : CloseOrgTrust(h, p, st)
      PROVE  OrgEdgesJoinOrgs'
  <2>1. \A o : Live(o)' <=> Live(o)
    BY <1>4 DEF ApproveOrgTrust, CloseOrgTrust, OrgAgrees, directoryVars, Live
  <2>2. \A q \in OrgPairs : q # p => orgTrusts'[q] = orgTrusts[q]
    BY <1>4 DEF ApproveOrgTrust, CloseOrgTrust, ConsentInv, GraphOK, OrgPairs
  <2>3. orgTrusts[p] # NoEdge
    BY <1>4 DEF ApproveOrgTrust, CloseOrgTrust
  <2>4. QED  BY <2>1, <2>2, <2>3 DEF OrgEdgesJoinOrgs
<1>5. ASSUME UNCHANGED <<orgs, orgTrusts>>
      PROVE  OrgEdgesJoinOrgs'
  BY <1>5 DEF OrgEdgesJoinOrgs, Live
<1>6. ASSUME NEW h \in Humans, AgentTrustCall(h)
      PROVE  UNCHANGED <<orgs, orgTrusts>>
  BY <1>6 DEF AgentTrustCall, RequestAgentTrust, ApproveAgentTrust, CloseAgentTrust,
     AgentAgrees, directoryVars
<1>7. ASSUME NEW h \in Humans, AgentCall(h)
      PROVE  UNCHANGED <<orgs, orgTrusts>>
  BY <1>7 DEF AgentCall, CreateBind, RevokeAgent, DeleteAgent, TrustUnchanged
<1>8. QED
  BY <1>1, <1>2, <1>3, <1>4, <1>5, <1>6, <1>7
  DEF Next, OrgCall, OrgTrustCall, vars, directoryVars, TrustUnchanged, Join,
      RevokeMembership, InviteAgent, Redeem, Expire

LEMMA AgentsInOrgsNext ==
  ASSUME ConsentInv, AgentsAreInOrgs, [Next]_vars
  PROVE  AgentsAreInOrgs'
<1>1. ASSUME NEW h \in Humans, NEW o \in Orgs, CreateOrg(h, o)
      PROVE  AgentsAreInOrgs'
  <2>1. \A p : Live(p) => Live(p)'
    BY <1>1 DEF CreateOrg, Live, ConsentInv, DirectoryOK
  <2>2. QED  BY <1>1, <2>1 DEF CreateOrg, AgentsAreInOrgs, Exists
<1>2. ASSUME NEW h \in Humans, NEW o \in Orgs, DeleteOrg(h, o)
      PROVE  AgentsAreInOrgs'
  <2> SUFFICES ASSUME NEW a \in Agents, Exists(a)', agents'[a].org # Nil
               PROVE  Live(agents[a].org)'
    BY DEF AgentsAreInOrgs
  <2> DEFINE gone == {x \in Agents : Exists(x) /\ agents[x].org = o}
  <2>1. agents[a] \in Agent
    BY DEF ConsentInv, DirectoryOK
  <2>2. agents'[a] = IF a \in gone THEN [agents[a] EXCEPT !.status = "deleted"]
                     ELSE agents[a]
    BY <1>2 DEF DeleteOrg, Deleted
  <2>3. a \notin gone
    <3>1. [agents[a] EXCEPT !.status = "deleted"].status = "deleted"
      BY <2>1 DEF Agent
    <3>2. QED  BY <2>2, <3>1 DEF Exists
  <2>4. agents'[a] = agents[a] /\ Exists(a) /\ agents[a].org # o
    BY <2>2, <2>3 DEF Exists
  <2>5. Live(agents[a].org)
    BY <2>4 DEF AgentsAreInOrgs
  <2>6. QED  BY <1>2, <2>4, <2>5 DEF DeleteOrg, Live, ConsentInv, DirectoryOK
<1>3. ASSUME NEW h \in Humans, NEW o \in Orgs, NEW r \in Invitable, Join(h, o, r)
      PROVE  AgentsAreInOrgs'
  <2> SUFFICES ASSUME NEW a \in Agents, Exists(a)', agents'[a].org # Nil
               PROVE  Live(agents[a].org)'
    BY DEF AgentsAreInOrgs
  <2>1. agents[a] \in Agent
    BY DEF ConsentInv, DirectoryOK
  <2>2. agents'[a] = [agents[a] EXCEPT !.org = o] \/ agents'[a] = agents[a]
    BY <1>3 DEF Join
  <2>3. CASE agents'[a] = [agents[a] EXCEPT !.org = o]
    <3>1. agents'[a].org = o
      BY <2>1, <2>3 DEF Agent
    <3>2. QED  BY <1>3, <3>1 DEF Join, Live
  <2>4. CASE agents'[a] = agents[a]
    BY <1>3, <2>4 DEF Join, Live, Exists, AgentsAreInOrgs
  <2>5. QED  BY <2>2, <2>3, <2>4
<1>4. ASSUME NEW b \in binds, NEW a \in Agents, Redeem(b, a)
      PROVE  AgentsAreInOrgs'
  <2> SUFFICES ASSUME NEW x \in Agents, Exists(x)', agents'[x].org # Nil
               PROVE  Live(agents[x].org)'
    BY DEF AgentsAreInOrgs
  <2>1. \A o : Live(o)' <=> Live(o)
    BY <1>4 DEF Redeem, Live
  <2>2. CASE x = a
    <3>1. agents'[x].org = b.org
      BY <1>4, <2>2 DEF Redeem, ConsentInv, DirectoryOK
    <3>2. b.org # Nil => Live(b.org)
      BY <1>4, <3>1 DEF Redeem, Redeemable
    <3>3. QED  BY <2>1, <3>1, <3>2
  <2>3. CASE x # a
    <3>1. agents'[x] = agents[x]
      BY <1>4, <2>3 DEF Redeem, ConsentInv, DirectoryOK
    <3>2. QED  BY <2>1, <3>1 DEF Exists, AgentsAreInOrgs
  <2>4. QED  BY <2>2, <2>3
<1>5. ASSUME NEW h \in Humans, NEW a \in Agents,
             RevokeAgent(h, a) \/ DeleteAgent(h, a)
      PROVE  AgentsAreInOrgs'
  <2> SUFFICES ASSUME NEW x \in Agents, Exists(x)', agents'[x].org # Nil
               PROVE  Live(agents[x].org)'
    BY DEF AgentsAreInOrgs
  <2>1. PICK st \in {"revoked", "deleted"} :
          agents'[x] \in {agents[x], [agents[x] EXCEPT !.status = st]}
    BY <1>5 DEF RevokeAgent, DeleteAgent, Deleted, ConsentInv, DirectoryOK
  <2>2. agents[x] \in Agent
    BY DEF ConsentInv, DirectoryOK
  <2>3. agents'[x].org = agents[x].org
    BY <2>1, <2>2 DEF Agent
  <2>4. Exists(x)
    <3>1. CASE x = a
      BY <1>5, <3>1 DEF RevokeAgent, DeleteAgent, Active, Exists
    <3>2. CASE x # a
      <4>1. agents'[x] = agents[x]
        BY <1>5, <3>2 DEF RevokeAgent, DeleteAgent, Deleted, ConsentInv, DirectoryOK
      <4>2. QED  BY <4>1 DEF Exists
    <3>3. QED  BY <3>1, <3>2
  <2>5. UNCHANGED orgs
    BY <1>5 DEF RevokeAgent, DeleteAgent
  <2>6. QED  BY <2>3, <2>4, <2>5 DEF Live, AgentsAreInOrgs
<1>6. ASSUME UNCHANGED <<orgs, agents>>
      PROVE  AgentsAreInOrgs'
  BY <1>6 DEF AgentsAreInOrgs, Live, Exists
<1>7. ASSUME NEW h \in Humans, OrgTrustCall(h) \/ AgentTrustCall(h)
      PROVE  UNCHANGED <<orgs, agents>>
  BY <1>7 DEF OrgTrustCall, AgentTrustCall, RequestOrgTrust, ApproveOrgTrust,
     CloseOrgTrust, RequestAgentTrust, ApproveAgentTrust, CloseAgentTrust,
     OrgAgrees, AgentAgrees, directoryVars
<1>8. QED
  BY <1>1, <1>2, <1>3, <1>4, <1>5, <1>6, <1>7
  DEF Next, OrgCall, AgentCall, vars, directoryVars, CreateBind, RevokeMembership,
      InviteAgent, Expire

(* An agent edge after the step that joined agents before it, and joins    *)
(* the same kind of agents now, if agents neither vanish nor change hosts. *)
LEMMA AgentEdgesKept ==
  ASSUME ConsentInv, AgentEdgesJoinAgents,
         \A a \in Agents : Exists(a) => Exists(a)',
         \A a \in Agents : agents[a].host # Nil => agents'[a].host = agents[a].host,
         NEW q \in AgentPairs, agentTrusts[q] # NoEdge
  PROVE  \A a \in q : Exists(a)' \/ \E guest \in q : agents'[guest].host = a
<1>1. q \subseteq Agents
  BY PairShape DEF AgentPairs
<1>2. TAKE a \in q
<1>3. a \in Agents /\ a # Nil
  BY <1>1, NilAssumption
<1>4. Exists(a) \/ \E guest \in q : agents[guest].host = a
  BY DEF AgentEdgesJoinAgents
<1>5. QED  BY <1>1, <1>3, <1>4

LEMMA AgentEdgesNext ==
  ASSUME ConsentInv, AgentEdgesJoinAgents, [Next]_vars
  PROVE  AgentEdgesJoinAgents'
<1>1. ASSUME NEW h \in Humans, NEW gone, agents' = Deleted(gone), DropAgentEdges(gone)
      PROVE  AgentEdgesJoinAgents'
  <2> SUFFICES ASSUME NEW q \in AgentPairs, agentTrusts'[q] # NoEdge
               PROVE  \A a \in q : Exists(a)' \/ \E guest \in q : agents'[guest].host = a
    BY DEF AgentEdgesJoinAgents
  <2>1. q \cap gone = {} /\ agentTrusts[q] # NoEdge
    BY <1>1 DEF DropAgentEdges
  <2>2. q \subseteq Agents
    BY PairShape DEF AgentPairs
  <2>3. \A a \in q : agents'[a] = agents[a]
    BY <1>1, <2>1, <2>2 DEF Deleted
  <2>4. QED  BY <2>1, <2>3 DEF AgentEdgesJoinAgents, Exists
<1>2. ASSUME NEW h \in Humans, NEW o \in Orgs, NEW r \in Invitable, Join(h, o, r)
      PROVE  AgentEdgesJoinAgents'
  <2>1. \A a \in Agents : agents'[a].status = agents[a].status
                           /\ agents'[a].host = agents[a].host
    <3> SUFFICES ASSUME NEW a \in Agents
                 PROVE  agents'[a].status = agents[a].status
                        /\ agents'[a].host = agents[a].host
      OBVIOUS
    <3>1. agents[a] \in Agent
      BY DEF ConsentInv, DirectoryOK
    <3>2. agents'[a] = [agents[a] EXCEPT !.org = o] \/ agents'[a] = agents[a]
      BY <1>2 DEF Join
    <3>3. QED  BY <3>1, <3>2 DEF Agent
  <2>2. UNCHANGED agentTrusts
    BY <1>2 DEF Join, TrustUnchanged
  <2>3. QED  BY <2>1, <2>2, AgentEdgesKept DEF Exists, AgentEdgesJoinAgents
<1>3. ASSUME NEW b \in binds, NEW a \in Agents, Redeem(b, a)
      PROVE  AgentEdgesJoinAgents'
  <2> SUFFICES ASSUME NEW q \in AgentPairs, agentTrusts'[q] # NoEdge
               PROVE  \A x \in q : Exists(x)' \/ \E guest \in q : agents'[guest].host = x
    BY DEF AgentEdgesJoinAgents
  <2>1. agents'[a].status = "active" /\ agents'[a].host = b.host
    BY <1>3 DEF Redeem, ConsentInv, DirectoryOK
  <2>2. \A x \in Agents : x # a => agents'[x] = agents[x]
    BY <1>3 DEF Redeem, ConsentInv, DirectoryOK
  <2>3. CASE q = {b.host, a}
    <3>1. Exists(a)'
      BY <2>1 DEF Exists
    <3>2. QED  BY <2>1, <2>3, <3>1
  <2>4. CASE q # {b.host, a}
    <3>1. agentTrusts'[q] = agentTrusts[q]
      BY <1>3, <2>4 DEF Redeem, ConsentInv, GraphOK, AgentPairs
    <3>2. agents[a].host = Nil
      BY <1>3 DEF Redeem, NoAgent
    <3>3. \A x \in Agents : Exists(x) => Exists(x)'
      BY <2>1, <2>2 DEF Exists
    <3>4. QED  BY <2>2, <3>1, <3>2, <3>3, AgentEdgesKept
  <2>5. QED  BY <2>3, <2>4
<1>4. ASSUME NEW h \in Humans, NEW a \in Agents, RevokeAgent(h, a)
      PROVE  AgentEdgesJoinAgents'
  <2>1. agents' = [agents EXCEPT ![a] = [agents[a] EXCEPT !.status = "revoked"]]
    BY <1>4 DEF RevokeAgent
  <2>2. agents[a] \in Agent
    BY DEF ConsentInv, DirectoryOK
  <2>3. /\ [agents[a] EXCEPT !.status = "revoked"].status = "revoked"
        /\ [agents[a] EXCEPT !.status = "revoked"].host = agents[a].host
    BY <2>2 DEF Agent
  <2>4. \A x \in Agents : Exists(x) => Exists(x)'
    BY <2>1, <2>3 DEF Exists, ConsentInv, DirectoryOK
  <2>5. \A x \in Agents : agents'[x].host = agents[x].host
    BY <2>1, <2>3 DEF ConsentInv, DirectoryOK
  <2>6. \A q \in AgentPairs : agentTrusts'[q] # NoEdge => agentTrusts[q] # NoEdge
    BY <1>4 DEF RevokeAgent
  <2>7. QED  BY <2>4, <2>5, <2>6, AgentEdgesKept DEF AgentEdgesJoinAgents
<1>5. ASSUME NEW h \in Humans, NEW a \in Agents, NEW peer \in Agents,
             RequestAgentTrust(h, a, peer)
      PROVE  AgentEdgesJoinAgents'
  <2>1. UNCHANGED agents
    BY <1>5 DEF RequestAgentTrust, AgentAgrees, directoryVars
  <2>2. \A q \in AgentPairs : q # {a, peer} => agentTrusts'[q] = agentTrusts[q]
    BY <1>5 DEF RequestAgentTrust, ConsentInv, GraphOK, AgentPairs
  <2>3. Exists(a) /\ Exists(peer)
    BY <1>5 DEF RequestAgentTrust, Active, Exists
  <2>4. QED  BY <2>1, <2>2, <2>3 DEF AgentEdgesJoinAgents, Exists
<1>6. ASSUME NEW h \in Humans, NEW p \in AgentPairs,
             \/ ApproveAgentTrust(h, p)
             \/ \E st \in Closings : CloseAgentTrust(h, p, st)
      PROVE  AgentEdgesJoinAgents'
  <2>1. UNCHANGED agents
    BY <1>6 DEF ApproveAgentTrust, CloseAgentTrust, AgentAgrees, directoryVars
  <2>2. \A q \in AgentPairs : q # p => agentTrusts'[q] = agentTrusts[q]
    BY <1>6 DEF ApproveAgentTrust, CloseAgentTrust, ConsentInv, GraphOK, AgentPairs
  <2>3. agentTrusts[p] # NoEdge
    BY <1>6 DEF ApproveAgentTrust, CloseAgentTrust
  <2>4. QED  BY <2>1, <2>2, <2>3 DEF AgentEdgesJoinAgents, Exists
<1>7. ASSUME UNCHANGED <<agents, agentTrusts>>
      PROVE  AgentEdgesJoinAgents'
  BY <1>7 DEF AgentEdgesJoinAgents, Exists
<1>8. ASSUME NEW h \in Humans, OrgTrustCall(h)
      PROVE  UNCHANGED <<agents, agentTrusts>>
  BY <1>8 DEF OrgTrustCall, RequestOrgTrust, ApproveOrgTrust, CloseOrgTrust, OrgAgrees,
     directoryVars
<1>9. ASSUME NEW h \in Humans, NEW o \in Orgs, DeleteOrg(h, o)
      PROVE  AgentEdgesJoinAgents'
  BY <1>1, <1>9 DEF DeleteOrg
<1>10. ASSUME NEW h \in Humans, NEW a \in Agents, DeleteAgent(h, a)
       PROVE  AgentEdgesJoinAgents'
  BY <1>1, <1>10 DEF DeleteAgent
<1>11. QED
  BY <1>2, <1>3, <1>4, <1>5, <1>6, <1>7, <1>8, <1>9, <1>10
  DEF Next, OrgCall, AgentCall, AgentTrustCall, vars, directoryVars, TrustUnchanged,
      CreateOrg, RevokeMembership, CreateBind, InviteAgent, Expire

-----------------------------------------------------------------------------
(* Theorems.                                                               *)
LEMMA ConsentAlways == Spec => []ConsentInv
<1>1. Init => ConsentInv
  BY DirectoryInit, GraphsInit DEF ConsentInv, OrgGraph, AgentGraph
<1>2. ConsentInv /\ [Next]_vars => ConsentInv'
  BY DirectoryNext, GraphsNext DEF ConsentInv, OrgGraph, AgentGraph
<1>3. QED  BY <1>1, <1>2, PTL DEF Spec

(* The directory keeps its types, and an edge records no other approvals   *)
(* than its state stands for.                                              *)
THEOREM TypeCorrect == Spec => []TypeOK
<1>1. ConsentInv => TypeOK
  BY DEF ConsentInv, TypeOK, DirectoryOK, GraphOK, EdgeOK, OrgPairs, AgentPairs
<1>2. QED  BY <1>1, ConsentAlways, PTL

(* Two agents may exchange messages only while somebody entitled has       *)
(* agreed for each of them, and for each of their organizations, since the *)
(* trust was last closed (CanPublish).                                     *)
THEOREM NothingWithoutConsent == Spec => []PublishNeedsConsent
<1>1. ASSUME ConsentInv
      PROVE  PublishNeedsConsent
  <2> SUFFICES ASSUME NEW a \in Agents, NEW peer \in Agents,
                      a # peer, CanPublish(a, peer)
               PROVE  /\ agentConsent[{a, peer}] = {a, peer}
                      /\ LET o == agents[a].org  p == agents[peer].org
                         IN (o # Nil /\ p # Nil /\ o # p) => orgConsent[{o, p}] = {o, p}
    BY DEF PublishNeedsConsent
  <2>1. agentConsent[{a, peer}] = {a, peer}
    <3>1. {a, peer} \in PairsOf(Agents)
      BY PairOf
    <3>2. EdgeOK({a, peer}, agentTrusts[{a, peer}], agentConsent[{a, peer}])
      BY <1>1, <3>1 DEF ConsentInv, GraphOK
    <3>3. QED  BY <3>2 DEF CanPublish, EdgeOK, Coherent
  <2>2. ASSUME agents[a].org # Nil, agents[peer].org # Nil,
               agents[a].org # agents[peer].org
        PROVE  orgConsent[{agents[a].org, agents[peer].org}]
                 = {agents[a].org, agents[peer].org}
    <3> DEFINE q == {agents[a].org, agents[peer].org}
    <3>1. agents[a].org \in Orgs /\ agents[peer].org \in Orgs
      BY <1>1, <2>2 DEF ConsentInv, DirectoryOK, Agent
    <3>2. q \in PairsOf(Orgs)
      BY <2>2, <3>1, PairOf
    <3>3. EdgeOK(q, orgTrusts[q], orgConsent[q])
      BY <1>1, <3>2 DEF ConsentInv, GraphOK
    <3>4. orgTrusts[q].state = "active"
      BY <2>2 DEF CanPublish, OrgsAllow
    <3>5. QED  BY <3>3, <3>4 DEF EdgeOK, Coherent
  <2>3. QED  BY <2>1, <2>2
<1>2. QED  BY <1>1, ConsentAlways, PTL

(* Deletions leave no edge and no agent behind that refers to what is      *)
(* gone, but for the host of an agent invited before (DeleteOrg,           *)
(* DeleteAgent, RedeemBindToken).                                          *)
THEOREM NothingDangles == Spec => []NoDanglingTrust
<1>1. ConsentInv /\ NoDanglingTrust /\ [Next]_vars => NoDanglingTrust'
  BY OrgEdgesNext, AgentEdgesNext, AgentsInOrgsNext DEF NoDanglingTrust
<1>2. QED  BY <1>1, DanglingInit, ConsentAlways, PTL DEF Spec
=============================================================================
