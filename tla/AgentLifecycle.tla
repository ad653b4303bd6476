---------------------------- MODULE AgentLifecycle ----------------------------
(***************************************************************************)
(* Agents, their names, bearer tokens and bind tokens (store/memory.go,    *)
(* handlers_v1.go), and what rebuildStateIndexesLocked (store/s3_state.go) *)
(* makes of them.  An agent belongs to a space, an organization or nobody, *)
(* and is owned by a human or by the organization; its URI is made of the  *)
(* handles that space and owner had when it was last built.                *)
(*                                                                         *)
(* A request to make or to redeem a bind token counts the agents of the    *)
(* owner in one store call and acts in a later one.  Who may make a call   *)
(* is in TrustGraph and Membership, the invites that agents make, trust    *)
(* edges and queues are in TrustGraph and MessageDelivery.                 *)
(***************************************************************************)
EXTENDS Naturals, FiniteSets

CONSTANTS
  Humans, Orgs,
  Handles,     \* handles of humans
  Names,       \* handles of agents
  Workers,     \* the request goroutines
  Unlimited,   \* super administrators, who may own any number of agents
  Nil,
  Attempts,    \* temporary names tried, 8 in handleRedeemBindToken
  MaxAgents, MaxBinds, MaxTokens,  \* bounds: agents, bind tokens, tokens of an agent
  Setups       \* the uses of the hub looked at, one for each initial state

Agents == 1 .. MaxAgents
Binds  == 1 .. MaxBinds
Spaces == Orgs \cup {Nil}
Owners == Humans \cup {Nil}
Limit    == 2   \* agents of a human, ensureHumanOwnedAgentLimit

(* A use of the hub is bounded by the requests served at a time, the calls *)
(* made, whose agents are made, and how many.                              *)
Setup == [workers : SUBSET Workers, calls : SUBSET STRING, owners : SUBSET Owners,
          agents : 0 .. MaxAgents, binds : 0 .. MaxBinds]

ASSUME AgentsAssumption ==
  /\ MaxAgents \in Nat /\ MaxBinds \in Nat /\ MaxTokens \in Nat \ {0} /\ Attempts \in Nat
  /\ Nil \notin Humans \cup Orgs \cup Handles \cup Names \cup Nat
  /\ Setups \subseteq Setup /\ IsFiniteSet(Workers)
  /\ \E f \in [Humans -> Handles] : \A g, h \in Humans : f[g] = f[h] => g = h

VARIABLES
  setup,
  handle,       \* human -> his handle
  orgs,         \* organization -> "live" or "archived"
  members,      \* organizations and their members
  agents,       \* id -> model.Agent
  archived,     \* archivedAgents
  agentByURI,
  nameIdx,      \* humanOwnedAgentNameIdx and orgOwnedAgentNameIdx
  tokens,       \* agentTokenIdx: agents and the numbers of their tokens
  binds,        \* id -> model.BindToken, and bindByHash
  lapsed,       \* bind tokens whose expiry has passed
  job,          \* worker -> the request it serves
  answered,     \* history: bind tokens and the agents their redeemers were told of
  buried        \* history: URIs of agents deleted while they were active

people    == <<handle, orgs, members>>
agentVars == <<agents, archived, agentByURI, nameIdx, tokens>>
bindVars  == <<binds, lapsed>>
told      == <<answered, buried>>
vars      == <<setup, people, agentVars, bindVars, job, told>>

(* BuildAgentURI, BuildHumanAgentURI.                                      *)
URIs == Spaces \X (Handles \cup {Nil}) \X Names
HandleOf(h) == IF h = Nil THEN Nil ELSE handle[h]
URI(s, h, n) == <<s, HandleOf(h), n>>

Keys == Spaces \X Owners \X Names
KeyOf(r) == <<r.space, r.owner, r.name>>

Agent == [space : Spaces, owner : Owners, name : Names, uri : URIs, final : BOOLEAN,
          token : 1 .. MaxTokens, bind : Binds, status : {"active", "revoked"}]
Bind  == [space : Spaces, owner : Owners, status : {"open", "used", "gone"}]
ASSUME RecordsAssumption == Nil \notin Agent \cup Bind
Idle  == [pc |-> "idle", space |-> Nil, owner |-> Nil, bind |-> Nil, name |-> Nil, tries |-> 0]

Init ==
  /\ setup \in Setups
  /\ handle = CHOOSE f \in [Humans -> Handles] : \A g, h \in Humans : f[g] = f[h] => g = h
  /\ orgs = [o \in Orgs |-> "live"] /\ members = {}
  /\ agents = [a \in Agents |-> Nil] /\ archived = agents
  /\ agentByURI = [u \in URIs |-> Nil] /\ nameIdx = [k \in Keys |-> Nil] /\ tokens = {}
  /\ binds = [b \in Binds |-> Nil] /\ lapsed = {}
  /\ job = [w \in Workers |-> Idle]
  /\ answered = {} /\ buried = {}

Serves(call) == call \in setup.calls
Active(a)    == agents[a] # Nil /\ agents[a].status = "active"
At(w, pc)    == w \in setup.workers /\ job[w].pc = pc
Done(w)    == job' = [job EXCEPT ![w] = Idle]

(* New ids are those of an ordered table, as they are random.              *)
Fresh(table, i) == table[i] = Nil /\ \A j \in DOMAIN table : j < i => table[j] # Nil
FreshAgent(a)   == a <= setup.agents /\ agents[a] = Nil /\ archived[a] = Nil
                     /\ \A c \in Agents : c < a => agents[c] # Nil \/ archived[c] # Nil

(* CountActiveHumanOwnedAgents, ensureHumanOwnedAgentLimit.                *)
Owned(h) == {a \in Agents : Active(a) /\ agents[a].owner = h}
OverLimit(h) == h \notin Unlimited \cup {Nil} /\ Cardinality(Owned(h)) >= Limit

-----------------------------------------------------------------------------
(* Bind tokens: for an agent of the human h, or of the organization s.     *)
AskBind(w, h, s) ==
  /\ At(w, "idle") /\ h \in setup.owners /\ ~OverLimit(h)
  /\ h = Nil => s # Nil
  /\ job' = [job EXCEPT ![w] = [@ EXCEPT !.pc = "create", !.space = s, !.owner = h]]
  /\ UNCHANGED <<setup, people, agentVars, bindVars, told>>

MayBind(s, h) == s # Nil => orgs[s] = "live" /\ (h # Nil => <<s, h>> \in members)

(* CreateBindToken; when its save fails the bind token is in memory, and   *)
(* createBindTokenWithRetry makes another.                                 *)
IssueBind(w) ==
  /\ At(w, "create") /\ MayBind(job[w].space, job[w].owner)
  /\ \E b \in Binds :
       /\ b <= setup.binds /\ Fresh(binds, b)
       /\ binds' = [binds EXCEPT ![b] =
                      [space |-> job[w].space, owner |-> job[w].owner, status |-> "open"]]
  /\ \/ Done(w)
     \/ /\ Serves("faults") /\ job[w].tries = 0
        /\ job' = [job EXCEPT ![w].tries = 1]
  /\ UNCHANGED <<setup, people, agentVars, lapsed, told>>
IssueBindFails(w) ==
  /\ At(w, "create") /\ ~MayBind(job[w].space, job[w].owner)
  /\ Done(w)
  /\ UNCHANGED <<setup, people, agentVars, bindVars, told>>

Elapse(b) ==
  /\ Serves("elapse") /\ binds[b] # Nil /\ binds[b].status = "open"
  /\ lapsed' = lapsed \cup {b}
  /\ UNCHANGED <<setup, people, agentVars, binds, job, told>>

Known(b) == binds[b] # Nil /\ binds[b].status # "gone"   \* PeekBindToken

(* handleRedeemBindToken, up to the count of the owner's agents; without a *)
(* name for the agent the hub makes one up.                                *)
AskRedeem_Unchecked(w, b, n) ==   \* mutant: the agents are counted for new tokens only
  /\ At(w, "idle") /\ Known(b)
  /\ job' = [job EXCEPT ![w] = [@ EXCEPT !.pc = "redeem", !.bind = b, !.name = n]]
  /\ UNCHANGED <<setup, people, agentVars, bindVars, told>>
AskRedeem(w, b, n) ==
  /\ At(w, "idle") /\ Known(b) /\ ~OverLimit(binds[b].owner)
  /\ job' = [job EXCEPT ![w] = [@ EXCEPT !.pc = "redeem", !.bind = b, !.name = n]]
  /\ UNCHANGED <<setup, people, agentVars, bindVars, told>>

Redeemable_Twice(b) ==   \* mutant: a token used may be used again
  /\ binds[b].status # "gone" /\ b \notin lapsed
  /\ binds[b].space # Nil /\ binds[b].owner # Nil => <<binds[b].space, binds[b].owner>> \in members
Redeemable(b) ==
  /\ binds[b].status = "open" /\ b \notin lapsed
  /\ binds[b].space # Nil /\ binds[b].owner # Nil => <<binds[b].space, binds[b].owner>> \in members
Free(b, n) ==
  /\ nameIdx[<<binds[b].space, binds[b].owner, n>>] = Nil
  /\ agentByURI[URI(binds[b].space, binds[b].owner, n)] = Nil

Wants(w, n) == job[w].name \in {n, Nil}
NewAgent(b, n) ==
  [space |-> binds[b].space, owner |-> binds[b].owner, name |-> n,
   uri |-> URI(binds[b].space, binds[b].owner, n), final |-> FALSE,
   token |-> 1, bind |-> b, status |-> "active"]

(* RedeemBindToken; its redeemer is told nothing when the save fails.      *)
Redeem(w) ==
  LET b == job[w].bind IN
  /\ At(w, "redeem") /\ Redeemable(b)
  /\ \E a \in Agents, n \in Names :
       /\ FreshAgent(a) /\ Wants(w, n) /\ Free(b, n)
       /\ agents' = [agents EXCEPT ![a] = NewAgent(b, n)]
       /\ agentByURI' = [agentByURI EXCEPT ![URI(binds[b].space, binds[b].owner, n)] = a]
       /\ nameIdx' = [nameIdx EXCEPT ![KeyOf(NewAgent(b, n))] = a]
       /\ tokens' = tokens \cup {<<a, 1>>}
       /\ \/ answered' = answered \cup {<<b, a>>}
          \/ Serves("faults") /\ UNCHANGED answered
  /\ binds' = [binds EXCEPT ![b].status = "used"]
  /\ Done(w)
  /\ UNCHANGED <<setup, people, archived, lapsed, buried>>

(* The name is taken: one made up is replaced by another, a few times.     *)
RedeemTaken(w) ==
  LET b == job[w].bind IN
  /\ At(w, "redeem") /\ Redeemable(b)
  /\ \E n \in Names : Wants(w, n) /\ ~Free(b, n)
  /\ IF job[w].name = Nil /\ job[w].tries < Attempts - 1
     THEN job' = [job EXCEPT ![w].tries = @ + 1]
     ELSE Done(w)
  /\ UNCHANGED <<setup, people, agentVars, bindVars, told>>
RedeemRefused(w) ==
  /\ At(w, "redeem") /\ ~Redeemable(job[w].bind)
  /\ Done(w)
  /\ UNCHANGED <<setup, people, agentVars, bindVars, told>>

-----------------------------------------------------------------------------
(* FinalizeAgentHandleSelf: once, with the handle the owner has now.       *)
Finalize(a, n) ==
  LET r == agents[a]
      uri == URI(r.space, r.owner, n)
      key == <<r.space, r.owner, n>>
  IN
  /\ Serves("finalize") /\ Active(a) /\ ~r.final
  /\ agentByURI[uri] \in {a, Nil} /\ nameIdx[key] \in {a, Nil}
  /\ nameIdx' = [nameIdx EXCEPT ![KeyOf(r)] = Nil, ![key] = a]
  /\ agentByURI' = [agentByURI EXCEPT ![r.uri] = Nil, ![uri] = a]
  /\ agents' = [agents EXCEPT ![a] = [@ EXCEPT !.name = n, !.uri = uri, !.final = TRUE]]
  /\ UNCHANGED <<setup, people, archived, tokens, bindVars, job, told>>

Rotate_Keeps(a) ==   \* mutant: the old token still opens the agent
  /\ Serves("rotate") /\ Active(a) /\ agents[a].token < MaxTokens
  /\ tokens' = tokens \cup {<<a, agents[a].token + 1>>}
  /\ agents' = [agents EXCEPT ![a].token = @ + 1]
  /\ UNCHANGED <<setup, people, archived, agentByURI, nameIdx, bindVars, job, told>>
Rotate(a) ==
  /\ Serves("rotate") /\ Active(a) /\ agents[a].token < MaxTokens
  /\ tokens' = (tokens \ {<<a, agents[a].token>>}) \cup {<<a, agents[a].token + 1>>}
  /\ agents' = [agents EXCEPT ![a].token = @ + 1]
  /\ UNCHANGED <<setup, people, archived, agentByURI, nameIdx, bindVars, job, told>>

TokensOf(S) == {t \in tokens : t[1] \in S /\ t[2] = agents[t[1]].token}

(* RevokeAgent: its names are free again.                                  *)
Revoke(a) ==
  /\ Serves("revoke") /\ Active(a)
  /\ tokens' = tokens \ TokensOf({a})
  /\ nameIdx' = [nameIdx EXCEPT ![KeyOf(agents[a])] = Nil]
  /\ agentByURI' = [agentByURI EXCEPT ![agents[a].uri] = Nil]
  /\ agents' = [agents EXCEPT ![a].status = "revoked"]
  /\ UNCHANGED <<setup, people, archived, bindVars, job, told>>

(* Agents are archived: their names stay taken.                            *)
Archive(S) ==
  /\ archived' = [a \in Agents |-> IF a \in S THEN agents[a] ELSE archived[a]]
  /\ agents' = [a \in Agents |-> IF a \in S THEN Nil ELSE agents[a]]
  /\ tokens' = tokens \ TokensOf(S)
  /\ buried' = buried \cup {agents[a].uri : a \in {c \in S : Active(c)}}
  /\ UNCHANGED <<agentByURI, nameIdx, answered>>

Delete(a) ==
  /\ Serves("delete") /\ agents[a] # Nil
  /\ Archive({a})
  /\ UNCHANGED <<setup, people, bindVars, job>>

-----------------------------------------------------------------------------
(* What organizations and humans do to agents.                             *)
DeleteOrg(o) ==
  /\ Serves("deleteOrg") /\ orgs[o] = "live"
  /\ Archive({a \in Agents : agents[a] # Nil /\ agents[a].space = o})
  /\ binds' = [b \in Binds |-> IF binds[b] # Nil /\ binds[b].space = o
                               THEN [binds[b] EXCEPT !.status = "gone"] ELSE binds[b]]
  /\ members' = {p \in members : p[1] # o}
  /\ orgs' = [orgs EXCEPT ![o] = "archived"]
  /\ UNCHANGED <<setup, handle, lapsed, job>>

(* transferHumanOwnedAgentsToOrgLocked: the personal agents of one who     *)
(* accepts an invite move in, also when he is a member already, but for    *)
(* those whose name is taken there.                                        *)
Moving_All(h, o) ==   \* mutant: whether the names are taken is not looked at
  {a \in Agents : Active(a) /\ agents[a].space = Nil /\ agents[a].owner = h}
Moving(h, o) ==
  {a \in Agents : /\ Active(a) /\ agents[a].space = Nil /\ agents[a].owner = h
                  /\ nameIdx[<<o, h, agents[a].name>>] = Nil
                  /\ agentByURI[URI(o, h, agents[a].name)] = Nil}

(* An index after agents went from their old places in it to new ones.     *)
Reindexed(index, old, new) ==
  [i \in DOMAIN index |->
    IF \E a \in DOMAIN new : new[a] = i THEN CHOOSE a \in DOMAIN new : new[a] = i
    ELSE IF \E a \in DOMAIN old : old[a] = i THEN Nil ELSE index[i]]

Join(h, o) ==
  LET S == Moving(h, o)
      moved == [a \in S |-> [agents[a] EXCEPT !.space = o, !.uri = URI(o, h, agents[a].name)]]
  IN
  /\ Serves("join") /\ orgs[o] = "live"
  /\ members' = members \cup {<<o, h>>}
  /\ nameIdx' = Reindexed(nameIdx, [a \in S |-> KeyOf(agents[a])], [a \in S |-> KeyOf(moved[a])])
  /\ agentByURI' = Reindexed(agentByURI, [a \in S |-> agents[a].uri], [a \in S |-> moved[a].uri])
  /\ agents' = [a \in Agents |-> IF a \in S THEN moved[a] ELSE agents[a]]
  /\ UNCHANGED <<setup, handle, orgs, archived, tokens, bindVars, job, told>>

Leave(h, o) ==
  /\ Serves("leave") /\ <<o, h>> \in members
  /\ members' = members \ {<<o, h>>}
  /\ UNCHANGED <<setup, handle, orgs, agentVars, bindVars, job, told>>

(* UpdateHumanProfile: his agents keep their URIs.                         *)
Rename(h, hd) ==
  /\ Serves("rename") /\ \A g \in Humans : handle[g] # hd
  /\ handle' = [handle EXCEPT ![h] = hd]
  /\ UNCHANGED <<setup, orgs, members, agentVars, bindVars, job, told>>

-----------------------------------------------------------------------------
(* A restart ends the requests in flight and makes the indexes anew, from  *)
(* the agents live and archived: archived first, so that a live one keeps  *)
(* its names; which of several archived ones they lead to does not matter. *)
Indexed(live, gone) ==
  IF live # {} THEN CHOOSE a \in live : TRUE
  ELSE IF gone # {} THEN CHOOSE a \in gone : TRUE ELSE Nil

Opens(live) == {a \in Agents : live[a] # Nil /\ live[a].status = "active"}
Kept(gone)  == {a \in Agents : gone[a] # Nil}

Rebuild_Live(live, gone) ==   \* mutant: names of archived agents are free again
  /\ agentByURI' = [u \in URIs |-> Indexed({a \in Opens(live) : live[a].uri = u}, {})]
  /\ nameIdx' = [k \in Keys |-> Indexed({a \in Opens(live) : KeyOf(live[a]) = k}, {})]
  /\ tokens' = {<<a, live[a].token>> : a \in Opens(live)}
  /\ job' = [w \in Workers |-> Idle]
Rebuild(live, gone) ==
  /\ agentByURI' = [u \in URIs |-> Indexed({a \in Opens(live) : live[a].uri = u},
                                           {a \in Kept(gone) : gone[a].uri = u})]
  /\ nameIdx' = [k \in Keys |-> Indexed({a \in Opens(live) : KeyOf(live[a]) = k},
                                        {a \in Kept(gone) : KeyOf(gone[a]) = k})]
  /\ tokens' = {<<a, live[a].token>> : a \in Opens(live)}
  /\ job' = [w \in Workers |-> Idle]

Restart ==
  /\ Serves("restart")
  /\ Rebuild(agents, archived)
  /\ UNCHANGED <<setup, people, agents, archived, bindVars, told>>

(* The hub crashes between the objects of a save: the agent is saved, its  *)
(* bind token is not; or the archived agent is, and the live one is not    *)
(* deleted yet.                                                            *)
RedeemCrash(w) ==
  LET b == job[w].bind IN
  /\ Serves("crash") /\ At(w, "redeem") /\ Redeemable(b)
  /\ \E a \in Agents, n \in Names :
       /\ FreshAgent(a) /\ Wants(w, n) /\ Free(b, n)
       /\ agents' = [agents EXCEPT ![a] = NewAgent(b, n)]
  /\ Rebuild(agents', archived)
  /\ UNCHANGED <<setup, people, archived, bindVars, told>>
DeleteCrash(a) ==
  /\ Serves("crash") /\ Serves("delete") /\ agents[a] # Nil /\ archived[a] = Nil
  /\ archived' = [archived EXCEPT ![a] = agents[a]]
  /\ Rebuild(agents, archived')
  /\ UNCHANGED <<setup, people, agents, bindVars, told>>

-----------------------------------------------------------------------------
BindRequest(w) ==
  (\E h \in Owners, s \in Spaces : AskBind(w, h, s)) 
  \/ IssueBind(w) \/ IssueBindFails(w)
RedeemRequest(w) ==
  \/ \E b \in Binds, n \in Names : AskRedeem(w, b, n)
  \/ Serves("temporary") /\ \E b \in Binds : AskRedeem(w, b, Nil)
  \/ Redeem(w) \/ RedeemTaken(w) \/ RedeemRefused(w) \/ RedeemCrash(w)
AgentRequest(a) ==
  (\E n \in Names : Finalize(a, n)) \/ Rotate(a) \/ Revoke(a) \/ Delete(a) \/ DeleteCrash(a)
HumanRequest(h) ==
  \/ \E o \in Orgs : Join(h, o) \/ Leave(h, o)
  \/ \E hd \in Handles : Rename(h, hd)

Next ==
  \/ \E w \in Workers : BindRequest(w) \/ RedeemRequest(w)
  \/ \E a \in Agents : AgentRequest(a)
  \/ \E h \in Humans : HumanRequest(h)
  \/ \E o \in Orgs : DeleteOrg(o)
  \/ \E b \in Binds : Elapse(b)
  \/ Restart

Spec == Init /\ [][Next]_vars

-----------------------------------------------------------------------------
TypeOK ==
  /\ handle \in [Humans -> Handles] /\ orgs \in [Orgs -> {"live", "archived"}]
  /\ members \subseteq Orgs \X Humans
  /\ agents \in [Agents -> Agent \cup {Nil}] /\ archived \in [Agents -> Agent \cup {Nil}]
  /\ agentByURI \in [URIs -> Agents \cup {Nil}] /\ nameIdx \in [Keys -> Agents \cup {Nil}]
  /\ tokens \subseteq Agents \X (1 .. MaxTokens)
  /\ binds \in [Binds -> Bind \cup {Nil}] /\ lapsed \subseteq Binds

(* The URI of an active agent and its name in its space lead to it and to  *)
(* no other, through renames of humans, moves into organizations, names    *)
(* freed and names taken again, and restarts (agentByURI and the name      *)
(* indexes of memory.go).                                                  *)
NamesLeadToAgents ==
  \A a \in Agents : Active(a) =>
    agentByURI[agents[a].uri] = a /\ nameIdx[KeyOf(agents[a])] = a

(* The URI of an agent that was deleted is never another's, also after a   *)
(* restart, and whoever has the handle in it by then (DeleteAgent,         *)
(* archivedAgents).                                                        *)
DeletedNamesStay ==
  \A a \in Agents : Active(a) => agents[a].uri \notin buried

(* The bearer tokens the hub takes are the last tokens of the active       *)
(* agents: one that was rotated away, revoked or deleted with its agent or *)
(* its organization opens nothing again (agentTokenIdx,                    *)
(* AgentUUIDForTokenHash).                                                 *)
TokensOpenTheirAgent ==
  tokens = {<<a, agents[a].token>> : a \in {c \in Agents : Active(c)}}

(* A bind token gives one agent to those who redeem it: when two race, and *)
(* when the hub crashed while it was redeemed (RedeemBindToken).           *)
OneAnswerPerBind ==
  \A p, q \in answered : p[1] = q[1] => p = q

(* A human who is not a super administrator owns at most two active        *)
(* agents, and one more for every further request served at the same time, *)
(* as the count is not made where the agent is (ensureHumanOwnedAgentLimit,*)
(* handleRedeemBindToken).                                                 *)
LimitHolds ==
  \A h \in Humans \ Unlimited :
    Cardinality(Owned(h)) <= Limit - 1 + Cardinality(setup.workers)

(* As the hub's answer has it: no human owns more than two.                *)
LimitIsExact == \A h \in Humans \ Unlimited : Cardinality(Owned(h)) <= Limit
=============================================================================
