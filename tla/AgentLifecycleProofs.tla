------------------------- MODULE AgentLifecycleProofs -------------------------
(***************************************************************************)
(* Agents, their names, tokens and bind tokens, for any number of each and *)
(* of requests at a time: names lead to agents, those of deleted agents    *)
(* stay taken, tokens open their agent, a bind token answers with one      *)
(* agent, and a human owns no more than the limit and the requests allow.  *)
(***************************************************************************)
EXTENDS AgentLifecycle, FiniteSetTheorems, TLAPS

Job == [pc : {"idle", "create", "redeem"}, space : Spaces, owner : Owners,
        bind : Binds \cup {Nil}, name : Names \cup {Nil}, tries : Nat]

PeopleOK == /\ handle \in [Humans -> Handles] /\ orgs \in [Orgs -> {"live", "archived"}]
            /\ members \subseteq Orgs \X Humans
AgentsOK == /\ agents \in [Agents -> Agent \cup {Nil}]
            /\ archived \in [Agents -> Agent \cup {Nil}]
IndexOK  == /\ agentByURI \in [URIs -> Agents \cup {Nil}]
            /\ nameIdx \in [Keys -> Agents \cup {Nil}]
TokensOK == tokens \subseteq Agents \X (1 .. MaxTokens)
BindsOK  == binds \in [Binds -> Bind \cup {Nil}] /\ lapsed \subseteq Binds
JobsOK   == /\ job \in [Workers -> Job]
            /\ \A w \in Workers : job[w].pc = "redeem" =>
                 job[w].bind \in Binds /\ binds[job[w].bind] # Nil
ToldOK   == answered \subseteq Binds \X Agents /\ buried \subseteq URIs

TypeInv == /\ setup \in Setups /\ PeopleOK /\ AgentsOK /\ IndexOK /\ TokensOK
           /\ BindsOK /\ JobsOK /\ ToldOK

-----------------------------------------------------------------------------
LEMMA NoAgent == Nil \notin Agents /\ Nil \notin Binds
BY AgentsAssumption DEF Agents, Binds

LEMMA IdleType == Idle \in Job /\ Idle.pc = "idle"
BY DEF Idle, Job, Spaces, Owners

LEMMA URIType ==
  ASSUME PeopleOK, NEW s \in Spaces, NEW h \in Owners, NEW n \in Names
  PROVE  URI(s, h, n) \in URIs /\ <<s, h, n>> \in Keys
<1>1. HandleOf(h) \in Handles \cup {Nil}
  BY DEF HandleOf, Owners, PeopleOK
<1> QED BY <1>1 DEF URI, URIs, Keys

LEMMA KeyType ==
  ASSUME NEW r \in Agent
  PROVE  KeyOf(r) \in Keys /\ r.uri \in URIs
BY DEF Agent, KeyOf, Keys

LEMMA InitTypes == Init => TypeInv
<1> SUFFICES ASSUME Init PROVE TypeInv
  OBVIOUS
<1>1. PeopleOK
  BY AgentsAssumption DEF Init, PeopleOK
<1>2. AgentsOK /\ IndexOK /\ TokensOK /\ BindsOK /\ ToldOK
  BY DEF Init, AgentsOK, IndexOK, TokensOK, BindsOK, ToldOK
<1>3. JobsOK
  BY IdleType DEF Init, JobsOK
<1> QED BY <1>1, <1>2, <1>3 DEF Init, TypeInv

(* Bind tokens stay, in whatever state. *)
BindsStay == \A b \in Binds : binds[b] # Nil => binds'[b] # Nil

LEMMA JobTypes ==
  ASSUME JobsOK, BindsStay, job' = job
  PROVE  JobsOK'
BY DEF JobsOK, BindsStay

LEMMA OneJobTypes ==
  ASSUME JobsOK, BindsStay, NEW w \in Workers, NEW j \in Job, job' = [job EXCEPT ![w] = j],
         j.pc = "redeem" => j.bind \in Binds /\ binds'[j.bind] # Nil
  PROVE  JobsOK'
BY DEF JobsOK, BindsStay

LEMMA DoneTypes ==
  ASSUME JobsOK, BindsStay, NEW w \in Workers, Done(w)
  PROVE  JobsOK'
<1>1. job' = [job EXCEPT ![w] = Idle]
  BY DEF Done
<1> QED BY <1>1, IdleType, OneJobTypes

LEMMA AskTypes ==
  ASSUME TypeInv, NEW w \in Workers,
         \/ \E h \in Owners, s \in Spaces : AskBind(w, h, s)
         \/ \E b \in Binds, n \in Names \cup {Nil} : AskRedeem(w, b, n)
  PROVE  TypeInv'
<1>1. UNCHANGED <<setup, people, agentVars, bindVars, told>> /\ BindsStay
  BY DEF AskBind, AskRedeem, bindVars, BindsStay
<1>2. JobsOK'
  <2>1. ASSUME NEW h \in Owners, NEW s \in Spaces, AskBind(w, h, s)
        PROVE  JobsOK'
    <3> DEFINE j == [job[w] EXCEPT !.pc = "create", !.space = s, !.owner = h]
    <3>1. job' = [job EXCEPT ![w] = j]
      BY <2>1 DEF AskBind
    <3>2. j \in Job /\ j.pc = "create"
      BY DEF TypeInv, JobsOK, Job
    <3> HIDE DEF j
    <3> QED BY <1>1, <3>1, <3>2, OneJobTypes DEF TypeInv
  <2>2. ASSUME NEW b \in Binds, NEW n \in Names \cup {Nil}, AskRedeem(w, b, n)
        PROVE  JobsOK'
    <3> DEFINE j == [job[w] EXCEPT !.pc = "redeem", !.bind = b, !.name = n]
    <3>1. job' = [job EXCEPT ![w] = j] /\ binds[b] # Nil
      BY <2>2 DEF AskRedeem, Known
    <3>2. j \in Job /\ j.bind = b
      BY DEF TypeInv, JobsOK, Job
    <3> HIDE DEF j
    <3> QED BY <1>1, <3>1, <3>2, OneJobTypes DEF TypeInv, bindVars
  <2> QED BY <2>1, <2>2
<1> QED BY <1>1, <1>2 DEF people, agentVars, bindVars, told, TypeInv, PeopleOK, AgentsOK,
                         IndexOK, TokensOK, BindsOK, ToldOK

LEMMA IssueBindTypes ==
  ASSUME TypeInv, NEW w \in Workers, IssueBind(w) \/ IssueBindFails(w)
  PROVE  TypeInv' /\ BindsStay
<1>1. BindsOK' /\ BindsStay
  <2>1. CASE IssueBind(w)
    <3> DEFINE rec == [space |-> job[w].space, owner |-> job[w].owner, status |-> "open"]
    <3>1. PICK b \in Binds : Fresh(binds, b) /\ binds' = [binds EXCEPT ![b] = rec]
      BY <2>1 DEF IssueBind
    <3>2. rec \in Bind /\ lapsed' = lapsed
      BY <2>1 DEF IssueBind, TypeInv, JobsOK, Job, Bind
    <3> HIDE DEF rec
    <3>3. rec # Nil
      BY <3>2, RecordsAssumption
    <3> QED BY <3>1, <3>2, <3>3 DEF TypeInv, BindsOK, BindsStay
  <2>2. CASE IssueBindFails(w)
    BY <2>2 DEF IssueBindFails, bindVars, TypeInv, BindsOK, BindsStay
  <2> QED BY <2>1, <2>2
<1>2. JobsOK'
  <2>1. CASE Done(w)
    BY <1>1, <2>1, DoneTypes DEF TypeInv
  <2>2. CASE IssueBind(w) /\ job' = [job EXCEPT ![w].tries = 1]
    <3> DEFINE j == [job[w] EXCEPT !.tries = 1]
    <3>1. j \in Job /\ j.pc = "create" /\ job' = [job EXCEPT ![w] = j]
      BY <2>2 DEF IssueBind, At, TypeInv, JobsOK, Job
    <3> HIDE DEF j
    <3> QED BY <1>1, <3>1, OneJobTypes DEF TypeInv
  <2> QED BY <2>1, <2>2 DEF IssueBind, IssueBindFails
<1> QED BY <1>1, <1>2 DEF IssueBind, IssueBindFails, people, agentVars, told, TypeInv,
                         PeopleOK, AgentsOK, IndexOK, TokensOK, ToldOK

LEMMA NewAgentType ==
  ASSUME TypeInv, NEW b \in Binds, binds[b] # Nil, NEW n \in Names
  PROVE  /\ NewAgent(b, n) \in Agent /\ NewAgent(b, n) # Nil
         /\ NewAgent(b, n).space = binds[b].space /\ NewAgent(b, n).owner = binds[b].owner
         /\ NewAgent(b, n).name = n /\ NewAgent(b, n).status = "active"
         /\ NewAgent(b, n).token = 1 /\ NewAgent(b, n).final = FALSE
         /\ NewAgent(b, n).uri = URI(binds[b].space, binds[b].owner, n)
         /\ KeyOf(NewAgent(b, n)) = <<binds[b].space, binds[b].owner, n>>
<1>1. binds[b].space \in Spaces /\ binds[b].owner \in Owners
  BY DEF TypeInv, BindsOK, Bind
<1>2. URI(binds[b].space, binds[b].owner, n) \in URIs
  BY <1>1, URIType DEF TypeInv
<1>3. 1 \in 1 .. MaxTokens
  BY AgentsAssumption
<1>4. NewAgent(b, n) \in Agent
  BY <1>1, <1>2, <1>3 DEF NewAgent, Agent
<1> QED BY <1>4, RecordsAssumption DEF NewAgent, KeyOf

LEMMA RebuildTypes ==
  ASSUME NEW live \in [Agents -> Agent \cup {Nil}], NEW gone \in [Agents -> Agent \cup {Nil}],
         Rebuild(live, gone)
  PROVE  IndexOK' /\ TokensOK' /\ JobsOK'
<1>1. \A S \in SUBSET Agents, T \in SUBSET Agents : Indexed(S, T) \in Agents \cup {Nil}
  BY DEF Indexed
<1>2. Opens(live) \subseteq Agents /\ Kept(gone) \subseteq Agents
  BY DEF Opens, Kept
<1>3. IndexOK'
  BY <1>1, <1>2 DEF Rebuild, IndexOK
<1>4. TokensOK'
  BY <1>2 DEF Rebuild, TokensOK, Opens, Agent
<1>5. JobsOK'
  BY IdleType DEF Rebuild, JobsOK
<1> QED BY <1>3, <1>4, <1>5

LEMMA RedeemTypes ==
  ASSUME TypeInv, NEW w \in Workers, Redeem(w)
  PROVE  TypeInv' /\ BindsStay
<1> DEFINE b == job[w].bind
<1>1. b \in Binds /\ binds[b] # Nil /\ binds' = [binds EXCEPT ![b].status = "used"] /\ lapsed' = lapsed
  BY DEF Redeem, At, TypeInv, JobsOK
<1>2. PICK a \in Agents, n \in Names :
        /\ agents' = [agents EXCEPT ![a] = NewAgent(b, n)]
        /\ agentByURI' = [agentByURI EXCEPT ![URI(binds[b].space, binds[b].owner, n)] = a]
        /\ nameIdx' = [nameIdx EXCEPT ![KeyOf(NewAgent(b, n))] = a]
        /\ tokens' = tokens \cup {<<a, 1>>}
        /\ answered' = answered \cup {<<b, a>>} \/ answered' = answered
  BY DEF Redeem
<1>3. Done(w) /\ UNCHANGED <<setup, people, archived, buried>>
  BY DEF Redeem
<1> HIDE DEF b
<1>4. NewAgent(b, n) \in Agent /\ 1 \in 1 .. MaxTokens
  <2>1. 1 \in 1 .. MaxTokens
    BY AgentsAssumption
  <2> QED BY <1>1, <2>1, NewAgentType
<1>5. AgentsOK'
  BY <1>2, <1>3, <1>4 DEF TypeInv, AgentsOK
<1>6. IndexOK'
  BY <1>2 DEF TypeInv, IndexOK
<1>7. TokensOK' /\ ToldOK'
  BY <1>1, <1>2, <1>3, <1>4 DEF TypeInv, TokensOK, ToldOK
<1>8. BindsOK' /\ BindsStay
  <2>1. binds[b] \in Bind
    BY <1>1 DEF TypeInv, BindsOK
  <2>2. [binds[b] EXCEPT !.status = "used"] \in Bind
    BY <2>1 DEF Bind
  <2> QED BY <1>1, <2>2, RecordsAssumption DEF TypeInv, BindsOK, BindsStay
<1>9. JobsOK'
  BY <1>3, <1>8, DoneTypes DEF TypeInv
<1> QED BY <1>3, <1>5, <1>6, <1>7, <1>8, <1>9 DEF people, TypeInv, PeopleOK

LEMMA RedeemFailsTypes ==
  ASSUME TypeInv, NEW w \in Workers, RedeemTaken(w) \/ RedeemRefused(w)
  PROVE  TypeInv'
<1>1. UNCHANGED <<setup, people, agentVars, bindVars, told>> /\ BindsStay
  BY DEF RedeemTaken, RedeemRefused, bindVars, BindsStay
<1>2. JobsOK'
  <2>1. CASE Done(w)
    BY <1>1, <2>1, DoneTypes DEF TypeInv
  <2>2. CASE RedeemTaken(w) /\ job' = [job EXCEPT ![w].tries = @ + 1]
    <3> DEFINE j == [job[w] EXCEPT !.tries = @ + 1]
    <3>1. /\ j \in Job /\ j.bind = job[w].bind /\ job[w].pc = "redeem"
          /\ job' = [job EXCEPT ![w] = j]
      BY <2>2 DEF RedeemTaken, At, TypeInv, JobsOK, Job
    <3> HIDE DEF j
    <3>2. j.bind \in Binds /\ binds'[j.bind] # Nil
      BY <1>1, <3>1 DEF TypeInv, JobsOK, BindsStay
    <3> QED BY <1>1, <3>1, <3>2, OneJobTypes DEF TypeInv
  <2> QED BY <2>1, <2>2 DEF RedeemTaken, RedeemRefused
<1> QED BY <1>1, <1>2 DEF people, agentVars, bindVars, told, TypeInv, PeopleOK, AgentsOK,
                         IndexOK, TokensOK, BindsOK, ToldOK

LEMMA RedeemCrashTypes ==
  ASSUME TypeInv, NEW w \in Workers, RedeemCrash(w)
  PROVE  TypeInv'
<1> DEFINE b == job[w].bind
<1>1. b \in Binds /\ binds[b] # Nil
  BY DEF RedeemCrash, At, TypeInv, JobsOK
<1>2. PICK a \in Agents, n \in Names : agents' = [agents EXCEPT ![a] = NewAgent(b, n)]
  BY DEF RedeemCrash
<1>3. Rebuild(agents', archived) /\ UNCHANGED <<setup, people, archived, bindVars, told>>
  BY DEF RedeemCrash
<1> HIDE DEF b
<1>4. NewAgent(b, n) \in Agent
  BY <1>1, NewAgentType
<1>5. AgentsOK'
  BY <1>2, <1>3, <1>4 DEF TypeInv, AgentsOK
<1>6. IndexOK' /\ TokensOK' /\ JobsOK'
  BY <1>3, <1>5, RebuildTypes DEF TypeInv, AgentsOK
<1> QED BY <1>3, <1>5, <1>6 DEF people, bindVars, told, TypeInv, PeopleOK, BindsOK, ToldOK

LEMMA FinalizeTypes ==
  ASSUME TypeInv, NEW a \in Agents, NEW n \in Names, Finalize(a, n)
  PROVE  TypeInv'
<1> DEFINE uri == URI(agents[a].space, agents[a].owner, n)
           key == <<agents[a].space, agents[a].owner, n>>
<1>1. agents[a] \in Agent
  BY DEF Finalize, Active, TypeInv, AgentsOK
<1>2. uri \in URIs
  BY <1>1, URIType DEF TypeInv, Agent
<1>3. /\ nameIdx' = [nameIdx EXCEPT ![KeyOf(agents[a])] = Nil, ![key] = a]
      /\ agentByURI' = [agentByURI EXCEPT ![agents[a].uri] = Nil, ![uri] = a]
      /\ agents' = [agents EXCEPT ![a] = [@ EXCEPT !.name = n, !.uri = uri, !.final = TRUE]]
      /\ UNCHANGED <<setup, people, archived, tokens, bindVars, job, told>>
  BY DEF Finalize
<1> HIDE DEF uri, key
<1>4. AgentsOK'
  <2>1. [agents[a] EXCEPT !.name = n, !.uri = uri, !.final = TRUE] \in Agent
    BY <1>1, <1>2 DEF Agent
  <2> QED BY <1>3, <2>1 DEF TypeInv, AgentsOK
<1>5. IndexOK'
  BY <1>3 DEF TypeInv, IndexOK
<1>6. JobsOK'
  BY <1>3 DEF TypeInv, JobsOK, bindVars
<1> QED BY <1>3, <1>4, <1>5, <1>6 DEF people, bindVars, told, TypeInv, PeopleOK, BindsOK,
                                    TokensOK, ToldOK

LEMMA RotateTypes ==
  ASSUME TypeInv, NEW a \in Agents, Rotate(a)
  PROVE  TypeInv'
<1>1. /\ agents[a] \in Agent /\ agents[a].token < MaxTokens
      /\ tokens' = (tokens \ {<<a, agents[a].token>>}) \cup {<<a, agents[a].token + 1>>}
      /\ agents' = [agents EXCEPT ![a].token = @ + 1]
      /\ UNCHANGED <<setup, people, archived, agentByURI, nameIdx, bindVars, job, told>>
  BY DEF Rotate, Active, TypeInv, AgentsOK
<1>2. agents[a].token + 1 \in 1 .. MaxTokens
  <2>1. agents[a].token \in 1 .. MaxTokens
    BY <1>1 DEF Agent
  <2> QED BY <1>1, <2>1, AgentsAssumption
<1>3. AgentsOK'
  <2>1. [agents[a] EXCEPT !.token = @ + 1] \in Agent
    BY <1>1, <1>2 DEF Agent
  <2> QED BY <1>1, <2>1 DEF TypeInv, AgentsOK
<1>4. TokensOK'
  BY <1>1, <1>2 DEF TypeInv, TokensOK
<1>5. JobsOK'
  BY <1>1 DEF TypeInv, JobsOK, bindVars
<1> QED BY <1>1, <1>3, <1>4, <1>5 DEF people, bindVars, told, TypeInv, PeopleOK, BindsOK,
                                    IndexOK, ToldOK

LEMMA RevokeTypes ==
  ASSUME TypeInv, NEW a \in Agents, Revoke(a)
  PROVE  TypeInv'
<1>1. /\ agents[a] \in Agent /\ tokens' \subseteq tokens
      /\ nameIdx' = [nameIdx EXCEPT ![KeyOf(agents[a])] = Nil]
      /\ agentByURI' = [agentByURI EXCEPT ![agents[a].uri] = Nil]
      /\ agents' = [agents EXCEPT ![a].status = "revoked"]
      /\ UNCHANGED <<setup, people, archived, bindVars, job, told>>
  BY DEF Revoke, Active, TypeInv, AgentsOK
<1>2. AgentsOK'
  <2>1. [agents[a] EXCEPT !.status = "revoked"] \in Agent
    BY <1>1 DEF Agent
  <2> QED BY <1>1, <2>1 DEF TypeInv, AgentsOK
<1>3. IndexOK'
  BY <1>1 DEF TypeInv, IndexOK
<1>4. JobsOK'
  BY <1>1 DEF TypeInv, JobsOK, bindVars
<1> QED BY <1>1, <1>2, <1>3, <1>4 DEF people, bindVars, told, TypeInv, PeopleOK, BindsOK,
                                    TokensOK, ToldOK

LEMMA ArchiveTypes ==
  ASSUME TypeInv, NEW S \in SUBSET {a \in Agents : agents[a] # Nil}, Archive(S)
  PROVE  AgentsOK' /\ IndexOK' /\ TokensOK' /\ ToldOK'
<1>1. AgentsOK' /\ IndexOK' /\ TokensOK'
  BY DEF Archive, TypeInv, AgentsOK, IndexOK, TokensOK
<1>2. \A a \in S : agents[a].uri \in URIs
  BY DEF TypeInv, AgentsOK, Agent
<1>3. ToldOK'
  BY <1>2 DEF Archive, TypeInv, ToldOK
<1> QED BY <1>1, <1>3

LEMMA DeleteTypes ==
  ASSUME TypeInv, NEW a \in Agents, Delete(a)
  PROVE  TypeInv'
<1>1. AgentsOK' /\ IndexOK' /\ TokensOK' /\ ToldOK'
  BY ArchiveTypes DEF Delete
<1>2. UNCHANGED <<setup, people, bindVars, job>>
  BY DEF Delete
<1>3. JobsOK'
  BY <1>2 DEF TypeInv, JobsOK, bindVars
<1> QED BY <1>1, <1>2, <1>3 DEF people, bindVars, TypeInv, PeopleOK, BindsOK

LEMMA DeleteCrashTypes ==
  ASSUME TypeInv, NEW a \in Agents, DeleteCrash(a)
  PROVE  TypeInv'
<1>1. /\ archived' = [archived EXCEPT ![a] = agents[a]] /\ Rebuild(agents, archived')
      /\ UNCHANGED <<setup, people, agents, bindVars, told>>
  BY DEF DeleteCrash
<1>2. AgentsOK'
  BY <1>1 DEF TypeInv, AgentsOK
<1>3. IndexOK' /\ TokensOK' /\ JobsOK'
  BY <1>1, <1>2, RebuildTypes DEF TypeInv, AgentsOK
<1> QED BY <1>1, <1>2, <1>3 DEF people, bindVars, told, TypeInv, PeopleOK, BindsOK, ToldOK

LEMMA RestartTypes ==
  ASSUME TypeInv, Restart
  PROVE  TypeInv'
<1>1. IndexOK' /\ TokensOK' /\ JobsOK'
  BY RebuildTypes DEF Restart, TypeInv, AgentsOK
<1> QED BY <1>1 DEF Restart, people, bindVars, told, TypeInv, PeopleOK, AgentsOK, BindsOK, ToldOK

LEMMA DeleteOrgTypes ==
  ASSUME TypeInv, NEW o \in Orgs, DeleteOrg(o)
  PROVE  TypeInv' /\ BindsStay
<1>1. AgentsOK' /\ IndexOK' /\ TokensOK' /\ ToldOK'
  BY ArchiveTypes DEF DeleteOrg
<1>2. PeopleOK'
  <2>1. UNCHANGED handle /\ orgs' = [orgs EXCEPT ![o] = "archived"] /\ members' \subseteq members
    BY DEF DeleteOrg
  <2> QED BY <2>1 DEF TypeInv, PeopleOK
<1>3. ASSUME NEW b \in Binds
      PROVE  /\ binds'[b] \in Bind \cup {Nil} /\ (binds[b] # Nil => binds'[b] # Nil)
  <2>1. CASE binds[b] # Nil /\ binds[b].space = o
    <3>1. binds'[b] = [binds[b] EXCEPT !.status = "gone"] /\ binds[b] \in Bind
      BY <2>1 DEF DeleteOrg, TypeInv, BindsOK
    <3>2. binds'[b] \in Bind
      BY <3>1 DEF Bind
    <3> QED BY <3>2, RecordsAssumption
  <2>2. CASE ~(binds[b] # Nil /\ binds[b].space = o)
    BY <2>2 DEF DeleteOrg, TypeInv, BindsOK
  <2> QED BY <2>1, <2>2
<1>4. BindsOK' /\ BindsStay
  <2>1. \E f : binds' = [b \in Binds |-> f[b]]
    <3> DEFINE f == [b \in Binds |-> IF binds[b] # Nil /\ binds[b].space = o
                                     THEN [binds[b] EXCEPT !.status = "gone"] ELSE binds[b]]
    <3>1. binds' = [b \in Binds |-> f[b]]
      BY DEF DeleteOrg
    <3> QED BY <3>1
  <2>2. lapsed' = lapsed
    BY DEF DeleteOrg
  <2> QED BY <1>3, <2>1, <2>2 DEF TypeInv, BindsOK, BindsStay
<1>5. JobsOK'
  BY <1>4, JobTypes DEF DeleteOrg, TypeInv
<1> QED BY <1>1, <1>2, <1>4, <1>5 DEF DeleteOrg, TypeInv

LEMMA ReindexedType ==
  ASSUME NEW D, NEW index \in [D -> Agents \cup {Nil}], NEW old, NEW new,
         DOMAIN new \subseteq Agents
  PROVE  Reindexed(index, old, new) \in [D -> Agents \cup {Nil}]
<1> SUFFICES ASSUME NEW i \in D
             PROVE  (IF \E a \in DOMAIN new : new[a] = i THEN CHOOSE a \in DOMAIN new : new[a] = i
                     ELSE IF \E a \in DOMAIN old : old[a] = i THEN Nil ELSE index[i])
                      \in Agents \cup {Nil}
  BY DEF Reindexed
<1>1. CASE \E a \in DOMAIN new : new[a] = i
  <2>1. (CHOOSE a \in DOMAIN new : new[a] = i) \in Agents
    BY <1>1
  <2> QED BY <1>1, <2>1
<1>2. CASE ~\E a \in DOMAIN new : new[a] = i
  BY <1>2
<1> QED BY <1>1, <1>2

LEMMA JoinTypes ==
  ASSUME TypeInv, NEW h \in Humans, NEW o \in Orgs, Join(h, o)
  PROVE  TypeInv'
<1> DEFINE S == Moving(h, o)
           moved == [a \in S |-> [agents[a] EXCEPT !.space = o, !.uri = URI(o, h, agents[a].name)]]
<1>1. /\ members' = members \cup {<<o, h>>}
      /\ nameIdx' = Reindexed(nameIdx, [a \in S |-> KeyOf(agents[a])], [a \in S |-> KeyOf(moved[a])])
      /\ agentByURI' = Reindexed(agentByURI, [a \in S |-> agents[a].uri], [a \in S |-> moved[a].uri])
      /\ agents' = [a \in Agents |-> IF a \in S THEN moved[a] ELSE agents[a]]
      /\ UNCHANGED <<setup, handle, orgs, archived, tokens, bindVars, job, told>>
  BY DEF Join
<1>2. S \subseteq Agents /\ \A a \in S : agents[a] \in Agent
  BY DEF Moving, Active, TypeInv, AgentsOK
<1>3. ASSUME NEW a \in S
      PROVE  moved[a] \in Agent
  <2>1. o \in Spaces /\ h \in Owners /\ agents[a].name \in Names
    BY <1>2 DEF Spaces, Owners, Agent
  <2>2. URI(o, h, agents[a].name) \in URIs
    BY <2>1, URIType DEF TypeInv
  <2>3. [agents[a] EXCEPT !.space = o, !.uri = URI(o, h, agents[a].name)] \in Agent
    BY <1>2, <2>1, <2>2 DEF Agent
  <2> QED BY <2>3
<1> HIDE DEF S, moved
<1>4. AgentsOK'
  BY <1>1, <1>2, <1>3 DEF TypeInv, AgentsOK
<1>5. IndexOK'
  BY <1>1, <1>2, ReindexedType DEF TypeInv, IndexOK
<1>6. JobsOK' /\ PeopleOK'
  BY <1>1 DEF TypeInv, JobsOK, PeopleOK, bindVars
<1> QED BY <1>1, <1>4, <1>5, <1>6 DEF bindVars, told, TypeInv, TokensOK, BindsOK, ToldOK

LEMMA PersonTypes ==
  ASSUME TypeInv, NEW h \in Humans,
         (\E o \in Orgs : Leave(h, o)) \/ (\E hd \in Handles : Rename(h, hd))
  PROVE  TypeInv'
<1>1. UNCHANGED <<setup, agentVars, bindVars, job, told>>
  BY DEF Leave, Rename
<1>2. PeopleOK'
  BY DEF Leave, Rename, TypeInv, PeopleOK
<1>3. JobsOK'
  BY <1>1 DEF TypeInv, JobsOK, bindVars
<1> QED BY <1>1, <1>2, <1>3 DEF agentVars, bindVars, told, TypeInv, AgentsOK, IndexOK, TokensOK,
                               BindsOK, ToldOK

LEMMA ElapseTypes ==
  ASSUME TypeInv, NEW b \in Binds, Elapse(b)
  PROVE  TypeInv'
<1>1. UNCHANGED <<setup, people, agentVars, binds, job, told>> /\ lapsed' = lapsed \cup {b}
  BY DEF Elapse
<1> QED BY <1>1 DEF people, agentVars, told, TypeInv, PeopleOK, AgentsOK, IndexOK, TokensOK,
                    BindsOK, JobsOK, ToldOK

LEMMA UnchangedTypes ==
  ASSUME TypeInv, UNCHANGED vars
  PROVE  TypeInv'
BY DEF vars, people, agentVars, bindVars, told, TypeInv, PeopleOK, AgentsOK, IndexOK, TokensOK,
       BindsOK, JobsOK, ToldOK

LEMMA NextTypes ==
  ASSUME TypeInv, [Next]_vars
  PROVE  TypeInv'
<1>1. ASSUME NEW w \in Workers, BindRequest(w) \/ RedeemRequest(w)
      PROVE  TypeInv'
  <2>1. CASE BindRequest(w)
    BY <2>1, AskTypes, IssueBindTypes DEF BindRequest
  <2>2. CASE RedeemRequest(w)
    <3>1. CASE \E b \in Binds, n \in Names \cup {Nil} : AskRedeem(w, b, n)
      BY <3>1, AskTypes
    <3> QED BY <2>2, <3>1, RedeemTypes, RedeemFailsTypes, RedeemCrashTypes DEF RedeemRequest
  <2> QED BY <1>1, <2>1, <2>2
<1>2. ASSUME NEW a \in Agents, AgentRequest(a)
      PROVE  TypeInv'
  BY <1>2, FinalizeTypes, RotateTypes, RevokeTypes, DeleteTypes, DeleteCrashTypes DEF AgentRequest
<1>3. ASSUME NEW h \in Humans, HumanRequest(h)
      PROVE  TypeInv'
  BY <1>3, JoinTypes, PersonTypes DEF HumanRequest
<1> QED BY <1>1, <1>2, <1>3, DeleteOrgTypes, ElapseTypes, RestartTypes, UnchangedTypes DEF Next

(* Every table keeps its type, whatever the calls, failures and crashes.   *)
THEOREM TypeCorrect == Spec => []TypeOK
<1>1. TypeInv => TypeOK
  BY DEF TypeInv, TypeOK, PeopleOK, AgentsOK, IndexOK, TokensOK, BindsOK
<1> QED BY <1>1, InitTypes, NextTypes, PTL DEF Spec

-----------------------------------------------------------------------------
(* What the steps do to agents, entry by entry.                            *)
Born(b, a, n) ==
  /\ binds[b] # Nil /\ agents[a] = Nil /\ archived[a] = Nil /\ Free(b, n)
  /\ agents' = [agents EXCEPT ![a] = NewAgent(b, n)]
  /\ archived' = archived /\ buried' = buried

Redeemed(b, a, n) ==
  /\ Born(b, a, n)
  /\ agentByURI' = [agentByURI EXCEPT ![URI(binds[b].space, binds[b].owner, n)] = a]
  /\ nameIdx' = [nameIdx EXCEPT ![<<binds[b].space, binds[b].owner, n>>] = a]
  /\ tokens' = tokens \cup {<<a, 1>>}

AgentSteps ==
  \/ UNCHANGED <<agentVars, buried>>
  \/ \E b \in Binds, a \in Agents, n \in Names : Redeemed(b, a, n)
  \/ \E b \in Binds, a \in Agents, n \in Names : Born(b, a, n) /\ Rebuild(agents', archived')
  \/ \E a \in Agents, n \in Names : Finalize(a, n)
  \/ \E a \in Agents : Rotate(a)
  \/ \E a \in Agents : Revoke(a)
  \/ \E S \in SUBSET {a \in Agents : agents[a] # Nil} : Archive(S)
  \/ \E a \in Agents : DeleteCrash(a)
  \/ \E h \in Humans, o \in Orgs : Join(h, o)
  \/ Restart

LEMMA RedeemIs ==
  ASSUME TypeInv, NEW w \in Workers, Redeem(w)
  PROVE  \E b \in Binds, a \in Agents, n \in Names : Redeemed(b, a, n)
<1>1. PICK b \in Binds : b = job[w].bind /\ binds[b] # Nil
  BY DEF Redeem, At, TypeInv, JobsOK
<1>2. PICK a \in Agents, n \in Names :
        /\ FreshAgent(a) /\ Free(b, n)
        /\ agents' = [agents EXCEPT ![a] = NewAgent(b, n)]
        /\ agentByURI' = [agentByURI EXCEPT ![URI(binds[b].space, binds[b].owner, n)] = a]
        /\ nameIdx' = [nameIdx EXCEPT ![KeyOf(NewAgent(b, n))] = a]
        /\ tokens' = tokens \cup {<<a, 1>>}
  BY <1>1 DEF Redeem
<1>3. archived' = archived /\ buried' = buried
  BY DEF Redeem
<1>4. KeyOf(NewAgent(b, n)) = <<binds[b].space, binds[b].owner, n>>
  BY <1>1, NewAgentType
<1> QED BY <1>1, <1>2, <1>3, <1>4 DEF Redeemed, Born, FreshAgent

LEMMA RedeemCrashIs ==
  ASSUME TypeInv, NEW w \in Workers, RedeemCrash(w)
  PROVE  \E b \in Binds, a \in Agents, n \in Names : Born(b, a, n) /\ Rebuild(agents', archived')
<1>1. PICK b \in Binds : b = job[w].bind /\ binds[b] # Nil
  BY DEF RedeemCrash, At, TypeInv, JobsOK
<1>2. archived' = archived /\ buried' = buried
  BY DEF RedeemCrash, told
<1> QED BY <1>1, <1>2 DEF RedeemCrash, Born, FreshAgent

LEMMA NextAgentSteps ==
  ASSUME TypeInv, [Next]_vars
  PROVE  AgentSteps
<1>1. ASSUME UNCHANGED <<agentVars, told>>
      PROVE  AgentSteps
  BY <1>1 DEF told, AgentSteps
<1>2. ASSUME NEW w \in Workers, BindRequest(w)
      PROVE  AgentSteps
  BY <1>1, <1>2 DEF BindRequest, AskBind, IssueBind, IssueBindFails
<1>3. ASSUME NEW w \in Workers, RedeemRequest(w)
      PROVE  AgentSteps
  <2>1. CASE \E b \in Binds, n \in Names \cup {Nil} : AskRedeem(w, b, n)
    BY <1>1, <2>1 DEF AskRedeem
  <2>2. CASE RedeemTaken(w) \/ RedeemRefused(w)
    BY <1>1, <2>2 DEF RedeemTaken, RedeemRefused
  <2>3. CASE Redeem(w)
    BY <2>3, RedeemIs DEF AgentSteps
  <2>4. CASE RedeemCrash(w)
    BY <2>4, RedeemCrashIs DEF AgentSteps
  <2> QED BY <1>3, <2>1, <2>2, <2>3, <2>4 DEF RedeemRequest
<1>4. ASSUME NEW a \in Agents, AgentRequest(a)
      PROVE  AgentSteps
  BY <1>4 DEF AgentRequest, Delete, AgentSteps
<1>5. ASSUME NEW h \in Humans, HumanRequest(h)
      PROVE  AgentSteps
  <2>1. CASE \E o \in Orgs : Join(h, o)
    BY <2>1 DEF AgentSteps
  <2>2. CASE (\E o \in Orgs : Leave(h, o)) \/ (\E hd \in Handles : Rename(h, hd))
    BY <1>1, <2>2 DEF Leave, Rename
  <2> QED BY <1>5, <2>1, <2>2 DEF HumanRequest
<1>6. ASSUME NEW o \in Orgs, DeleteOrg(o)
      PROVE  AgentSteps
  BY <1>6 DEF DeleteOrg, AgentSteps
<1>7. ASSUME NEW b \in Binds, Elapse(b)
      PROVE  AgentSteps
  BY <1>1, <1>7 DEF Elapse
<1>8. CASE Restart
  BY <1>8 DEF AgentSteps
<1>9. CASE UNCHANGED vars
  BY <1>1, <1>9 DEF vars
<1> QED BY <1>2, <1>3, <1>4, <1>5, <1>6, <1>7, <1>8, <1>9 DEF Next

(* What each call does to the agents, entry by entry. *)
LEMMA FinalizeIs ==
  ASSUME TypeInv, NEW a \in Agents, NEW n \in Names, Finalize(a, n)
  PROVE  /\ agents[a] \in Agent /\ agents[a] # Nil /\ agents[a].status = "active" /\ ~agents[a].final
         /\ agents'[a] \in Agent /\ agents'[a] # Nil /\ agents'[a].status = "active"
         /\ agents'[a].token = agents[a].token /\ agents'[a].space = agents[a].space
         /\ agents'[a].owner = agents[a].owner /\ agents'[a].name = n /\ agents'[a].final
         /\ agents'[a].uri = URI(agents[a].space, agents[a].owner, n)
         /\ KeyOf(agents'[a]) = <<agents[a].space, agents[a].owner, n>>
         /\ \A c \in Agents \ {a} : agents'[c] = agents[c]
         /\ archived' = archived /\ tokens' = tokens /\ buried' = buried
<1> DEFINE uri == URI(agents[a].space, agents[a].owner, n)
           r == [agents[a] EXCEPT !.name = n, !.uri = uri, !.final = TRUE]
<1>1. agents \in [Agents -> Agent \cup {Nil}]
  BY DEF TypeInv, AgentsOK
<1>2. agents[a] # Nil /\ agents[a].status = "active" /\ ~agents[a].final
  BY DEF Finalize, Active
<1>3. agents[a] \in Agent
  BY <1>1, <1>2
<1>4. uri \in URIs
  BY <1>3, URIType DEF TypeInv, Agent
<1>5. agents' = [agents EXCEPT ![a] = r] /\ archived' = archived /\ tokens' = tokens /\ buried' = buried
  BY DEF Finalize, told
<1> HIDE DEF uri
<1>6. /\ r \in Agent /\ r.token = agents[a].token /\ r.space = agents[a].space
      /\ r.owner = agents[a].owner /\ r.status = agents[a].status /\ r.name = n /\ r.uri = uri /\ r.final
      /\ KeyOf(r) = <<agents[a].space, agents[a].owner, n>>
  BY <1>3, <1>4 DEF Agent, KeyOf
<1> HIDE DEF r
<1>7. agents'[a] = r /\ \A c \in Agents \ {a} : agents'[c] = agents[c]
  BY <1>1, <1>5
<1> QED BY <1>2, <1>3, <1>5, <1>6, <1>7, RecordsAssumption DEF uri

(* A call that changes neither an agent's names nor its place. *)
Renewed(a) ==
  /\ agents[a] \in Agent /\ agents[a] # Nil /\ agents[a].status = "active"
  /\ agents'[a] \in Agent /\ agents'[a] # Nil
  /\ agents'[a].space = agents[a].space /\ agents'[a].owner = agents[a].owner
  /\ agents'[a].uri = agents[a].uri /\ KeyOf(agents'[a]) = KeyOf(agents[a])
  /\ agents'[a].final = agents[a].final
  /\ \A c \in Agents \ {a} : agents'[c] = agents[c]
  /\ archived' = archived /\ buried' = buried

LEMMA RotateIs ==
  ASSUME TypeInv, NEW a \in Agents, Rotate(a)
  PROVE  /\ Renewed(a) /\ agents'[a].status = "active" /\ agents'[a].token = agents[a].token + 1
         /\ tokens' = (tokens \ {<<a, agents[a].token>>}) \cup {<<a, agents[a].token + 1>>}
         /\ agentByURI' = agentByURI /\ nameIdx' = nameIdx
<1> DEFINE r == [agents[a] EXCEPT !.token = @ + 1]
<1>1. agents \in [Agents -> Agent \cup {Nil}]
  BY DEF TypeInv, AgentsOK
<1>2. agents[a] # Nil /\ agents[a].status = "active" /\ agents[a].token < MaxTokens
  BY DEF Rotate, Active
<1>3. agents[a] \in Agent
  BY <1>1, <1>2
<1>4. agents[a].token + 1 \in 1 .. MaxTokens
  <2>1. agents[a].token \in 1 .. MaxTokens
    BY <1>3 DEF Agent
  <2> QED BY <1>2, <2>1, AgentsAssumption
<1>5. agents' = [agents EXCEPT ![a] = r]
  BY DEF Rotate
<1>6. /\ r \in Agent /\ r.token = agents[a].token + 1 /\ r.space = agents[a].space
      /\ r.owner = agents[a].owner /\ r.status = agents[a].status /\ r.uri = agents[a].uri
      /\ r.final = agents[a].final /\ KeyOf(r) = KeyOf(agents[a])
  BY <1>3, <1>4 DEF Agent, KeyOf
<1> HIDE DEF r
<1>7. agents'[a] = r /\ \A c \in Agents \ {a} : agents'[c] = agents[c]
  BY <1>1, <1>5
<1>8. Renewed(a) /\ agents'[a].status = "active" /\ agents'[a].token = agents[a].token + 1
  <2>1. archived' = archived /\ buried' = buried
    BY DEF Rotate, told
  <2> QED BY <1>2, <1>3, <1>6, <1>7, <2>1, RecordsAssumption DEF Renewed
<1> QED BY <1>8 DEF Rotate

LEMMA RevokeIs ==
  ASSUME TypeInv, NEW a \in Agents, Revoke(a)
  PROVE  /\ Renewed(a) /\ agents'[a].status = "revoked" /\ tokens' = tokens \ TokensOf({a})
         /\ nameIdx' = [nameIdx EXCEPT ![KeyOf(agents[a])] = Nil]
         /\ agentByURI' = [agentByURI EXCEPT ![agents[a].uri] = Nil]
<1> DEFINE r == [agents[a] EXCEPT !.status = "revoked"]
<1>1. agents \in [Agents -> Agent \cup {Nil}]
  BY DEF TypeInv, AgentsOK
<1>2. agents[a] # Nil /\ agents[a].status = "active"
  BY DEF Revoke, Active
<1>3. agents[a] \in Agent
  BY <1>1, <1>2
<1>4. agents' = [agents EXCEPT ![a] = r]
  BY DEF Revoke
<1>5. /\ r \in Agent /\ r.space = agents[a].space /\ r.owner = agents[a].owner
      /\ r.status = "revoked" /\ r.uri = agents[a].uri
      /\ r.final = agents[a].final /\ KeyOf(r) = KeyOf(agents[a])
  BY <1>3 DEF Agent, KeyOf
<1> HIDE DEF r
<1>6. agents'[a] = r /\ \A c \in Agents \ {a} : agents'[c] = agents[c]
  BY <1>1, <1>4
<1>7. Renewed(a) /\ agents'[a].status = "revoked"
  <2>1. archived' = archived /\ buried' = buried
    BY DEF Revoke, told
  <2> QED BY <1>2, <1>3, <1>5, <1>6, <2>1, RecordsAssumption DEF Renewed
<1> QED BY <1>7 DEF Revoke

(* One who joins takes agents along. *)
Moved(S, h, o) ==
  /\ archived' = archived /\ tokens' = tokens /\ buried' = buried
  /\ \A c \in Agents \ S : agents'[c] = agents[c]
  /\ \A c \in S :
       /\ agents[c] \in Agent /\ agents[c] # Nil /\ agents[c].status = "active"
       /\ agents[c].space = Nil /\ agents[c].owner = h
       /\ nameIdx[<<o, h, agents[c].name>>] = Nil /\ agentByURI[URI(o, h, agents[c].name)] = Nil
       /\ agents'[c] \in Agent /\ agents'[c] # Nil /\ agents'[c].status = "active"
       /\ agents'[c].token = agents[c].token /\ agents'[c].final = agents[c].final
       /\ agents'[c].space = o /\ agents'[c].owner = h /\ agents'[c].name = agents[c].name
       /\ agents'[c].uri = URI(o, h, agents[c].name)
       /\ KeyOf(agents'[c]) = <<o, h, agents[c].name>>

LEMMA JoinIs ==
  ASSUME TypeInv, NEW h \in Humans, NEW o \in Orgs, Join(h, o)
  PROVE  \E S \in SUBSET Agents :
           /\ Moved(S, h, o)
           /\ nameIdx' = Reindexed(nameIdx, [a \in S |-> KeyOf(agents[a])],
                                            [a \in S |-> KeyOf(agents'[a])])
           /\ agentByURI' = Reindexed(agentByURI, [a \in S |-> agents[a].uri],
                                                  [a \in S |-> agents'[a].uri])
<1> DEFINE S == Moving(h, o)
           moved == [a \in S |-> [agents[a] EXCEPT !.space = o, !.uri = URI(o, h, agents[a].name)]]
<1>1. agents \in [Agents -> Agent \cup {Nil}]
  BY DEF TypeInv, AgentsOK
<1>2. /\ nameIdx' = Reindexed(nameIdx, [a \in S |-> KeyOf(agents[a])], [a \in S |-> KeyOf(moved[a])])
      /\ agentByURI' = Reindexed(agentByURI, [a \in S |-> agents[a].uri], [a \in S |-> moved[a].uri])
      /\ agents' = [a \in Agents |-> IF a \in S THEN moved[a] ELSE agents[a]]
      /\ archived' = archived /\ tokens' = tokens /\ buried' = buried
  BY DEF Join, told
<1>3. ASSUME NEW a \in S
      PROVE  /\ a \in Agents /\ agents[a] \in Agent /\ agents[a] # Nil /\ agents[a].status = "active"
             /\ agents[a].space = Nil /\ agents[a].owner = h
             /\ nameIdx[<<o, h, agents[a].name>>] = Nil
             /\ agentByURI[URI(o, h, agents[a].name)] = Nil
  BY <1>1, <1>3 DEF Moving, Active
<1>4. ASSUME NEW a \in S
      PROVE  /\ moved[a] \in Agent /\ moved[a].status = agents[a].status
             /\ moved[a].token = agents[a].token /\ moved[a].final = agents[a].final
             /\ moved[a].space = o /\ moved[a].owner = agents[a].owner
             /\ moved[a].name = agents[a].name
             /\ moved[a].uri = URI(o, h, agents[a].name)
             /\ KeyOf(moved[a]) = <<o, agents[a].owner, agents[a].name>>
  <2> DEFINE uri == URI(o, h, agents[a].name)
             r == [agents[a] EXCEPT !.space = o, !.uri = uri]
  <2>1. o \in Spaces /\ h \in Owners /\ agents[a].name \in Names
    BY <1>3 DEF Spaces, Owners, Agent
  <2>2. uri \in URIs
    BY <2>1, URIType DEF TypeInv
  <2>3. moved[a] = r
    OBVIOUS
  <2> HIDE DEF uri
  <2>4. /\ r \in Agent /\ r.status = agents[a].status /\ r.token = agents[a].token
        /\ r.final = agents[a].final /\ r.space = o /\ r.owner = agents[a].owner
        /\ r.name = agents[a].name /\ r.uri = uri
        /\ KeyOf(r) = <<o, agents[a].owner, agents[a].name>>
    BY <1>3, <2>1, <2>2 DEF Agent, KeyOf
  <2> HIDE DEF r, moved
  <2> QED BY <2>3, <2>4 DEF uri
<1> HIDE DEF S, moved
<1>5. /\ S \in SUBSET Agents /\ \A a \in S : agents'[a] = moved[a]
      /\ \A a \in Agents \ S : agents'[a] = agents[a]
  BY <1>2, <1>3
<1>6. Moved(S, h, o)
  BY <1>2, <1>3, <1>4, <1>5, RecordsAssumption DEF Moved
<1>7. /\ [a \in S |-> KeyOf(moved[a])] = [a \in S |-> KeyOf(agents'[a])]
      /\ [a \in S |-> moved[a].uri] = [a \in S |-> agents'[a].uri]
  BY <1>5
<1> QED BY <1>2, <1>5, <1>6, <1>7

LEMMA BornIs ==
  ASSUME TypeInv, NEW b \in Binds, NEW a \in Agents, NEW n \in Names, Born(b, a, n)
  PROVE  /\ agents[a] = Nil /\ archived[a] = Nil /\ binds[b] # Nil
         /\ binds[b].space \in Spaces /\ binds[b].owner \in Owners
         /\ agents'[a] \in Agent /\ agents'[a] # Nil /\ agents'[a].status = "active"
         /\ agents'[a].token = 1 /\ ~agents'[a].final
         /\ agents'[a].space = binds[b].space /\ agents'[a].owner = binds[b].owner
         /\ agents'[a].uri = URI(binds[b].space, binds[b].owner, n)
         /\ KeyOf(agents'[a]) = <<binds[b].space, binds[b].owner, n>>
         /\ \A c \in Agents \ {a} : agents'[c] = agents[c]
<1>1. agents \in [Agents -> Agent \cup {Nil}] /\ agents' = [agents EXCEPT ![a] = NewAgent(b, n)]
  BY DEF Born, TypeInv, AgentsOK
<1>2. agents'[a] = NewAgent(b, n) /\ \A c \in Agents \ {a} : agents'[c] = agents[c]
  BY <1>1
<1>3. binds[b] # Nil /\ binds[b].space \in Spaces /\ binds[b].owner \in Owners
  BY DEF Born, TypeInv, BindsOK, Bind
<1>4. agents[a] = Nil /\ archived[a] = Nil
  BY DEF Born
<1>5. /\ NewAgent(b, n) \in Agent /\ NewAgent(b, n) # Nil
      /\ NewAgent(b, n).space = binds[b].space /\ NewAgent(b, n).owner = binds[b].owner
      /\ NewAgent(b, n).status = "active" /\ NewAgent(b, n).token = 1 /\ ~NewAgent(b, n).final
      /\ NewAgent(b, n).uri = URI(binds[b].space, binds[b].owner, n)
      /\ KeyOf(NewAgent(b, n)) = <<binds[b].space, binds[b].owner, n>>
  BY <1>3, NewAgentType
<1> QED BY <1>2, <1>3, <1>4, <1>5

-----------------------------------------------------------------------------
(* Tokens.                                                                 *)
Numbers == 1 .. MaxTokens
TokensAgree ==
  \A a \in Agents, k \in Numbers :
    <<a, k>> \in tokens <=> Active(a) /\ agents[a].token = k

LEMMA RebuildTokens ==
  ASSUME AgentsOK', NEW gone, Rebuild(agents', gone)
  PROVE  TokensAgree'
<1>1. tokens' = {<<a, agents'[a].token>> : a \in Opens(agents')}
  BY DEF Rebuild
<1>2. \A a \in Agents : a \in Opens(agents') <=> Active(a)'
  BY DEF Opens, Active
<1>3. \A a \in Opens(agents') : a \in Agents
  BY DEF Opens
<1> QED BY <1>1, <1>2, <1>3 DEF TokensAgree

LEMMA TokensOneByOne ==
  ASSUME \A a \in Agents, k \in Numbers :
           <<a, k>> \in tokens' <=> agents'[a] # Nil /\ agents'[a].status = "active" /\ agents'[a].token = k
  PROVE  TokensAgree'
BY DEF TokensAgree, Active

(* Calls that keep the tokens keep which agents are active, and theirs. *)
LEMMA KeptTokens ==
  ASSUME TokensAgree, tokens' = tokens,
         \A c \in Agents : \/ agents'[c] = agents[c]
                           \/ /\ agents[c] # Nil /\ agents'[c] # Nil
                              /\ agents'[c].status = agents[c].status
                              /\ agents'[c].token = agents[c].token
  PROVE  TokensAgree'
BY DEF TokensAgree, Active

LEMMA NextTokens ==
  ASSUME TypeInv, TypeInv', TokensAgree, AgentSteps
  PROVE  TokensAgree'
<1>1. CASE UNCHANGED <<agentVars, buried>>
  BY <1>1 DEF agentVars, TokensAgree, Active
<1>2. ASSUME NEW b \in Binds, NEW a \in Agents, NEW n \in Names, Redeemed(b, a, n)
      PROVE  TokensAgree'
  <2>1. tokens' = tokens \cup {<<a, 1>>} /\ Born(b, a, n)
    BY <1>2 DEF Redeemed
  <2>2. /\ agents[a] = Nil /\ agents'[a] # Nil /\ agents'[a].status = "active"
        /\ agents'[a].token = 1 /\ \A c \in Agents \ {a} : agents'[c] = agents[c]
    BY <2>1, BornIs
  <2>3. \A k \in Numbers : <<a, k>> \notin tokens
    BY <2>2 DEF TokensAgree, Active
  <2>4. \A c \in Agents \ {a}, k \in Numbers : <<c, k>> \in tokens' <=> <<c, k>> \in tokens
    BY <2>1
  <2>5. \A k \in Numbers : <<a, k>> \in tokens' <=> k = 1
    BY <2>1, <2>3
  <2> SUFFICES ASSUME NEW c \in Agents, NEW k \in Numbers
               PROVE  <<c, k>> \in tokens' <=> /\ agents'[c] # Nil /\ agents'[c].status = "active"
                                              /\ agents'[c].token = k
    BY TokensOneByOne
  <2>6. CASE c = a
    BY <2>2, <2>5, <2>6
  <2>7. CASE c # a
    BY <2>2, <2>4, <2>7 DEF TokensAgree, Active
  <2> QED BY <2>6, <2>7
<1>3. CASE \E b \in Binds, a \in Agents, n \in Names :
             Born(b, a, n) /\ Rebuild(agents', archived')
  BY <1>3, RebuildTokens DEF TypeInv
<1>4. ASSUME NEW a \in Agents, NEW n \in Names, Finalize(a, n)
      PROVE  TokensAgree'
  BY <1>4, FinalizeIs, KeptTokens
<1>5. ASSUME NEW a \in Agents, Rotate(a)
      PROVE  TokensAgree'
  <2>1. /\ Renewed(a) /\ agents'[a].status = "active" /\ agents'[a].token = agents[a].token + 1
        /\ tokens' = (tokens \ {<<a, agents[a].token>>}) \cup {<<a, agents[a].token + 1>>}
    BY <1>5, RotateIs
  <2>2. agents[a].token # agents[a].token + 1
    BY <2>1 DEF Renewed, Agent
  <2>3. \A k \in Numbers : <<a, k>> \in tokens => k = agents[a].token
    BY DEF TokensAgree
  <2>4. \A k \in Numbers : <<a, k>> \in tokens' <=> k = agents[a].token + 1
    BY <2>1, <2>2, <2>3
  <2>5. \A c \in Agents \ {a}, k \in Numbers : <<c, k>> \in tokens' <=> <<c, k>> \in tokens
    BY <2>1
  <2> SUFFICES ASSUME NEW c \in Agents, NEW k \in Numbers
               PROVE  <<c, k>> \in tokens' <=> /\ agents'[c] # Nil /\ agents'[c].status = "active"
                                              /\ agents'[c].token = k
    BY TokensOneByOne
  <2>6. CASE c = a
    BY <2>1, <2>4, <2>6 DEF Renewed
  <2>7. CASE c # a
    BY <2>1, <2>5, <2>7 DEF Renewed, TokensAgree, Active
  <2> QED BY <2>6, <2>7
<1>6. ASSUME NEW a \in Agents, Revoke(a)
      PROVE  TokensAgree'
  <2>1. Renewed(a) /\ agents'[a].status = "revoked" /\ tokens' = tokens \ TokensOf({a})
    BY <1>6, RevokeIs
  <2>2. \A c \in Agents, k \in Numbers :
          <<c, k>> \in tokens' <=> <<c, k>> \in tokens /\ c # a
    BY <2>1 DEF TokensOf, TokensAgree
  <2> SUFFICES ASSUME NEW c \in Agents, NEW k \in Numbers
               PROVE  <<c, k>> \in tokens' <=> /\ agents'[c] # Nil /\ agents'[c].status = "active"
                                              /\ agents'[c].token = k
    BY TokensOneByOne
  <2>3. CASE c = a
    BY <2>1, <2>2, <2>3 DEF Renewed
  <2>4. CASE c # a
    BY <2>1, <2>2, <2>4 DEF Renewed, TokensAgree, Active
  <2> QED BY <2>3, <2>4
<1>7. ASSUME NEW S \in SUBSET {a \in Agents : agents[a] # Nil}, Archive(S)
      PROVE  TokensAgree'
  <2>1. \A c \in Agents, k \in Numbers :
          <<c, k>> \in tokens' <=> <<c, k>> \in tokens /\ c \notin S
    BY <1>7 DEF Archive, TokensOf, TokensAgree
  <2>2. \A c \in Agents : agents'[c] = IF c \in S THEN Nil ELSE agents[c]
    BY <1>7 DEF Archive
  <2> SUFFICES ASSUME NEW c \in Agents, NEW k \in Numbers
               PROVE  <<c, k>> \in tokens' <=> /\ agents'[c] # Nil /\ agents'[c].status = "active"
                                              /\ agents'[c].token = k
    BY TokensOneByOne
  <2>3. CASE c \in S
    BY <2>1, <2>2, <2>3
  <2>4. CASE c \notin S
    BY <2>1, <2>2, <2>4 DEF TokensAgree, Active
  <2> QED BY <2>3, <2>4
<1>8. ASSUME NEW a \in Agents, DeleteCrash(a)
      PROVE  TokensAgree'
  <2>1. Rebuild(agents', archived')
    BY <1>8 DEF DeleteCrash
  <2> QED BY <2>1, RebuildTokens DEF TypeInv
<1>9. ASSUME NEW h \in Humans, NEW o \in Orgs, Join(h, o)
      PROVE  TokensAgree'
  <2>1. PICK S \in SUBSET Agents : Moved(S, h, o)
    BY <1>9, JoinIs
  <2> QED BY <2>1, KeptTokens DEF Moved
<1>10. CASE Restart
  <2>1. Rebuild(agents', archived')
    BY <1>10 DEF Restart
  <2> QED BY <2>1, RebuildTokens DEF TypeInv
<1> QED BY <1>1, <1>2, <1>3, <1>4, <1>5, <1>6, <1>7, <1>8, <1>9, <1>10 DEF AgentSteps

(* The tokens the hub takes are the last of the active agents, so none     *)
(* that was rotated, revoked or deleted opens anything, after restarts and *)
(* crashes too (agentTokenIdx, RotateAgentToken, RevokeAgent, DeleteAgent).*)
THEOREM TokensStayTheirs == Spec => []TokensOpenTheirAgent
<1>1. Init => TokensAgree
  BY DEF Init, TokensAgree, Active
<1>2. TypeInv /\ TokensAgree => TokensOpenTheirAgent
  <2> SUFFICES ASSUME TypeInv, TokensAgree PROVE TokensOpenTheirAgent
    OBVIOUS
  <2>1. \A t \in tokens : \E a \in Agents, k \in Numbers : t = <<a, k>>
    BY DEF TypeInv, TokensOK, Numbers
  <2>2. \A a \in Agents : Active(a) => agents[a].token \in Numbers
    BY DEF TypeInv, AgentsOK, Agent, Active, Numbers
  <2> QED BY <2>1, <2>2 DEF TokensAgree, TokensOpenTheirAgent
<1> QED BY <1>1, <1>2, InitTypes, NextTypes, NextAgentSteps, NextTokens, PTL DEF Spec

-----------------------------------------------------------------------------
(* Bind tokens.                                                            *)
AnsweredIsUsed ==
  \A p \in answered : binds[p[1]] # Nil /\ binds[p[1]].status # "open"

AnswerInv == TypeInv /\ AnsweredIsUsed /\ OneAnswerPerBind

(* A bind token stays its owner's, and one used or gone stays so. *)
ClosedStays(b) ==
  binds[b] # Nil => /\ binds'[b] # Nil /\ binds'[b].owner = binds[b].owner
                    /\ binds[b].status # "open" => binds'[b].status # "open"

LEMMA NextBinds ==
  ASSUME TypeInv, [Next]_vars, NEW b \in Binds
  PROVE  ClosedStays(b)
<1>1. binds \in [Binds -> Bind \cup {Nil}]
  BY DEF TypeInv, BindsOK
<1>2. CASE binds' = binds
  BY <1>2 DEF ClosedStays
<1>3. ASSUME NEW w \in Workers, IssueBind(w)
      PROVE  ClosedStays(b)
  <2>1. PICK c \in Binds : binds[c] = Nil /\ \E r : binds' = [binds EXCEPT ![c] = r]
    BY <1>3 DEF IssueBind, Fresh
  <2>2. \A d \in Binds \ {c} : binds'[d] = binds[d]
    BY <1>1, <2>1
  <2> QED BY <2>1, <2>2 DEF ClosedStays
<1>4. ASSUME NEW w \in Workers, Redeem(w)
      PROVE  ClosedStays(b)
  <2>1. PICK c \in Binds : binds[c] # Nil /\ binds' = [binds EXCEPT ![c].status = "used"]
    BY <1>4 DEF Redeem, At, TypeInv, JobsOK
  <2>2. binds' = [binds EXCEPT ![c] = [binds[c] EXCEPT !.status = "used"]]
    BY <2>1
  <2>3. /\ [binds[c] EXCEPT !.status = "used"] \in Bind
        /\ [binds[c] EXCEPT !.status = "used"].status = "used"
        /\ [binds[c] EXCEPT !.status = "used"].owner = binds[c].owner
    BY <1>1, <2>1 DEF Bind
  <2>4. binds'[c] # Nil /\ binds'[c].status = "used" /\ binds'[c].owner = binds[c].owner
    BY <1>1, <2>2, <2>3, RecordsAssumption
  <2>5. \A d \in Binds \ {c} : binds'[d] = binds[d]
    BY <1>1, <2>2
  <2> QED BY <2>4, <2>5 DEF ClosedStays
<1>5. ASSUME NEW o \in Orgs, DeleteOrg(o)
      PROVE  ClosedStays(b)
  <2>1. CASE binds[b] # Nil /\ binds[b].space = o
    <3>1. binds'[b] = [binds[b] EXCEPT !.status = "gone"] /\ binds[b] \in Bind
      BY <1>1, <1>5, <2>1 DEF DeleteOrg
    <3>2. binds'[b] \in Bind /\ binds'[b].status = "gone" /\ binds'[b].owner = binds[b].owner
      BY <3>1 DEF Bind
    <3> QED BY <3>2, RecordsAssumption DEF ClosedStays
  <2>2. CASE ~(binds[b] # Nil /\ binds[b].space = o)
    <3>1. binds'[b] = binds[b]
      BY <1>5, <2>2 DEF DeleteOrg
    <3> QED BY <3>1 DEF ClosedStays
  <2> QED BY <2>1, <2>2
<1>6. ASSUME NEW w \in Workers, BindRequest(w) \/ RedeemRequest(w)
      PROVE  ClosedStays(b)
  BY <1>2, <1>3, <1>4, <1>6 DEF BindRequest, RedeemRequest, AskBind, IssueBindFails, AskRedeem,
     RedeemTaken, RedeemRefused, RedeemCrash, bindVars
<1>7. CASE \E a \in Agents : AgentRequest(a)
  BY <1>2, <1>7 DEF AgentRequest, Finalize, Rotate, Revoke, Delete, DeleteCrash, bindVars
<1>8. CASE \E h \in Humans : HumanRequest(h)
  BY <1>2, <1>8 DEF HumanRequest, Join, Leave, Rename, bindVars
<1>9. CASE (\E c \in Binds : Elapse(c)) \/ Restart \/ UNCHANGED vars
  BY <1>2, <1>9 DEF Elapse, Restart, vars, bindVars
<1> QED BY <1>5, <1>6, <1>7, <1>8, <1>9 DEF Next

(* Only a redemption gives an answer: for a token that was open, and is not. *)
LEMMA NextAnswers ==
  ASSUME TypeInv, [Next]_vars
  PROVE  \/ answered' = answered
         \/ \E b \in Binds, a \in Agents :
              /\ answered' = answered \cup {<<b, a>>}
              /\ binds[b] # Nil /\ binds[b].status = "open" /\ binds'[b].status # "open"
<1>1. ASSUME NEW w \in Workers, Redeem(w), answered' # answered
      PROVE  \E b \in Binds, a \in Agents :
               /\ answered' = answered \cup {<<b, a>>}
               /\ binds[b] # Nil /\ binds[b].status = "open" /\ binds'[b].status # "open"
  <2>1. PICK b \in Binds : /\ b = job[w].bind /\ binds[b] # Nil /\ Redeemable(b)
                           /\ binds' = [binds EXCEPT ![b].status = "used"]
    BY <1>1 DEF Redeem, At, TypeInv, JobsOK
  <2>2. PICK a \in Agents : answered' = answered \cup {<<b, a>>}
    BY <1>1, <2>1 DEF Redeem
  <2>3. binds \in [Binds -> Bind \cup {Nil}]
    BY DEF TypeInv, BindsOK
  <2>4. binds[b] \in Bind /\ binds'[b] = [binds[b] EXCEPT !.status = "used"]
    BY <2>1, <2>3
  <2>5. binds'[b].status = "used"
    BY <2>4 DEF Bind
  <2> QED BY <2>1, <2>2, <2>5 DEF Redeemable
<1>2. ASSUME NEW w \in Workers, BindRequest(w) \/ RedeemRequest(w), ~Redeem(w)
      PROVE  answered' = answered
  BY <1>2 DEF BindRequest, RedeemRequest, AskBind, IssueBind, IssueBindFails, AskRedeem,
     RedeemTaken, RedeemRefused, RedeemCrash, told
<1>3. CASE \E a \in Agents : AgentRequest(a)
  BY <1>3 DEF AgentRequest, Finalize, Rotate, Revoke, Delete, DeleteCrash, Archive, told
<1>4. CASE \E h \in Humans : HumanRequest(h)
  BY <1>4 DEF HumanRequest, Join, Leave, Rename, told
<1>5. CASE (\E b \in Binds : Elapse(b)) \/ (\E o \in Orgs : DeleteOrg(o)) \/ Restart \/ UNCHANGED vars
  BY <1>5 DEF Elapse, DeleteOrg, Archive, Restart, told, vars
<1> QED BY <1>1, <1>2, <1>3, <1>4, <1>5 DEF Next

LEMMA NextAnswerInv ==
  ASSUME AnswerInv, [Next]_vars
  PROVE  AnswerInv'
<1>1. \A p \in answered : p[1] \in Binds
  BY DEF AnswerInv, TypeInv, ToldOK
<1>2. \A b \in Binds : ClosedStays(b)
  BY NextBinds DEF AnswerInv
<1>3. \A p \in answered : binds'[p[1]] # Nil /\ binds'[p[1]].status # "open"
  BY <1>1, <1>2 DEF AnswerInv, AnsweredIsUsed, ClosedStays
<1>4. TypeInv'
  BY NextTypes DEF AnswerInv
<1>5. CASE answered' = answered
  <2>1. AnsweredIsUsed' /\ OneAnswerPerBind'
    BY <1>3, <1>5 DEF AnswerInv, AnsweredIsUsed, OneAnswerPerBind
  <2> QED BY <1>4, <2>1 DEF AnswerInv
<1>6. ASSUME NEW b \in Binds, NEW a \in Agents, answered' = answered \cup {<<b, a>>},
             binds[b] # Nil, binds[b].status = "open", binds'[b].status # "open"
      PROVE  AnswerInv'
  <2>1. AnsweredIsUsed'
    BY <1>2, <1>3, <1>6 DEF ClosedStays, AnsweredIsUsed
  <2>2. \A p \in answered : p[1] # b
    BY <1>6 DEF AnswerInv, AnsweredIsUsed
  <2>3. OneAnswerPerBind'
    BY <1>6, <2>2 DEF AnswerInv, OneAnswerPerBind
  <2> QED BY <1>4, <2>1, <2>3 DEF AnswerInv
<1> QED BY <1>5, <1>6, NextAnswers DEF AnswerInv

(* A bind token answers with one agent, however many redeem it at a time,  *)
(* when the hub crashes between saving the agent and the token, and when   *)
(* it is redeemed again after that (RedeemBindToken).                      *)
THEOREM OneAnswer == Spec => []OneAnswerPerBind
<1>1. Init => AnsweredIsUsed /\ OneAnswerPerBind
  BY DEF Init, AnsweredIsUsed, OneAnswerPerBind
<1>2. Init => AnswerInv
  BY <1>1, InitTypes DEF AnswerInv
<1>3. AnswerInv /\ [Next]_vars => AnswerInv'
  BY NextAnswerInv
<1>4. AnswerInv => OneAnswerPerBind
  BY DEF AnswerInv
<1> QED BY <1>2, <1>3, <1>4, PTL DEF Spec

-----------------------------------------------------------------------------
(* Names.                                                                  *)
Distinct(live) ==
  \A a, c \in Opens(live) :
    live[a].uri = live[c].uri \/ KeyOf(live[a]) = KeyOf(live[c]) => a = c

LEMMA NamesAreDistinct ==
  ASSUME NamesLeadToAgents
  PROVE  Distinct(agents)
BY DEF NamesLeadToAgents, Distinct, Opens, Active

LEMMA IndexedOne ==
  ASSUME NEW S, NEW a \in S, \A c \in S : c = a, NEW T
  PROVE  Indexed(S, T) = a
<1>1. (CHOOSE c \in S : TRUE) \in S
  OBVIOUS
<1> QED BY <1>1 DEF Indexed

LEMMA RebuildNames ==
  ASSUME AgentsOK', Distinct(agents'), NEW gone, Rebuild(agents', gone)
  PROVE  NamesLeadToAgents'
<1> SUFFICES ASSUME NEW a \in Agents, agents'[a] # Nil, agents'[a].status = "active"
             PROVE  agentByURI'[agents'[a].uri] = a /\ nameIdx'[KeyOf(agents'[a])] = a
  BY DEF NamesLeadToAgents, Active
<1> DEFINE S == {c \in Opens(agents') : agents'[c].uri = agents'[a].uri}
           T == {c \in Opens(agents') : KeyOf(agents'[c]) = KeyOf(agents'[a])}
<1>1. a \in Opens(agents')
  BY DEF Opens
<1>2. a \in S /\ a \in T /\ (\A c \in S : c = a) /\ (\A c \in T : c = a)
  BY <1>1 DEF Distinct
<1>3. agents'[a] \in Agent
  BY DEF AgentsOK
<1>4. agents'[a].uri \in URIs /\ KeyOf(agents'[a]) \in Keys
  BY <1>3, KeyType
<1>5. /\ agentByURI'[agents'[a].uri] = Indexed(S, {c \in Kept(gone) : gone[c].uri = agents'[a].uri})
      /\ nameIdx'[KeyOf(agents'[a])] = Indexed(T, {c \in Kept(gone) : KeyOf(gone[c]) = KeyOf(agents'[a])})
  BY <1>4 DEF Rebuild
<1> HIDE DEF S, T
<1> QED BY <1>2, <1>5, IndexedOne

LEMMA RedeemedNames ==
  ASSUME TypeInv, NamesLeadToAgents, NEW b \in Binds, NEW a \in Agents, NEW n \in Names, Redeemed(b, a, n)
  PROVE  NamesLeadToAgents'
<1> DEFINE uri == URI(binds[b].space, binds[b].owner, n)
           key == <<binds[b].space, binds[b].owner, n>>
<1>1. Born(b, a, n)
  BY DEF Redeemed
<1>2. /\ agents'[a].uri = uri /\ KeyOf(agents'[a]) = key
      /\ \A c \in Agents \ {a} : agents'[c] = agents[c]
      /\ binds[b].space \in Spaces /\ binds[b].owner \in Owners
  BY <1>1, BornIs
<1>3. agentByURI[uri] = Nil /\ nameIdx[key] = Nil
  BY <1>1 DEF Born, Free
<1>4. agentByURI' = [agentByURI EXCEPT ![uri] = a] /\ nameIdx' = [nameIdx EXCEPT ![key] = a]
  BY DEF Redeemed
<1>5. uri \in URIs /\ key \in Keys
  BY <1>2, URIType DEF TypeInv
<1>6. agentByURI \in [URIs -> Agents \cup {Nil}] /\ nameIdx \in [Keys -> Agents \cup {Nil}]
  BY DEF TypeInv, IndexOK
<1> HIDE DEF uri, key
<1>7. /\ agentByURI'[uri] = a /\ nameIdx'[key] = a
      /\ \A u \in URIs : u # uri => agentByURI'[u] = agentByURI[u]
      /\ \A k \in Keys : k # key => nameIdx'[k] = nameIdx[k]
  BY <1>4, <1>5, <1>6
<1>8. ASSUME NEW c \in Agents, c # a, Active(c)
      PROVE  agentByURI'[agents[c].uri] = c /\ nameIdx'[KeyOf(agents[c])] = c
  <2>1. agents[c] \in Agent
    BY <1>8 DEF Active, TypeInv, AgentsOK
  <2>2. agents[c].uri \in URIs /\ KeyOf(agents[c]) \in Keys
    BY <2>1, KeyType
  <2>3. agentByURI[agents[c].uri] = c /\ nameIdx[KeyOf(agents[c])] = c
    BY <1>8 DEF NamesLeadToAgents
  <2> QED BY <1>3, <1>7, <2>2, <2>3, NoAgent
<1> QED BY <1>2, <1>7, <1>8 DEF NamesLeadToAgents, Active

LEMMA BornNames ==
  ASSUME TypeInv, NamesLeadToAgents, NEW b \in Binds, NEW a \in Agents, NEW n \in Names, Born(b, a, n)
  PROVE  Distinct(agents')
<1>1. /\ agents'[a].uri = URI(binds[b].space, binds[b].owner, n)
      /\ KeyOf(agents'[a]) = <<binds[b].space, binds[b].owner, n>>
      /\ \A c \in Agents \ {a} : agents'[c] = agents[c]
  BY BornIs
<1>2. /\ agentByURI[agents'[a].uri] = Nil /\ nameIdx[KeyOf(agents'[a])] = Nil
  BY <1>1 DEF Born, Free
<1>3. ASSUME NEW c \in Agents, c # a, agents'[c] # Nil, agents'[c].status = "active"
      PROVE  agentByURI[agents'[c].uri] = c /\ nameIdx[KeyOf(agents'[c])] = c
  BY <1>1, <1>3 DEF NamesLeadToAgents, Active
<1>4. ASSUME NEW c \in Agents, agents'[c] # Nil, agents'[c].status = "active",
             NEW d \in Agents, agents'[d] # Nil, agents'[d].status = "active",
             agents'[c].uri = agents'[d].uri \/ KeyOf(agents'[c]) = KeyOf(agents'[d])
      PROVE  c = d
  BY <1>2, <1>3, <1>4, NoAgent
<1> QED BY <1>4 DEF Distinct, Opens

LEMMA FinalizeNames ==
  ASSUME TypeInv, NamesLeadToAgents, NEW a \in Agents, NEW n \in Names, Finalize(a, n)
  PROVE  NamesLeadToAgents'
<1> DEFINE uri == URI(agents[a].space, agents[a].owner, n)
           key == <<agents[a].space, agents[a].owner, n>>
<1>1. /\ agents[a] \in Agent /\ Active(a) /\ agents'[a].uri = uri /\ KeyOf(agents'[a]) = key
      /\ \A c \in Agents \ {a} : agents'[c] = agents[c]
  BY FinalizeIs DEF Active
<1>2. /\ agentByURI' = [agentByURI EXCEPT ![agents[a].uri] = Nil, ![uri] = a]
      /\ nameIdx' = [nameIdx EXCEPT ![KeyOf(agents[a])] = Nil, ![key] = a]
      /\ agentByURI[uri] \in {a, Nil} /\ nameIdx[key] \in {a, Nil}
  BY DEF Finalize
<1>3. uri \in URIs /\ key \in Keys
  <2>1. agents[a].space \in Spaces /\ agents[a].owner \in Owners
    BY <1>1 DEF Agent
  <2> QED BY <2>1, URIType DEF TypeInv
<1>4. agentByURI \in [URIs -> Agents \cup {Nil}] /\ nameIdx \in [Keys -> Agents \cup {Nil}]
  BY DEF TypeInv, IndexOK
<1> HIDE DEF uri, key
<1>5. /\ agentByURI'[uri] = a /\ nameIdx'[key] = a
      /\ \A u \in URIs : u # uri /\ u # agents[a].uri => agentByURI'[u] = agentByURI[u]
      /\ \A k \in Keys : k # key /\ k # KeyOf(agents[a]) => nameIdx'[k] = nameIdx[k]
  BY <1>2, <1>3, <1>4
<1>6. ASSUME NEW c \in Agents, c # a, Active(c)
      PROVE  agentByURI'[agents[c].uri] = c /\ nameIdx'[KeyOf(agents[c])] = c
  <2>1. agents[c] \in Agent
    BY <1>6 DEF Active, TypeInv, AgentsOK
  <2>2. agents[c].uri \in URIs /\ KeyOf(agents[c]) \in Keys
    BY <2>1, KeyType
  <2>3. agentByURI[agents[c].uri] = c /\ nameIdx[KeyOf(agents[c])] = c
    BY <1>6 DEF NamesLeadToAgents
  <2>4. agentByURI[agents[a].uri] = a /\ nameIdx[KeyOf(agents[a])] = a
    BY <1>1 DEF NamesLeadToAgents
  <2> QED BY <1>2, <1>5, <1>6, <2>2, <2>3, <2>4, NoAgent
<1> QED BY <1>1, <1>5, <1>6 DEF NamesLeadToAgents, Active

LEMMA RenewedNames ==
  ASSUME TypeInv, NamesLeadToAgents, NEW a \in Agents, Rotate(a) \/ Revoke(a)
  PROVE  NamesLeadToAgents'
<1>1. CASE Rotate(a)
  BY <1>1, RotateIs DEF Renewed, NamesLeadToAgents, Active
<1>2. CASE Revoke(a)
  <2>1. /\ Renewed(a) /\ agents'[a].status = "revoked"
        /\ nameIdx' = [nameIdx EXCEPT ![KeyOf(agents[a])] = Nil]
        /\ agentByURI' = [agentByURI EXCEPT ![agents[a].uri] = Nil]
    BY <1>2, RevokeIs
  <2>2. agentByURI \in [URIs -> Agents \cup {Nil}] /\ nameIdx \in [Keys -> Agents \cup {Nil}]
    BY DEF TypeInv, IndexOK
  <2>3. /\ \A u \in URIs : u # agents[a].uri => agentByURI'[u] = agentByURI[u]
        /\ \A k \in Keys : k # KeyOf(agents[a]) => nameIdx'[k] = nameIdx[k]
    BY <2>1, <2>2
  <2>4. ASSUME NEW c \in Agents, c # a, Active(c)
        PROVE  agentByURI'[agents[c].uri] = c /\ nameIdx'[KeyOf(agents[c])] = c
    <3>1. agents[c] \in Agent
      BY <2>4 DEF Active, TypeInv, AgentsOK
    <3>2. agents[c].uri \in URIs /\ KeyOf(agents[c]) \in Keys
      BY <3>1, KeyType
    <3>3. agentByURI[agents[c].uri] = c /\ nameIdx[KeyOf(agents[c])] = c
      BY <2>4 DEF NamesLeadToAgents
    <3>4. agentByURI[agents[a].uri] = a /\ nameIdx[KeyOf(agents[a])] = a
      BY <2>1 DEF NamesLeadToAgents, Renewed, Active
    <3> QED BY <2>3, <2>4, <3>2, <3>3, <3>4
  <2> QED BY <2>1, <2>4 DEF Renewed, NamesLeadToAgents, Active
<1> QED BY <1>1, <1>2

LEMMA ReindexedMoved ==
  ASSUME NEW index, NEW old, NEW new, NEW a \in DOMAIN new, new[a] \in DOMAIN index,
         \A c \in DOMAIN new : new[c] = new[a] => c = a
  PROVE  Reindexed(index, old, new)[new[a]] = a
<1>1. (CHOOSE c \in DOMAIN new : new[c] = new[a]) = a
  OBVIOUS
<1> QED BY <1>1 DEF Reindexed

LEMMA ReindexedKept ==
  ASSUME NEW index, NEW old, NEW new, NEW i \in DOMAIN index,
         \A a \in DOMAIN new : new[a] # i, \A a \in DOMAIN old : old[a] # i
  PROVE  Reindexed(index, old, new)[i] = index[i]
BY DEF Reindexed

LEMMA JoinNames ==
  ASSUME TypeInv, NamesLeadToAgents, NEW h \in Humans, NEW o \in Orgs, Join(h, o)
  PROVE  NamesLeadToAgents'
<1>1. PICK S \in SUBSET Agents :
        /\ Moved(S, h, o)
        /\ nameIdx' = Reindexed(nameIdx, [a \in S |-> KeyOf(agents[a])],
                                         [a \in S |-> KeyOf(agents'[a])])
        /\ agentByURI' = Reindexed(agentByURI, [a \in S |-> agents[a].uri],
                                               [a \in S |-> agents'[a].uri])
  BY JoinIs
<1>2. agentByURI \in [URIs -> Agents \cup {Nil}] /\ nameIdx \in [Keys -> Agents \cup {Nil}]
  BY DEF TypeInv, IndexOK
<1> DEFINE oldKeys == [a \in S |-> KeyOf(agents[a])]
           newKeys == [a \in S |-> KeyOf(agents'[a])]
           oldURIs == [a \in S |-> agents[a].uri]
           newURIs == [a \in S |-> agents'[a].uri]
<1>3. /\ DOMAIN oldKeys = S /\ DOMAIN newKeys = S /\ DOMAIN oldURIs = S /\ DOMAIN newURIs = S
      /\ \A a \in S : /\ oldKeys[a] = KeyOf(agents[a]) /\ newKeys[a] = KeyOf(agents'[a])
                      /\ oldURIs[a] = agents[a].uri /\ newURIs[a] = agents'[a].uri
  OBVIOUS
<1>4. /\ nameIdx' = Reindexed(nameIdx, oldKeys, newKeys)
      /\ agentByURI' = Reindexed(agentByURI, oldURIs, newURIs)
  BY <1>1
<1> HIDE DEF oldKeys, newKeys, oldURIs, newURIs
<1>5. ASSUME NEW a \in S
      PROVE  /\ Active(a) /\ KeyOf(agents[a]) = <<Nil, h, agents[a].name>>
             /\ agents'[a].uri = <<o, HandleOf(h), agents[a].name>>
             /\ KeyOf(agents'[a]) = <<o, h, agents[a].name>>
             /\ agentByURI[agents'[a].uri] = Nil /\ nameIdx[KeyOf(agents'[a])] = Nil
             /\ agents'[a].uri \in URIs /\ KeyOf(agents'[a]) \in Keys
  BY <1>1, KeyType DEF Moved, Active, KeyOf, URI
<1>6. ASSUME NEW a \in S, NEW c \in S,
             agents'[a].uri = agents'[c].uri \/ KeyOf(agents'[a]) = KeyOf(agents'[c])
      PROVE  a = c
  <2>1. agents[a].name = agents[c].name
    BY <1>5, <1>6
  <2>2. KeyOf(agents[a]) = KeyOf(agents[c]) /\ Active(a) /\ Active(c)
    BY <1>5, <2>1
  <2> QED BY <2>2 DEF NamesLeadToAgents
<1>7. ASSUME NEW c \in S
      PROVE  agentByURI'[agents'[c].uri] = c /\ nameIdx'[KeyOf(agents'[c])] = c
  <2>1. /\ agents'[c].uri \in URIs /\ KeyOf(agents'[c]) \in Keys
        /\ newURIs[c] = agents'[c].uri /\ newKeys[c] = KeyOf(agents'[c])
        /\ c \in DOMAIN newURIs /\ c \in DOMAIN newKeys
    BY <1>3, <1>5
  <2>2. /\ \A d \in DOMAIN newURIs : newURIs[d] = agents'[c].uri => d = c
        /\ \A d \in DOMAIN newKeys : newKeys[d] = KeyOf(agents'[c]) => d = c
    BY <1>3, <1>6
  <2>3. newURIs[c] \in DOMAIN agentByURI /\ newKeys[c] \in DOMAIN nameIdx
    BY <1>2, <2>1
  <2>4. Reindexed(agentByURI, oldURIs, newURIs)[newURIs[c]] = c
    BY <2>1, <2>2, <2>3, ReindexedMoved
  <2>5. Reindexed(nameIdx, oldKeys, newKeys)[newKeys[c]] = c
    BY <2>1, <2>2, <2>3, ReindexedMoved
  <2> QED BY <1>4, <2>1, <2>4, <2>5
<1>8. ASSUME NEW c \in Agents \ S, Active(c)
      PROVE  agentByURI'[agents[c].uri] = c /\ nameIdx'[KeyOf(agents[c])] = c
  <2>1. agents[c] \in Agent
    BY <1>8 DEF Active, TypeInv, AgentsOK
  <2>2. agents[c].uri \in URIs /\ KeyOf(agents[c]) \in Keys
    BY <2>1, KeyType
  <2>3. agentByURI[agents[c].uri] = c /\ nameIdx[KeyOf(agents[c])] = c
    BY <1>8 DEF NamesLeadToAgents
  <2>4. \A a \in S : agentByURI[agents[a].uri] = a /\ nameIdx[KeyOf(agents[a])] = a
    BY <1>5 DEF NamesLeadToAgents
  <2>5. \A a \in S : /\ newURIs[a] # agents[c].uri /\ newKeys[a] # KeyOf(agents[c])
                     /\ oldURIs[a] # agents[c].uri /\ oldKeys[a] # KeyOf(agents[c])
    BY <1>3, <1>5, <2>3, <2>4, NoAgent
  <2>0. agents[c].uri \in DOMAIN agentByURI /\ KeyOf(agents[c]) \in DOMAIN nameIdx
    BY <1>2, <2>2
  <2>6. Reindexed(agentByURI, oldURIs, newURIs)[agents[c].uri] = agentByURI[agents[c].uri]
    BY <1>3, <2>5, <2>0, ReindexedKept
  <2>7. Reindexed(nameIdx, oldKeys, newKeys)[KeyOf(agents[c])] = nameIdx[KeyOf(agents[c])]
    BY <1>3, <2>5, <2>0, ReindexedKept
  <2> QED BY <1>4, <2>3, <2>6, <2>7
<1> QED BY <1>1, <1>7, <1>8 DEF Moved, NamesLeadToAgents, Active

LEMMA NextNames ==
  ASSUME TypeInv, TypeInv', NamesLeadToAgents, AgentSteps
  PROVE  NamesLeadToAgents'
<1>1. CASE UNCHANGED <<agentVars, buried>>
  BY <1>1 DEF agentVars, NamesLeadToAgents, Active
<1>2. CASE \E b \in Binds, a \in Agents, n \in Names : Redeemed(b, a, n)
  BY <1>2, RedeemedNames
<1>3. CASE \E b \in Binds, a \in Agents, n \in Names : Born(b, a, n) /\ Rebuild(agents', archived')
  BY <1>3, BornNames, RebuildNames DEF TypeInv
<1>4. CASE \E a \in Agents, n \in Names : Finalize(a, n)
  BY <1>4, FinalizeNames
<1>5. CASE \E a \in Agents : Rotate(a) \/ Revoke(a)
  BY <1>5, RenewedNames
<1>6. CASE \E S \in SUBSET {a \in Agents : agents[a] # Nil} : Archive(S)
  BY <1>6 DEF Archive, NamesLeadToAgents, Active
<1>7. CASE (\E a \in Agents : DeleteCrash(a)) \/ Restart
  <2>1. Rebuild(agents', archived') /\ agents' = agents
    BY <1>7 DEF DeleteCrash, Restart
  <2>2. Distinct(agents')
    BY <2>1, NamesAreDistinct
  <2> QED BY <2>1, <2>2, RebuildNames DEF TypeInv
<1>8. CASE \E h \in Humans, o \in Orgs : Join(h, o)
  BY <1>8, JoinNames
<1> QED BY <1>1, <1>2, <1>3, <1>4, <1>5, <1>6, <1>7, <1>8 DEF AgentSteps

(* The URI of an active agent and its name in its space lead to it and to  *)
(* no other, whatever is renamed, moved, freed and taken again, and after  *)
(* a restart makes the indexes anew (agentByURI, the name indexes,         *)
(* rebuildStateIndexesLocked).                                             *)
THEOREM NamesLead == Spec => []NamesLeadToAgents
<1>1. Init => NamesLeadToAgents
  BY DEF Init, NamesLeadToAgents, Active
<1> QED BY <1>1, InitTypes, NextTypes, NextAgentSteps, NextNames, PTL DEF Spec

-----------------------------------------------------------------------------
(* Names of deleted agents: the URIs in the index lead to agents that are  *)
(* or were there, and the URI of a deleted agent is in it.                 *)
PlaceIsInURI == \A a \in Agents : agents[a] # Nil => agents[a].uri[1] = agents[a].space

LeadsTo(u, a) ==
  /\ agents[a] # Nil \/ archived[a] # Nil
  /\ agents[a] # Nil => \/ agents[a].uri = u
                        \/ archived[a] # Nil /\ archived[a].uri = u
URIsLeadToAgents == \A u \in URIs : agentByURI[u] # Nil => LeadsTo(u, agentByURI[u])

(* A crash may leave an agent live and archived: the live one may have     *)
(* moved since, once, and cannot come back to the name that was archived.  *)
HalfDeleted ==
  \A a \in Agents : agents[a] # Nil /\ archived[a] # Nil /\ ~agents[a].final =>
    \/ archived[a].uri = agents[a].uri
    \/ archived[a].uri[1] = Nil /\ agents[a].space # Nil

BuriedBy(u, c) == agents[c] = Nil /\ archived[c] # Nil /\ archived[c].uri = u
BuriedAreTaken ==
  \A u \in buried : agentByURI[u] # Nil /\ \E c \in Agents : BuriedBy(u, c)

BuriedInv == /\ TypeInv /\ NamesLeadToAgents /\ PlaceIsInURI /\ URIsLeadToAgents
             /\ HalfDeleted /\ BuriedAreTaken /\ DeletedNamesStay

BuriedNext == PlaceIsInURI' /\ URIsLeadToAgents' /\ HalfDeleted' /\ BuriedAreTaken' /\ DeletedNamesStay'

LEMMA IndexedIn ==
  ASSUME NEW S, NEW T
  PROVE  /\ S # {} => Indexed(S, T) \in S
         /\ S = {} /\ T # {} => Indexed(S, T) \in T
         /\ S = {} /\ T = {} => Indexed(S, T) = Nil
<1>1. S # {} => (CHOOSE a \in S : TRUE) \in S
  OBVIOUS
<1>2. T # {} => (CHOOSE a \in T : TRUE) \in T
  OBVIOUS
<1> QED BY <1>1, <1>2 DEF Indexed

LEMMA RebuiltURIs ==
  ASSUME AgentsOK', ToldOK', Rebuild(agents', archived'),
         \A u \in buried' : \E c \in Agents : BuriedBy(u, c)'
  PROVE  URIsLeadToAgents' /\ BuriedAreTaken'
<1> DEFINE live(u) == {a \in Opens(agents') : agents'[a].uri = u}
           gone(u) == {a \in Kept(archived') : archived'[a].uri = u}
<1>1. \A u \in URIs : agentByURI'[u] = Indexed(live(u), gone(u))
  BY DEF Rebuild
<1>2. ASSUME NEW u \in URIs
      PROVE  /\ live(u) # {} => agentByURI'[u] \in live(u)
             /\ live(u) = {} /\ gone(u) # {} => agentByURI'[u] \in gone(u)
             /\ live(u) = {} /\ gone(u) = {} => agentByURI'[u] = Nil
  <2> HIDE DEF live, gone
  <2> QED BY <1>1, IndexedIn
<1>3. \A u : /\ \A a \in live(u) : a \in Agents /\ agents'[a] # Nil /\ agents'[a].uri = u
             /\ \A a \in gone(u) : a \in Agents /\ archived'[a] # Nil /\ archived'[a].uri = u
  BY DEF Opens, Kept
<1>4. \A u, c : c \in Agents /\ archived'[c] # Nil /\ archived'[c].uri = u => c \in gone(u)
  BY DEF Kept
<1> HIDE DEF live, gone
<1>5. ASSUME NEW u \in URIs, agentByURI'[u] \in live(u)
      PROVE  LeadsTo(u, agentByURI[u])'
  BY <1>3, <1>5 DEF LeadsTo
<1>6. ASSUME NEW u \in URIs, live(u) = {}, agentByURI'[u] \in gone(u)
      PROVE  LeadsTo(u, agentByURI[u])'
  BY <1>3, <1>6 DEF LeadsTo
<1>7. URIsLeadToAgents'
  BY <1>2, <1>5, <1>6 DEF URIsLeadToAgents
<1>8. ASSUME NEW u \in buried'
      PROVE  agentByURI'[u] # Nil
  <2>1. u \in URIs /\ gone(u) # {}
    BY <1>4 DEF ToldOK, BuriedBy
  <2> QED BY <1>2, <1>3, <2>1, NoAgent
<1> QED BY <1>7, <1>8 DEF BuriedAreTaken

LEMMA BornBuried ==
  ASSUME BuriedInv, NEW b \in Binds, NEW a \in Agents, NEW n \in Names, Born(b, a, n)
  PROVE  /\ PlaceIsInURI' /\ HalfDeleted' /\ DeletedNamesStay'
         /\ \A u \in buried' : \E c \in Agents : BuriedBy(u, c)'
<1>1. /\ agents[a] = Nil /\ archived[a] = Nil /\ agents'[a] # Nil
      /\ agents'[a].space = binds[b].space
      /\ agents'[a].uri = URI(binds[b].space, binds[b].owner, n)
      /\ \A c \in Agents \ {a} : agents'[c] = agents[c]
      /\ archived' = archived /\ buried' = buried
  <2>1. TypeInv /\ archived' = archived /\ buried' = buried
    BY DEF BuriedInv, Born
  <2> QED BY <2>1, BornIs
<1>2. agentByURI[agents'[a].uri] = Nil
  BY <1>1 DEF Born, Free
<1>3. agents'[a].uri[1] = agents'[a].space
  BY <1>1 DEF URI
<1>4. PlaceIsInURI'
  BY <1>1, <1>3 DEF BuriedInv, PlaceIsInURI
<1>5. HalfDeleted'
  BY <1>1 DEF BuriedInv, HalfDeleted
<1>6. agents'[a].uri \notin buried
  BY <1>2 DEF BuriedInv, BuriedAreTaken
<1>7. DeletedNamesStay'
  BY <1>1, <1>6 DEF BuriedInv, DeletedNamesStay, Active
<1>8. \A u \in buried' : \E c \in Agents : BuriedBy(u, c)'
  BY <1>1 DEF BuriedInv, BuriedAreTaken, BuriedBy
<1> QED BY <1>4, <1>5, <1>7, <1>8

LEMMA RedeemedBuried ==
  ASSUME BuriedInv, NEW b \in Binds, NEW a \in Agents, NEW n \in Names, Redeemed(b, a, n)
  PROVE  BuriedNext
<1> DEFINE uri == URI(binds[b].space, binds[b].owner, n)
<1>1. /\ PlaceIsInURI' /\ HalfDeleted' /\ DeletedNamesStay'
      /\ \A u \in buried' : \E c \in Agents : BuriedBy(u, c)'
  BY BornBuried DEF Redeemed
<1>2. /\ agents[a] = Nil /\ archived[a] = Nil /\ agents'[a] # Nil /\ agents'[a].uri = uri
      /\ \A c \in Agents \ {a} : agents'[c] = agents[c]
      /\ archived' = archived /\ buried' = buried
      /\ binds[b].space \in Spaces /\ binds[b].owner \in Owners
  <2>1. TypeInv /\ archived' = archived /\ buried' = buried /\ Born(b, a, n)
    BY DEF BuriedInv, Redeemed, Born
  <2> QED BY <2>1, BornIs
<1>3. uri \in URIs /\ agentByURI \in [URIs -> Agents \cup {Nil}]
  BY <1>2, URIType DEF BuriedInv, TypeInv, IndexOK
<1>4. agentByURI[uri] = Nil /\ agentByURI' = [agentByURI EXCEPT ![uri] = a]
  BY DEF Redeemed, Born, Free
<1> HIDE DEF uri
<1>5. agentByURI'[uri] = a /\ \A u \in URIs : u # uri => agentByURI'[u] = agentByURI[u]
  BY <1>3, <1>4
<1>6. ASSUME NEW u \in URIs, agentByURI'[u] # Nil
      PROVE  LeadsTo(u, agentByURI[u])'
  <2>1. CASE u = uri
    BY <1>2, <1>5, <2>1 DEF LeadsTo
  <2>2. CASE u # uri
    <3>1. agentByURI'[u] = agentByURI[u] /\ agentByURI[u] \in Agents
      BY <1>3, <1>5, <1>6, <2>2
    <3>2. LeadsTo(u, agentByURI[u])
      BY <1>6, <3>1 DEF BuriedInv, URIsLeadToAgents
    <3>3. agentByURI[u] # a
      BY <1>2, <3>2 DEF LeadsTo
    <3> QED BY <1>2, <3>1, <3>2, <3>3 DEF LeadsTo
  <2> QED BY <2>1, <2>2
<1>7. \A u \in buried' : agentByURI'[u] # Nil
  <2>1. \A u \in buried : u \in URIs /\ agentByURI[u] # Nil
    BY DEF BuriedInv, BuriedAreTaken, TypeInv, ToldOK
  <2> QED BY <1>2, <1>4, <1>5, <2>1
<1> QED BY <1>1, <1>6, <1>7 DEF BuriedNext, URIsLeadToAgents, BuriedAreTaken

(* An agent's own name is not that of a deleted agent, so it may be freed. *)
LEMMA FreedBuried ==
  ASSUME BuriedInv, NEW a \in Agents, Active(a)
  PROVE  agents[a].uri \notin buried
BY DEF BuriedInv, DeletedNamesStay

LEMMA FinalizeBuried ==
  ASSUME BuriedInv, NEW a \in Agents, NEW n \in Names, Finalize(a, n)
  PROVE  BuriedNext
<1> DEFINE uri == URI(agents[a].space, agents[a].owner, n)
<1>1. /\ agents[a] \in Agent /\ Active(a) /\ ~agents[a].final
      /\ agents'[a] # Nil /\ agents'[a].space = agents[a].space /\ agents'[a].final
      /\ agents'[a].uri = uri /\ \A c \in Agents \ {a} : agents'[c] = agents[c]
      /\ archived' = archived /\ buried' = buried
  BY FinalizeIs DEF Active, BuriedInv
<1>2. /\ agentByURI' = [agentByURI EXCEPT ![agents[a].uri] = Nil, ![uri] = a]
      /\ agentByURI[uri] \in {a, Nil}
  BY DEF Finalize
<1>3. uri \in URIs
  <2>1. agents[a].space \in Spaces /\ agents[a].owner \in Owners
    BY <1>1 DEF Agent
  <2> QED BY <2>1, URIType DEF BuriedInv, TypeInv
<1>4. agentByURI \in [URIs -> Agents \cup {Nil}] /\ buried \subseteq URIs
  BY DEF BuriedInv, TypeInv, IndexOK, ToldOK
<1>5. uri[1] = agents[a].space
  BY DEF URI
<1> HIDE DEF uri
<1>6. /\ agentByURI'[uri] = a
      /\ \A u \in URIs : u # uri /\ u # agents[a].uri => agentByURI'[u] = agentByURI[u]
      /\ uri # agents[a].uri => agentByURI'[agents[a].uri] = Nil
  <2>1. agents[a].uri \in URIs
    BY <1>1, KeyType
  <2> QED BY <1>2, <1>3, <1>4, <2>1
<1>7. PlaceIsInURI'
  BY <1>1, <1>5 DEF BuriedInv, PlaceIsInURI
<1>8. HalfDeleted'
  BY <1>1 DEF BuriedInv, HalfDeleted
<1>9. ASSUME NEW u \in URIs, agentByURI'[u] # Nil
      PROVE  LeadsTo(u, agentByURI[u])'
  <2>1. CASE u = uri
    BY <1>1, <1>6, <2>1 DEF LeadsTo
  <2>2. CASE u # uri
    <3>1. u # agents[a].uri /\ agentByURI'[u] = agentByURI[u] /\ agentByURI[u] \in Agents
      BY <1>4, <1>6, <1>9, <2>2
    <3>2. LeadsTo(u, agentByURI[u])
      BY <1>9, <3>1 DEF BuriedInv, URIsLeadToAgents
    <3>3. CASE agentByURI[u] = a
      BY <1>1, <3>1, <3>2, <3>3 DEF LeadsTo, Active
    <3>4. CASE agentByURI[u] # a
      BY <1>1, <3>1, <3>2, <3>4 DEF LeadsTo
    <3> QED BY <3>3, <3>4
  <2> QED BY <2>1, <2>2
<1>10. BuriedAreTaken'
  <2>1. \A u \in buried : u # agents[a].uri
    BY <1>1, FreedBuried
  <2>2. \A u \in buried : agentByURI'[u] # Nil
    BY <1>4, <1>6, <2>1, NoAgent DEF BuriedInv, BuriedAreTaken
  <2>3. \A u \in buried : \E c \in Agents : BuriedBy(u, c)'
    BY <1>1 DEF BuriedInv, BuriedAreTaken, BuriedBy, Active
  <2> QED BY <1>1, <2>2, <2>3 DEF BuriedAreTaken
<1>11. uri \notin buried
  <2> SUFFICES ASSUME uri \in buried PROVE FALSE
    OBVIOUS
  <2>1. agentByURI[uri] = a
    BY <1>2 DEF BuriedInv, BuriedAreTaken
  <2>2. LeadsTo(uri, a)
    BY <1>3, <2>1, NoAgent DEF BuriedInv, URIsLeadToAgents
  <2>3. agents[a].uri # uri
    BY <1>1, FreedBuried
  <2>4. archived[a] # Nil /\ archived[a].uri = uri
    BY <1>1, <2>2, <2>3 DEF LeadsTo, Active
  <2>5. archived[a].uri[1] = Nil /\ agents[a].space # Nil
    BY <1>1, <2>3, <2>4 DEF BuriedInv, HalfDeleted, Active
  <2> QED BY <1>5, <2>4, <2>5
<1>12. DeletedNamesStay'
  BY <1>1, <1>11 DEF BuriedInv, DeletedNamesStay, Active
<1> QED BY <1>7, <1>8, <1>9, <1>10, <1>12 DEF BuriedNext, URIsLeadToAgents

LEMMA RenewedBuried ==
  ASSUME BuriedInv, NEW a \in Agents, Rotate(a) \/ Revoke(a)
  PROVE  BuriedNext
<1>1. Renewed(a)
  BY RotateIs, RevokeIs DEF BuriedInv
<1>2. /\ agents[a] # Nil /\ Active(a) /\ agents'[a] # Nil /\ agents'[a].space = agents[a].space
      /\ agents'[a].uri = agents[a].uri /\ agents'[a].final = agents[a].final
      /\ \A c \in Agents \ {a} : agents'[c] = agents[c]
      /\ archived' = archived /\ buried' = buried /\ agents[a] \in Agent
  BY <1>1 DEF Renewed, Active
<1>3. agentByURI \in [URIs -> Agents \cup {Nil}] /\ buried \subseteq URIs
  BY DEF BuriedInv, TypeInv, IndexOK, ToldOK
<1>4. \A u \in URIs : \/ agentByURI'[u] = agentByURI[u]
                      \/ u = agents[a].uri /\ agentByURI'[u] = Nil
  <2>1. CASE Rotate(a)
    BY <2>1 DEF Rotate
  <2>2. CASE Revoke(a)
    <3>1. agentByURI' = [agentByURI EXCEPT ![agents[a].uri] = Nil]
      BY <2>2 DEF Revoke
    <3> QED BY <1>3, <3>1
  <2> QED BY <2>1, <2>2
<1>5. PlaceIsInURI'
  BY <1>2 DEF BuriedInv, PlaceIsInURI
<1>6. HalfDeleted'
  BY <1>2 DEF BuriedInv, HalfDeleted
<1>7. ASSUME NEW u \in URIs, agentByURI'[u] # Nil
      PROVE  LeadsTo(u, agentByURI[u])'
  <2>1. agentByURI'[u] = agentByURI[u] /\ agentByURI[u] \in Agents
    BY <1>3, <1>4, <1>7
  <2>2. LeadsTo(u, agentByURI[u])
    BY <1>7, <2>1 DEF BuriedInv, URIsLeadToAgents
  <2>3. CASE agentByURI[u] = a
    BY <1>2, <2>1, <2>2, <2>3 DEF LeadsTo
  <2>4. CASE agentByURI[u] # a
    BY <1>2, <2>1, <2>2, <2>4 DEF LeadsTo
  <2> QED BY <2>3, <2>4
<1>8. BuriedAreTaken'
  <2>1. \A u \in buried : u # agents[a].uri
    BY <1>2, FreedBuried
  <2>2. \A u \in buried : agentByURI'[u] # Nil
    BY <1>3, <1>4, <2>1 DEF BuriedInv, BuriedAreTaken
  <2>3. \A u \in buried : \E c \in Agents : BuriedBy(u, c)'
    BY <1>2 DEF BuriedInv, BuriedAreTaken, BuriedBy
  <2> QED BY <1>2, <2>2, <2>3 DEF BuriedAreTaken
<1>9. DeletedNamesStay'
  BY <1>2 DEF BuriedInv, DeletedNamesStay, Active
<1> QED BY <1>5, <1>6, <1>7, <1>8, <1>9 DEF BuriedNext, URIsLeadToAgents

LEMMA ArchiveBuried ==
  ASSUME BuriedInv, NEW S \in SUBSET {a \in Agents : agents[a] # Nil}, Archive(S)
  PROVE  BuriedNext
<1>1. /\ \A a \in Agents : agents'[a] = IF a \in S THEN Nil ELSE agents[a]
      /\ \A a \in Agents : archived'[a] = IF a \in S THEN agents[a] ELSE archived[a]
      /\ buried' = buried \cup {agents[a].uri : a \in {c \in S : Active(c)}}
      /\ agentByURI' = agentByURI
  BY DEF Archive
<1>2. S \subseteq Agents /\ \A a \in S : agents[a] # Nil
  OBVIOUS
<1>3. agentByURI \in [URIs -> Agents \cup {Nil}]
  BY DEF BuriedInv, TypeInv, IndexOK
<1>4. PlaceIsInURI' /\ HalfDeleted'
  BY <1>1 DEF BuriedInv, PlaceIsInURI, HalfDeleted
<1>5. ASSUME NEW u \in URIs, agentByURI'[u] # Nil
      PROVE  LeadsTo(u, agentByURI[u])'
  <2>1. agentByURI[u] \in Agents /\ LeadsTo(u, agentByURI[u])
    BY <1>1, <1>3, <1>5 DEF BuriedInv, URIsLeadToAgents
  <2>2. CASE agentByURI[u] \in S
    BY <1>1, <1>2, <2>1, <2>2 DEF LeadsTo
  <2>3. CASE agentByURI[u] \notin S
    BY <1>1, <2>1, <2>3 DEF LeadsTo
  <2> QED BY <2>2, <2>3
<1>6. ASSUME NEW u \in buried'
      PROVE  agentByURI'[u] # Nil /\ \E c \in Agents : BuriedBy(u, c)'
  <2>1. CASE u \in buried
    <3>1. PICK c \in Agents : BuriedBy(u, c)
      BY <2>1 DEF BuriedInv, BuriedAreTaken
    <3>2. c \notin S
      BY <1>2, <3>1 DEF BuriedBy
    <3>3. BuriedBy(u, c)'
      BY <1>1, <3>1, <3>2 DEF BuriedBy
    <3> QED BY <1>1, <2>1, <3>3 DEF BuriedInv, BuriedAreTaken
  <2>2. CASE u \notin buried
    <3>1. PICK a \in S : Active(a) /\ u = agents[a].uri
      BY <1>1, <2>2
    <3>2. agentByURI[u] = a
      BY <1>2, <3>1 DEF BuriedInv, NamesLeadToAgents
    <3>3. BuriedBy(u, a)'
      BY <1>1, <1>2, <3>1 DEF BuriedBy
    <3> QED BY <1>1, <1>2, <3>2, <3>3, NoAgent
  <2> QED BY <2>1, <2>2
<1>7. ASSUME NEW c \in Agents, agents'[c] # Nil, agents'[c].status = "active"
      PROVE  agents'[c].uri \notin buried'
  <2>1. c \notin S /\ agents'[c] = agents[c] /\ Active(c)
    BY <1>1, <1>7 DEF Active
  <2>2. agents[c].uri \notin buried
    BY <2>1, FreedBuried
  <2>3. ASSUME NEW a \in S, Active(a), agents[a].uri = agents[c].uri
        PROVE  a = c
    BY <1>2, <2>1, <2>3 DEF BuriedInv, NamesLeadToAgents
  <2> QED BY <1>1, <2>1, <2>2, <2>3
<1> QED BY <1>4, <1>5, <1>6, <1>7 DEF BuriedNext, URIsLeadToAgents, BuriedAreTaken,
                                     DeletedNamesStay, Active

LEMMA DeleteCrashBuried ==
  ASSUME BuriedInv, NEW a \in Agents, DeleteCrash(a)
  PROVE  /\ PlaceIsInURI' /\ HalfDeleted' /\ DeletedNamesStay'
         /\ \A u \in buried' : \E c \in Agents : BuriedBy(u, c)'
<1>1. /\ agents[a] # Nil /\ archived' = [archived EXCEPT ![a] = agents[a]]
      /\ agents' = agents /\ buried' = buried
  BY DEF DeleteCrash, told
<1>2. archived'[a] = agents[a] /\ \A c \in Agents \ {a} : archived'[c] = archived[c]
  BY <1>1 DEF BuriedInv, TypeInv, AgentsOK
<1>3. PlaceIsInURI' /\ DeletedNamesStay'
  BY <1>1 DEF BuriedInv, PlaceIsInURI, DeletedNamesStay, Active
<1>4. HalfDeleted'
  BY <1>1, <1>2 DEF BuriedInv, HalfDeleted
<1>5. \A u \in buried' : \E c \in Agents : BuriedBy(u, c)'
  BY <1>1, <1>2 DEF BuriedInv, BuriedAreTaken, BuriedBy
<1> QED BY <1>3, <1>4, <1>5

LEMMA ReindexedCases ==
  ASSUME NEW index, NEW old, NEW new, NEW i \in DOMAIN index
  PROVE  \/ Reindexed(index, old, new)[i] \in DOMAIN new /\ new[Reindexed(index, old, new)[i]] = i
         \/ (\E a \in DOMAIN old : old[a] = i) /\ Reindexed(index, old, new)[i] = Nil
         \/ (\A a \in DOMAIN old : old[a] # i) /\ Reindexed(index, old, new)[i] = index[i]
<1>1. CASE \E a \in DOMAIN new : new[a] = i
  <2>1. Reindexed(index, old, new)[i] = CHOOSE a \in DOMAIN new : new[a] = i
    BY <1>1 DEF Reindexed
  <2> QED BY <1>1, <2>1
<1>2. CASE ~\E a \in DOMAIN new : new[a] = i
  BY <1>2 DEF Reindexed
<1> QED BY <1>1, <1>2

LEMMA JoinBuried ==
  ASSUME BuriedInv, NEW h \in Humans, NEW o \in Orgs, Join(h, o)
  PROVE  BuriedNext
<1>1. PICK S \in SUBSET Agents :
        /\ Moved(S, h, o)
        /\ agentByURI' = Reindexed(agentByURI, [a \in S |-> agents[a].uri],
                                               [a \in S |-> agents'[a].uri])
  BY JoinIs DEF BuriedInv
<1>2. agentByURI \in [URIs -> Agents \cup {Nil}] /\ buried \subseteq URIs
  BY DEF BuriedInv, TypeInv, IndexOK, ToldOK
<1> DEFINE old == [a \in S |-> agents[a].uri]
           new == [a \in S |-> agents'[a].uri]
<1>3. /\ DOMAIN old = S /\ DOMAIN new = S
      /\ \A a \in S : old[a] = agents[a].uri /\ new[a] = agents'[a].uri
  OBVIOUS
<1>4. agentByURI' = Reindexed(agentByURI, old, new)
  BY <1>1
<1> HIDE DEF old, new
<1>5. ASSUME NEW u \in URIs
      PROVE  \/ agentByURI'[u] \in S /\ agents'[agentByURI'[u]].uri = u
             \/ (\E a \in S : agents[a].uri = u) /\ agentByURI'[u] = Nil
             \/ (\A a \in S : agents[a].uri # u) /\ agentByURI'[u] = agentByURI[u]
  <2>1. u \in DOMAIN agentByURI
    BY <1>2
  <2> QED BY <1>3, <1>4, <2>1, ReindexedCases
<1>6. /\ archived' = archived /\ buried' = buried
      /\ \A c \in Agents \ S : agents'[c] = agents[c]
  BY <1>1 DEF Moved
<1>7. ASSUME NEW c \in S
      PROVE  /\ c \in Agents /\ Active(c) /\ agents[c] # Nil /\ agents[c].space = Nil
             /\ agents'[c] # Nil /\ agents'[c].space = o /\ agents'[c].final = agents[c].final
             /\ agents'[c].uri[1] = o /\ agentByURI[agents'[c].uri] = Nil
  <2>1. /\ c \in Agents /\ agents[c] # Nil /\ agents[c].status = "active" /\ agents[c].space = Nil
        /\ agents'[c] # Nil /\ agents'[c].space = o /\ agents'[c].final = agents[c].final
        /\ agents'[c].uri = URI(o, h, agents[c].name) /\ agentByURI[URI(o, h, agents[c].name)] = Nil
    BY <1>1 DEF Moved
  <2>2. URI(o, h, agents[c].name)[1] = o
    BY DEF URI
  <2> QED BY <2>1, <2>2 DEF Active
<1>8. PlaceIsInURI'
  BY <1>6, <1>7 DEF BuriedInv, PlaceIsInURI
<1>9. HalfDeleted'
  <2>1. ASSUME NEW c \in S, archived[c] # Nil, ~agents[c].final
        PROVE  archived[c].uri[1] = Nil
    <3>1. agents[c].uri[1] = Nil
      BY <1>7 DEF BuriedInv, PlaceIsInURI
    <3> QED BY <1>7, <2>1, <3>1 DEF BuriedInv, HalfDeleted
  <2>2. o # Nil
    BY AgentsAssumption
  <2> QED BY <1>6, <1>7, <2>1, <2>2 DEF BuriedInv, HalfDeleted
<1>10. ASSUME NEW u \in URIs, agentByURI'[u] # Nil
       PROVE  LeadsTo(u, agentByURI[u])'
  <2>1. CASE agentByURI'[u] \in S /\ agents'[agentByURI'[u]].uri = u
    BY <1>7, <2>1 DEF LeadsTo
  <2>2. CASE (\A a \in S : agents[a].uri # u) /\ agentByURI'[u] = agentByURI[u]
    <3>1. agentByURI[u] \in Agents /\ LeadsTo(u, agentByURI[u])
      BY <1>2, <1>10, <2>2 DEF BuriedInv, URIsLeadToAgents
    <3>2. CASE agentByURI[u] \in S
      BY <1>6, <1>7, <2>2, <3>1, <3>2 DEF LeadsTo
    <3>3. CASE agentByURI[u] \notin S
      BY <1>6, <2>2, <3>1, <3>3 DEF LeadsTo
    <3> QED BY <3>2, <3>3
  <2> QED BY <1>5, <1>10, <2>1, <2>2
<1>11. ASSUME NEW u \in buried
       PROVE  agentByURI'[u] # Nil /\ \E c \in Agents : BuriedBy(u, c)'
  <2>1. u \in URIs /\ agentByURI[u] # Nil
    BY <1>2 DEF BuriedInv, BuriedAreTaken
  <2>2. \A a \in S : agents[a].uri # u
    BY <1>7, FreedBuried
  <2>3. agentByURI'[u] # Nil
    BY <1>5, <1>7, <2>1, <2>2, NoAgent
  <2>4. PICK c \in Agents : BuriedBy(u, c)
    BY DEF BuriedInv, BuriedAreTaken
  <2>5. BuriedBy(u, c)'
    BY <1>6, <1>7, <2>4 DEF BuriedBy
  <2> QED BY <2>3, <2>5
<1>12. ASSUME NEW c \in Agents, agents'[c] # Nil, agents'[c].status = "active"
       PROVE  agents'[c].uri \notin buried
  <2>1. CASE c \in S
    BY <1>7, <2>1 DEF BuriedInv, BuriedAreTaken
  <2>2. CASE c \notin S
    BY <1>6, <1>12, <2>2, FreedBuried DEF Active
  <2> QED BY <2>1, <2>2
<1> QED BY <1>6, <1>8, <1>9, <1>10, <1>11, <1>12 DEF BuriedNext, URIsLeadToAgents, BuriedAreTaken,
                                                  DeletedNamesStay, Active

LEMMA NextBuried ==
  ASSUME BuriedInv, TypeInv', AgentSteps
  PROVE  BuriedNext
<1>1. CASE UNCHANGED <<agentVars, buried>>
  BY <1>1 DEF agentVars, BuriedInv, BuriedNext, PlaceIsInURI, URIsLeadToAgents, LeadsTo, HalfDeleted,
              BuriedAreTaken, BuriedBy, DeletedNamesStay, Active
<1>2. CASE \E b \in Binds, a \in Agents, n \in Names : Redeemed(b, a, n)
  BY <1>2, RedeemedBuried
<1>3. CASE \E b \in Binds, a \in Agents, n \in Names : Born(b, a, n) /\ Rebuild(agents', archived')
  BY <1>3, BornBuried, RebuiltURIs DEF TypeInv, BuriedNext
<1>4. CASE \E a \in Agents, n \in Names : Finalize(a, n)
  BY <1>4, FinalizeBuried
<1>5. CASE \E a \in Agents : Rotate(a) \/ Revoke(a)
  BY <1>5, RenewedBuried
<1>6. CASE \E S \in SUBSET {a \in Agents : agents[a] # Nil} : Archive(S)
  BY <1>6, ArchiveBuried
<1>7. ASSUME NEW a \in Agents, DeleteCrash(a)
      PROVE  BuriedNext
  <2>1. Rebuild(agents', archived')
    BY <1>7 DEF DeleteCrash
  <2> QED BY <1>7, <2>1, DeleteCrashBuried, RebuiltURIs DEF TypeInv, BuriedNext
<1>8. CASE Restart
  <2>1. Rebuild(agents', archived') /\ agents' = agents /\ archived' = archived /\ buried' = buried
    BY <1>8 DEF Restart, told
  <2>2. /\ PlaceIsInURI' /\ HalfDeleted' /\ DeletedNamesStay'
        /\ \A u \in buried' : \E c \in Agents : BuriedBy(u, c)'
    BY <2>1 DEF BuriedInv, PlaceIsInURI, HalfDeleted, DeletedNamesStay, Active, BuriedAreTaken, BuriedBy
  <2> QED BY <2>1, <2>2, RebuiltURIs DEF TypeInv, BuriedNext
<1>9. CASE \E h \in Humans, o \in Orgs : Join(h, o)
  BY <1>9, JoinBuried
<1> QED BY <1>1, <1>2, <1>3, <1>4, <1>5, <1>6, <1>7, <1>8, <1>9 DEF AgentSteps

(* The URI of an agent that was deleted while it was active is no other's, *)
(* after a restart too, whoever has its owner's handle by then, and when   *)
(* the hub crashed between archiving an agent and deleting it              *)
(* (DeleteAgent, archivedAgents, rebuildStateIndexesLocked).               *)
THEOREM BuriedNamesStay == Spec => []DeletedNamesStay
<1>1. Init => BuriedInv
  <2> SUFFICES ASSUME Init PROVE BuriedInv
    OBVIOUS
  <2>1. /\ PlaceIsInURI /\ URIsLeadToAgents /\ HalfDeleted /\ BuriedAreTaken
        /\ DeletedNamesStay /\ NamesLeadToAgents
    BY DEF Init, PlaceIsInURI, URIsLeadToAgents, HalfDeleted, BuriedAreTaken, DeletedNamesStay,
           NamesLeadToAgents, Active
  <2> QED BY <2>1, InitTypes DEF BuriedInv
<1>2. BuriedInv /\ [Next]_vars => BuriedInv'
  <2> SUFFICES ASSUME BuriedInv, [Next]_vars PROVE BuriedInv'
    OBVIOUS
  <2>1. TypeInv' /\ AgentSteps
    BY NextTypes, NextAgentSteps DEF BuriedInv
  <2>2. NamesLeadToAgents'
    BY <2>1, NextNames DEF BuriedInv
  <2> QED BY <2>1, <2>2, NextBuried DEF BuriedInv, BuriedNext
<1>3. BuriedInv => DeletedNamesStay
  BY DEF BuriedInv
<1> QED BY <1>1, <1>2, <1>3, PTL DEF Spec

-----------------------------------------------------------------------------
(* The limit on a human's agents: every request that redeems one of his    *)
(* bind tokens found him below it, and may add one agent.                  *)
Redeemers(h) == {w \in setup.workers : job[w].pc = "redeem" /\ binds[job[w].bind].owner = h}
Load(h)      == Cardinality(Owned(h)) + Cardinality(Redeemers(h))

LoadsHold == \A h \in Humans \ Unlimited : Load(h) <= Limit - 1 + Cardinality(setup.workers)

LEMMA Finiteness ==
  ASSUME TypeInv, NEW h
  PROVE  /\ IsFiniteSet(Owned(h)) /\ IsFiniteSet(Redeemers(h)) /\ IsFiniteSet(setup.workers)
         /\ Owned(h) \subseteq Agents /\ Redeemers(h) \subseteq setup.workers
         /\ setup.workers \subseteq Workers
<1>1. setup.workers \subseteq Workers
  BY AgentsAssumption DEF TypeInv, Setup
<1>2. IsFiniteSet(setup.workers)
  BY <1>1, AgentsAssumption, FS_Subset
<1>3. IsFiniteSet(Agents)
  BY AgentsAssumption, FS_Interval DEF Agents
<1>4. Owned(h) \subseteq Agents /\ Redeemers(h) \subseteq setup.workers
  BY DEF Owned, Redeemers
<1> QED BY <1>1, <1>2, <1>3, <1>4, FS_Subset

LEMMA Loads ==
  ASSUME NEW S, IsFiniteSet(S), NEW T, IsFiniteSet(T)
  PROVE  /\ \A A \in SUBSET S, B \in SUBSET T :
              Cardinality(A) + Cardinality(B) <= Cardinality(S) + Cardinality(T)
         /\ \A a, w, A, B : A \subseteq S \cup {a} /\ w \in T /\ B \subseteq T \ {w} =>
              Cardinality(A) + Cardinality(B) <= Cardinality(S) + Cardinality(T)
<1>1. Cardinality(S) \in Nat /\ Cardinality(T) \in Nat
  BY FS_CardinalityType
<1>2. ASSUME NEW A \in SUBSET S
      PROVE  Cardinality(A) \in Nat /\ Cardinality(A) <= Cardinality(S)
  BY FS_Subset, FS_CardinalityType
<1>3. ASSUME NEW B \in SUBSET T
      PROVE  Cardinality(B) \in Nat /\ Cardinality(B) <= Cardinality(T)
  BY FS_Subset, FS_CardinalityType
<1>4. ASSUME NEW a, NEW A, A \subseteq S \cup {a}
      PROVE  Cardinality(A) \in Nat /\ Cardinality(A) <= Cardinality(S) + 1
  <2>1. IsFiniteSet(S \cup {a}) /\ Cardinality(S \cup {a}) <= Cardinality(S) + 1
    <3>1. /\ IsFiniteSet(S \cup {a})
          /\ Cardinality(S \cup {a}) = IF a \in S THEN Cardinality(S) ELSE Cardinality(S) + 1
      BY FS_AddElement
    <3> QED BY <1>1, <3>1
  <2>2. Cardinality(S \cup {a}) \in Nat
    BY <2>1, FS_CardinalityType
  <2>3. IsFiniteSet(A) /\ Cardinality(A) <= Cardinality(S \cup {a})
    BY <1>4, <2>1, FS_Subset
  <2>4. Cardinality(A) \in Nat
    BY <2>3, FS_CardinalityType
  <2> QED BY <1>1, <2>1, <2>2, <2>3, <2>4
<1>5. ASSUME NEW w \in T, NEW B, B \subseteq T \ {w}
      PROVE  Cardinality(B) \in Nat /\ Cardinality(B) <= Cardinality(T) - 1
  <2>1. IsFiniteSet(T \ {w}) /\ Cardinality(T \ {w}) = Cardinality(T) - 1
    BY FS_RemoveElement
  <2>2. IsFiniteSet(B) /\ Cardinality(B) <= Cardinality(T \ {w})
    BY <1>5, <2>1, FS_Subset
  <2>3. Cardinality(B) \in Nat
    BY <2>2, FS_CardinalityType
  <2> QED BY <2>1, <2>2, <2>3
<1>6. \A A \in SUBSET S, B \in SUBSET T :
        Cardinality(A) + Cardinality(B) <= Cardinality(S) + Cardinality(T)
  BY <1>1, <1>2, <1>3
<1>7. ASSUME NEW a, NEW w, NEW A, NEW B, A \subseteq S \cup {a}, w \in T, B \subseteq T \ {w}
      PROVE  Cardinality(A) + Cardinality(B) <= Cardinality(S) + Cardinality(T)
  <2>1. Cardinality(A) \in Nat /\ Cardinality(A) <= Cardinality(S) + 1
    BY <1>4, <1>7
  <2>2. Cardinality(B) \in Nat /\ Cardinality(B) <= Cardinality(T) - 1
    BY <1>5, <1>7
  <2> QED BY <1>1, <2>1, <2>2
<1> QED BY <1>6, <1>7

(* Agents that are active were, and had the owner they have. *)
OwnersKept ==
  \A a \in Agents : agents'[a] # Nil /\ agents'[a].status = "active" =>
    Active(a) /\ agents'[a].owner = agents[a].owner

LEMMA NextOwners ==
  ASSUME TypeInv, [Next]_vars
  PROVE  OwnersKept \/ \E w \in Workers : Redeem(w) \/ RedeemCrash(w)
<1>1. ASSUME agents' = agents
      PROVE  OwnersKept
  BY <1>1 DEF OwnersKept, Active
<1>2. ASSUME NEW S \in SUBSET {a \in Agents : agents[a] # Nil}, Archive(S)
      PROVE  OwnersKept
  <2>1. \A a \in Agents : agents'[a] = IF a \in S THEN Nil ELSE agents[a]
    BY <1>2 DEF Archive
  <2> QED BY <2>1 DEF OwnersKept, Active
<1>3. ASSUME NEW a \in Agents, AgentRequest(a)
      PROVE  OwnersKept
  <2>1. ASSUME NEW n \in Names, Finalize(a, n)
        PROVE  OwnersKept
    BY <2>1, FinalizeIs DEF OwnersKept, Active
  <2>2. CASE Rotate(a) \/ Revoke(a)
    BY <2>2, RotateIs, RevokeIs DEF Renewed, OwnersKept, Active
  <2>3. CASE Delete(a)
    BY <1>2, <2>3 DEF Delete
  <2>4. CASE DeleteCrash(a)
    BY <1>1, <2>4 DEF DeleteCrash
  <2> QED BY <1>3, <2>1, <2>2, <2>3, <2>4 DEF AgentRequest
<1>4. ASSUME NEW h \in Humans, HumanRequest(h)
      PROVE  OwnersKept
  <2>1. ASSUME NEW o \in Orgs, Join(h, o)
        PROVE  OwnersKept
    <3>1. PICK S \in SUBSET Agents : Moved(S, h, o)
      BY <2>1, JoinIs
    <3> QED BY <3>1 DEF Moved, OwnersKept, Active
  <2>2. CASE (\E o \in Orgs : Leave(h, o)) \/ (\E hd \in Handles : Rename(h, hd))
    BY <1>1, <2>2 DEF Leave, Rename, agentVars
  <2> QED BY <1>4, <2>1, <2>2 DEF HumanRequest
<1>5. ASSUME NEW w \in Workers, BindRequest(w) \/ RedeemRequest(w), ~Redeem(w), ~RedeemCrash(w)
      PROVE  OwnersKept
  BY <1>1, <1>5 DEF BindRequest, RedeemRequest, AskBind, IssueBind, IssueBindFails, AskRedeem,
     RedeemTaken, RedeemRefused, agentVars
<1>6. ASSUME NEW o \in Orgs, DeleteOrg(o)
      PROVE  OwnersKept
  BY <1>2, <1>6 DEF DeleteOrg
<1>7. CASE (\E b \in Binds : Elapse(b)) \/ Restart \/ UNCHANGED vars
  BY <1>1, <1>7 DEF Elapse, Restart, vars, agentVars
<1> QED BY <1>3, <1>4, <1>5, <1>6, <1>7 DEF Next

LEMMA NextJobs ==
  ASSUME TypeInv, [Next]_vars, NEW w \in Workers
  PROVE  \/ job'[w].pc # "redeem"
         \/ job[w].pc = "redeem" /\ job'[w].bind = job[w].bind
         \/ \E b \in Binds, n \in Names \cup {Nil} : AskRedeem(w, b, n)
<1> DEFINE Stays == \/ job'[w].pc # "redeem"
                    \/ job[w].pc = "redeem" /\ job'[w].bind = job[w].bind
<1>1. job \in [Workers -> Job]
  BY DEF TypeInv, JobsOK
<1>2. CASE job' = job
  BY <1>2
<1>3. ASSUME NEW v \in Workers, Done(v)
      PROVE  Stays
  <2>1. job' = [job EXCEPT ![v] = Idle]
    BY <1>3 DEF Done
  <2> QED BY <1>1, <2>1, IdleType
<1>4. ASSUME NEW v \in Workers, NEW h, NEW s, AskBind(v, h, s)
      PROVE  Stays
  <2>1. job' = [job EXCEPT ![v] = [job[v] EXCEPT !.pc = "create", !.space = s, !.owner = h]]
    BY <1>4 DEF AskBind
  <2>2. [job[v] EXCEPT !.pc = "create", !.space = s, !.owner = h].pc = "create"
    BY <1>1 DEF Job
  <2> QED BY <1>1, <2>1, <2>2
<1>5. ASSUME NEW v \in Workers, IssueBind(v), ~Done(v)
      PROVE  Stays
  <2>1. job[v].pc = "create" /\ job' = [job EXCEPT ![v] = [job[v] EXCEPT !.tries = 1]]
    BY <1>5 DEF IssueBind, At
  <2>2. [job[v] EXCEPT !.tries = 1].pc = job[v].pc
    BY <1>1 DEF Job
  <2> QED BY <1>1, <2>1, <2>2
<1>6. ASSUME NEW v \in Workers, RedeemTaken(v), ~Done(v)
      PROVE  Stays
  <2>1. job[v].pc = "redeem" /\ job' = [job EXCEPT ![v] = [job[v] EXCEPT !.tries = @ + 1]]
    BY <1>6 DEF RedeemTaken, At
  <2>2. [job[v] EXCEPT !.tries = @ + 1].bind = job[v].bind
    BY <1>1 DEF Job
  <2> QED BY <1>1, <2>1, <2>2
<1>7. ASSUME NEW v \in Workers, v # w, NEW b, NEW n, AskRedeem(v, b, n)
      PROVE  Stays
  <2>1. \E j : job' = [job EXCEPT ![v] = j]
    BY <1>7 DEF AskRedeem
  <2> QED BY <1>1, <1>7, <2>1
<1>8. ASSUME NEW live, NEW gone, Rebuild(live, gone)
      PROVE  Stays
  BY <1>8, IdleType DEF Rebuild
<1> HIDE DEF Stays
<1>9. ASSUME NEW v \in Workers, BindRequest(v) \/ RedeemRequest(v),
             ~\E b \in Binds, n \in Names \cup {Nil} : AskRedeem(w, b, n)
      PROVE  Stays
  <2>1. CASE \E b \in Binds, n \in Names \cup {Nil} : AskRedeem(v, b, n)
    BY <1>7, <1>9, <2>1
  <2>2. CASE BindRequest(v)
    BY <1>3, <1>4, <1>5, <2>2 DEF BindRequest, IssueBindFails
  <2>3. CASE Redeem(v) \/ RedeemTaken(v) \/ RedeemRefused(v) \/ RedeemCrash(v)
    BY <1>3, <1>6, <1>8, <2>3 DEF Redeem, RedeemRefused, RedeemCrash
  <2> QED BY <1>9, <2>1, <2>2, <2>3 DEF RedeemRequest
<1>10. CASE \E a \in Agents : AgentRequest(a)
  BY <1>2, <1>8, <1>10 DEF AgentRequest, Finalize, Rotate, Revoke, Delete, DeleteCrash, Stays
<1>11. CASE \E h \in Humans : HumanRequest(h)
  BY <1>2, <1>11 DEF HumanRequest, Join, Leave, Rename, Stays
<1>12. CASE (\E b \in Binds : Elapse(b)) \/ (\E o \in Orgs : DeleteOrg(o)) \/ Restart \/ UNCHANGED vars
  BY <1>2, <1>8, <1>12 DEF Elapse, DeleteOrg, Restart, vars, Stays
<1> QED BY <1>9, <1>10, <1>11, <1>12 DEF Next, Stays

LEMMA SetupStays ==
  ASSUME [Next]_vars
  PROVE  setup' = setup
<1>1. ASSUME NEW w \in Workers, BindRequest(w) \/ RedeemRequest(w)
      PROVE  setup' = setup
  BY <1>1 DEF BindRequest, RedeemRequest, AskBind, IssueBind, IssueBindFails, AskRedeem, Redeem,
     RedeemTaken, RedeemRefused, RedeemCrash
<1>2. CASE \E a \in Agents : AgentRequest(a)
  BY <1>2 DEF AgentRequest, Finalize, Rotate, Revoke, Delete, DeleteCrash
<1>3. CASE \E h \in Humans : HumanRequest(h)
  BY <1>3 DEF HumanRequest, Join, Leave, Rename
<1>4. CASE (\E b \in Binds : Elapse(b)) \/ (\E o \in Orgs : DeleteOrg(o)) \/ Restart \/ UNCHANGED vars
  BY <1>4 DEF Elapse, DeleteOrg, Restart, vars
<1> QED BY <1>1, <1>2, <1>3, <1>4 DEF Next

(* Without a new request to redeem and without an agent made, no load grows. *)
LEMMA LoadsShrink ==
  ASSUME TypeInv, TypeInv', [Next]_vars, NEW h \in Humans
  PROVE  /\ OwnersKept => Owned(h)' \subseteq Owned(h)
         /\ \/ Redeemers(h)' \subseteq Redeemers(h)
            \/ \E w \in Workers, b \in Binds, n \in Names \cup {Nil} :
                 AskRedeem(w, b, n) /\ binds[b].owner = h
<1>1. OwnersKept => Owned(h)' \subseteq Owned(h)
  BY DEF OwnersKept, Owned, Active
<1>2. ASSUME NEW w \in Redeemers(h)', w \notin Redeemers(h)
      PROVE  \E b \in Binds, n \in Names \cup {Nil} : AskRedeem(w, b, n) /\ binds[b].owner = h
  <2>1. /\ w \in setup.workers /\ w \in Workers
        /\ job'[w].pc = "redeem" /\ binds'[job'[w].bind].owner = h
    BY SetupStays, Finiteness DEF Redeemers
  <2>2. CASE job[w].pc = "redeem" /\ job'[w].bind = job[w].bind
    <3>1. job[w].bind \in Binds /\ binds[job[w].bind] # Nil
      BY <2>1, <2>2 DEF TypeInv, JobsOK
    <3>2. binds'[job[w].bind].owner = binds[job[w].bind].owner
      BY <3>1, NextBinds DEF ClosedStays
    <3> QED BY <1>2, <2>1, <2>2, <3>2 DEF Redeemers
  <2>3. ASSUME NEW b \in Binds, NEW n \in Names \cup {Nil}, AskRedeem(w, b, n)
        PROVE  binds[b].owner = h
    <3>1. /\ job' = [job EXCEPT ![w] = [job[w] EXCEPT !.pc = "redeem", !.bind = b, !.name = n]]
          /\ binds' = binds
      BY <2>3 DEF AskRedeem, bindVars
    <3>2. job'[w].bind = b
      BY <2>1, <3>1 DEF TypeInv, JobsOK, Job
    <3> QED BY <2>1, <3>1, <3>2
  <2> QED BY <2>1, <2>2, <2>3, NextJobs
<1>3. ASSUME NEW w \in Redeemers(h)'
      PROVE  w \in Workers
  BY SetupStays, Finiteness DEF Redeemers
<1> QED BY <1>1, <1>2, <1>3

LEMMA RedeemLoads ==
  ASSUME TypeInv, TypeInv', [Next]_vars, NEW w \in Workers, Redeem(w) \/ RedeemCrash(w), NEW h \in Humans
  PROVE  \/ Owned(h)' \subseteq Owned(h) /\ Redeemers(h)' \subseteq Redeemers(h)
         \/ \E a : /\ Owned(h)' \subseteq Owned(h) \cup {a}
                   /\ w \in Redeemers(h) /\ Redeemers(h)' \subseteq Redeemers(h) \ {w}
<1>1. PICK b \in Binds : b = job[w].bind /\ w \in setup.workers /\ job[w].pc = "redeem"
  BY DEF Redeem, RedeemCrash, At, TypeInv, JobsOK
<1>2. job'[w].pc = "idle"
  BY IdleType DEF Redeem, RedeemCrash, Done, Rebuild, TypeInv, JobsOK
<1>3. w \notin Redeemers(h)'
  BY <1>2 DEF Redeemers
<1>4. Redeemers(h)' \subseteq Redeemers(h)
  <2>1. ASSUME NEW v \in Workers, NEW c, NEW n, AskRedeem(v, c, n)
        PROVE  FALSE
    <3>1. agents' = agents
      BY <2>1 DEF AskRedeem, agentVars
    <3>2. PICK a \in Agents, c1 \in Binds, n1 \in Names : Born(c1, a, n1)
      BY RedeemIs, RedeemCrashIs DEF Redeemed
    <3> QED BY <3>1, <3>2, BornIs
  <2> QED BY <2>1, LoadsShrink
<1>5. PICK a \in Agents, n \in Names : agents' = [agents EXCEPT ![a] = NewAgent(b, n)] /\ binds[b] # Nil
  BY <1>1 DEF Redeem, RedeemCrash, At, TypeInv, JobsOK
<1>6. /\ NewAgent(b, n).owner = binds[b].owner
      /\ agents'[a] = NewAgent(b, n) /\ \A c \in Agents \ {a} : agents'[c] = agents[c]
  BY <1>5, NewAgentType DEF TypeInv, AgentsOK
<1>7. Owned(h)' \subseteq Owned(h) \cup {a}
  BY <1>6 DEF Owned, Active
<1>8. CASE binds[b].owner = h
  <2>1. w \in Redeemers(h)
    BY <1>1, <1>8 DEF Redeemers
  <2> QED BY <1>3, <1>4, <1>7, <2>1
<1>9. CASE binds[b].owner # h
  <2>1. a \notin Owned(h)'
    BY <1>6, <1>9 DEF Owned
  <2> QED BY <1>4, <1>7, <2>1
<1> QED BY <1>8, <1>9

LEMMA NextLoads ==
  ASSUME TypeInv, TypeInv', LoadsHold, [Next]_vars
  PROVE  LoadsHold'
<1> SUFFICES ASSUME NEW h \in Humans \ Unlimited
             PROVE  Load(h)' <= Limit - 1 + Cardinality(setup.workers)
  BY SetupStays DEF LoadsHold
<1> DEFINE N == Cardinality(setup.workers)
           O == Owned(h)
           R == Redeemers(h)
           O1 == Owned(h)'
           R1 == Redeemers(h)'
<1>1. IsFiniteSet(O) /\ IsFiniteSet(R) /\ IsFiniteSet(setup.workers)
  BY Finiteness
<1>2. IsFiniteSet(O1) /\ R1 \subseteq setup.workers /\ IsFiniteSet(R1)
  <2>1. O1 \subseteq Agents
    BY DEF Owned
  <2>2. IsFiniteSet(Agents)
    BY AgentsAssumption, FS_Interval DEF Agents
  <2>3. R1 \subseteq setup.workers
    BY SetupStays DEF Redeemers
  <2> HIDE DEF O1, R1
  <2> QED BY <1>1, <2>1, <2>2, <2>3, FS_Subset
<1>3. Cardinality(O) + Cardinality(R) <= Limit - 1 + N
  BY DEF LoadsHold, Load
<1>4. /\ N \in Nat /\ Cardinality(O) \in Nat /\ Cardinality(R) \in Nat
      /\ Cardinality(O1) \in Nat /\ Cardinality(R1) \in Nat
  BY <1>1, <1>2, FS_CardinalityType
<1>5. Load(h)' = Cardinality(O1) + Cardinality(R1)
  BY DEF Load
<1> HIDE DEF N, O, R, O1, R1
<1>6. SUFFICES Cardinality(O1) + Cardinality(R1) <= Limit - 1 + N
  BY <1>5 DEF N
<1>7. CASE O1 \subseteq O /\ R1 \subseteq R
  <2>1. Cardinality(O1) + Cardinality(R1) <= Cardinality(O) + Cardinality(R)
    BY <1>1, <1>7, Loads
  <2> QED BY <1>3, <1>4, <2>1 DEF Limit
<1>8. ASSUME NEW a, NEW w \in R, O1 \subseteq O \cup {a}, R1 \subseteq R \ {w}
      PROVE  Cardinality(O1) + Cardinality(R1) <= Limit - 1 + N
  <2>1. Cardinality(O1) + Cardinality(R1) <= Cardinality(O) + Cardinality(R)
    BY <1>1, <1>8, Loads
  <2> QED BY <1>3, <1>4, <2>1 DEF Limit
<1>9. ASSUME NEW w \in Workers, NEW b \in Binds, NEW n \in Names \cup {Nil},
             AskRedeem(w, b, n), binds[b].owner = h
      PROVE  Cardinality(O1) + Cardinality(R1) <= Limit - 1 + N
  <2>1. h \notin Unlimited \cup {Nil}
    BY AgentsAssumption
  <2>2. ~(Cardinality(O) >= Limit)
    BY <1>9, <2>1 DEF AskRedeem, OverLimit, O
  <2>3. O1 = O
    BY <1>9 DEF AskRedeem, agentVars, Owned, Active, O, O1
  <2>4. Cardinality(R1) <= N
    BY <1>1, <1>2, FS_Subset DEF N
  <2> QED BY <1>4, <2>2, <2>3, <2>4 DEF Limit
<1>10. CASE \E w \in Workers : Redeem(w) \/ RedeemCrash(w)
  BY <1>7, <1>8, <1>10, RedeemLoads DEF O, R, O1, R1
<1>11. CASE OwnersKept
  BY <1>7, <1>9, <1>11, LoadsShrink DEF O, R, O1, R1
<1> QED BY <1>10, <1>11, NextOwners

(* A human owns one agent more than the count allows for every further     *)
(* request served at the same time, and no more, whatever else is done to  *)
(* agents, and when the hub crashes while a bind token is redeemed         *)
(* (ensureHumanOwnedAgentLimit, handleRedeemBindToken).                    *)
THEOREM LimitIsBounded == Spec => []LimitHolds
<1>1. Init => LoadsHold
  <2> SUFFICES ASSUME Init, NEW h \in Humans PROVE Load(h) <= Limit - 1 + Cardinality(setup.workers)
    BY DEF LoadsHold
  <2>1. Owned(h) = {} /\ Redeemers(h) = {}
    <3>1. \A w \in Workers : job[w].pc = "idle"
      BY IdleType DEF Init
    <3>2. \A a \in Agents : agents[a] = Nil
      BY DEF Init
    <3> QED BY <3>1, <3>2, InitTypes, Finiteness DEF Owned, Active, Redeemers
  <2>2. Cardinality({}) = 0
    BY FS_EmptySet
  <2>3. Cardinality(setup.workers) \in Nat
    BY InitTypes, Finiteness, FS_CardinalityType
  <2> QED BY <2>1, <2>2, <2>3 DEF Load, Limit
<1>2. TypeInv /\ LoadsHold => LimitHolds
  <2> SUFFICES ASSUME TypeInv, LoadsHold, NEW h \in Humans \ Unlimited
               PROVE  Cardinality(Owned(h)) <= Limit - 1 + Cardinality(setup.workers)
    BY DEF LimitHolds
  <2>1. /\ Cardinality(Owned(h)) \in Nat /\ Cardinality(Redeemers(h)) \in Nat
        /\ Cardinality(setup.workers) \in Nat
    BY Finiteness, FS_CardinalityType
  <2>2. Cardinality(Owned(h)) + Cardinality(Redeemers(h)) <= Limit - 1 + Cardinality(setup.workers)
    BY DEF LoadsHold, Load
  <2> QED BY <2>1, <2>2 DEF Limit
<1> QED BY <1>1, <1>2, InitTypes, NextTypes, NextLoads, PTL DEF Spec

=============================================================================
