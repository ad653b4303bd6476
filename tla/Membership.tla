----------------------------- MODULE Membership -----------------------------
(***************************************************************************)
(* Humans, organizations, memberships, invites and organization access     *)
(* keys: the control-plane calls of store/memory.go behind the handlers of *)
(* handlers_v1.go, and what rebuildStateIndexesLocked (store/s3_state.go)  *)
(* makes of them when the hub restarts.  A record has an id, and the store *)
(* finds it through an index that is a table of its own; records and       *)
(* indexes are both here.                                                  *)
(*                                                                         *)
(* A request signs its human in with an address (SignIn) and then makes    *)
(* one store call, atomic under MemoryStore.mu.  Other requests may come   *)
(* between, so a call is made with any address of the human, be it the one *)
(* now on record or not.  Agents, bind tokens and trust, which go with an  *)
(* organization too, are in TrustGraph; audit and metadata are left out.   *)
(***************************************************************************)
EXTENDS Integers, FiniteSets, Functions

CONSTANTS
  Humans, Orgs,    \* a human is an identity of the provider, orgs are ids
  OrgHandles,
  HumanHandles,
  Emails,
  SuperEmails,     \* addresses that make a super administrator
  Scopes,          \* what an access key may be used for
  Nil,             \* no record, no email
  MaxMemberships, MaxInvites, MaxKeys,  \* bounds: records made
  Setups           \* the hubs to look at

MembershipIds == 1..MaxMemberships
InviteIds     == 1..MaxInvites
KeyIds        == 1..MaxKeys
Pairs         == Orgs \X Humans

Rank == [none |-> 0, viewer |-> 1, member |-> 2, admin |-> 3, owner |-> 4]
Role == DOMAIN Rank \ {"none"}

(* A hub: those who may sign in, the handle made from the subject of each  *)
(* and the addresses his provider may present; and bounds: the operations  *)
(* called, those who had chosen a handle at the start, whether the hub     *)
(* restarts, the organizations and their names, the records made, the      *)
(* memberships of a human in an organization, the roles invited for.       *)
Setup == [base : [Humans -> HumanHandles], emails : [Humans -> SUBSET Emails],
          served : SUBSET {"DeleteOrg", "Keys", "Invite", "RevokeMembership", "ChooseHandle"},
          onboarded : SUBSET Humans, restarts : BOOLEAN, orgs : SUBSET Orgs,
          names : SUBSET OrgHandles, memberships : 0..MaxMemberships,
          invites : 0..MaxInvites, stays : Nat, invitable : SUBSET Role]

ASSUME SetupsAssumption ==
  /\ Setups \subseteq Setup
  /\ \A s \in Setups, g, h \in Humans :
       {g, h} \subseteq s.onboarded /\ s.base[g] = s.base[h] => g = h
  /\ \A s \in Setups : \A h \in s.onboarded : s.emails[h] # {}
ASSUME NilAssumption ==
  Nil \notin Humans \cup Orgs \cup OrgHandles \cup HumanHandles \cup Emails \cup Int
ASSUME BoundsAssumption == MaxMemberships \in Nat /\ MaxInvites \in Nat /\ MaxKeys \in Nat

VARIABLES
  setup,         \* the hub looked at; it does not change
  humans,        \* human -> model.Human
  humanByHandle,
  orgs,          \* organization -> model.Organization, live or archived
  orgByHandle,
  memberships,   \* id -> model.Membership
  membershipOf,  \* membershipByOrgUser
  invites,       \* id -> model.Invite
  inviteSecrets, \* ids inviteBySecretHash leads to
  keys,          \* id -> model.OrgAccessKey
  keySecrets,    \* ids orgAccessKeyByHash leads to
  lapsed,        \* invites and keys whose expiry has passed
  removed,       \* history: pairs revoked and not invited in since
  spent          \* history: keys revoked, or deleted with their organization

humanVars  == <<humans, humanByHandle>>
orgVars    == <<orgs, orgByHandle>>
memberVars == <<memberships, membershipOf, removed>>
inviteVars == <<invites, inviteSecrets, lapsed>>
keyVars    == <<keys, keySecrets, spent>>
vars == <<setup, humanVars, orgVars, memberVars, inviteVars, keyVars>>

Human      == [status : {"none", "new", "confirmed"},
               email : Emails \cup {Nil}, handle : HumanHandles \cup {Nil}]
NoHuman    == [status |-> "none", email |-> Nil, handle |-> Nil]
Org        == [status : {"none", "live", "archived"}, handle : OrgHandles \cup {Nil}]
NoOrg      == [status |-> "none", handle |-> Nil]
Membership == [org : Orgs, human : Humans, role : Role, status : {"active", "revoked"}]
Invite     == [org : Orgs, email : Emails, role : Role \ {"owner"},
               status : {"pending", "active", "expired", "revoked"}]
Key        == [org : Orgs, scopes : (SUBSET Scopes) \ {{}}, status : {"active", "revoked"},
               expires : BOOLEAN, used : BOOLEAN]

ASSUME RecordsAssumption == Nil \notin Membership \cup Invite \cup Key

Init ==
  /\ setup \in Setups
  /\ humans = [h \in Humans |->
       IF h \notin setup.onboarded THEN NoHuman
       ELSE [status |-> "confirmed", email |-> CHOOSE e \in setup.emails[h] : TRUE,
             handle |-> setup.base[h]]]
  /\ humanByHandle = [hd \in HumanHandles |->
       IF \E h \in setup.onboarded : setup.base[h] = hd
       THEN CHOOSE h \in setup.onboarded : setup.base[h] = hd ELSE Nil]
  /\ orgs = [o \in Orgs |-> NoOrg]
  /\ orgByHandle = [hd \in OrgHandles |-> Nil]
  /\ memberships = [m \in MembershipIds |-> Nil]
  /\ membershipOf = [p \in Pairs |-> Nil]
  /\ invites = [i \in InviteIds |-> Nil] /\ inviteSecrets = {} /\ lapsed = [invite |-> {}, key |-> {}]
  /\ keys = [k \in KeyIds |-> Nil] /\ keySecrets = {}
  /\ removed = {} /\ spent = {}

-----------------------------------------------------------------------------
Live(o)      == orgs[o].status = "live"
Confirmed(h) == humans[h].status = "confirmed"   \* requireHandleConfirmedForWrite
Super(e)     == e \in SuperEmails

(* The record an index entry leads to, where there is one.                 *)
Active(m) == m # Nil /\ memberships[m] # Nil /\ memberships[m].status = "active"

(* membershipRoleLocked.                                                   *)
RoleIn(o, h) == IF Active(membershipOf[<<o, h>>])
                THEN memberships[membershipOf[<<o, h>>]].role ELSE "none"

AtLeast(r, s)  == Rank[r] >= Rank[s]
AdminOf(h, e, o) == Super(e) \/ AtLeast(RoleIn(o, h), "admin")

Of(table, o) == {i \in DOMAIN table : table[i] # Nil /\ table[i].org = o}

(* Ids are random: the next of an ordered table, never one used before.    *)
Fresh(table, old, i) ==
  /\ i \in DOMAIN table \ old /\ table[i] = Nil
  /\ \A j \in DOMAIN table : j < i => table[j] # Nil \/ j \in old

(* deriveInviteStatus.                                                     *)
Status(i) == IF invites[i].status = "pending" /\ i \in lapsed.invite
             THEN "expired" ELSE invites[i].status

-----------------------------------------------------------------------------
(* Humans.                                                                 *)

(* claimUniqueHumanHandleLocked: his own, or one made from it that is free.*)
Claimable(h, hd) ==
  /\ humanByHandle[hd] = Nil
  /\ humanByHandle[setup.base[h]] = Nil => hd = setup.base[h]

SignIn(h, e) ==
  /\ e \in setup.emails[h]
  /\ \/ /\ humans[h] = NoHuman
        /\ \E hd \in HumanHandles :
             /\ Claimable(h, hd)
             /\ humans' = [humans EXCEPT ![h] = [status |-> "new", email |-> e, handle |-> hd]]
             /\ humanByHandle' = [humanByHandle EXCEPT ![hd] = h]
     \/ /\ humans[h] # NoHuman
        /\ humans' = [humans EXCEPT ![h].email = e]
        /\ UNCHANGED humanByHandle
  /\ UNCHANGED <<setup, orgVars, memberVars, inviteVars, keyVars>>

ChooseHandle(h, hd) ==
  /\ humans[h] # NoHuman /\ humanByHandle[hd] \in {h, Nil}
  /\ humans' = [humans EXCEPT ![h] = [@ EXCEPT !.status = "confirmed", !.handle = hd]]
  /\ humanByHandle' = [humanByHandle EXCEPT ![humans[h].handle] = Nil, ![hd] = h]
  /\ UNCHANGED <<setup, orgVars, memberVars, inviteVars, keyVars>>

-----------------------------------------------------------------------------
(* Organizations.                                                          *)
Enrol(m, o, h, r) ==
  /\ m <= setup.memberships /\ Fresh(memberships, {}, m)
  /\ memberships' = [memberships EXCEPT ![m] =
                       [org |-> o, human |-> h, role |-> r, status |-> "active"]]
  /\ membershipOf' = [membershipOf EXCEPT ![<<o, h>>] = m]
  /\ removed' = removed \ {<<o, h>>}

CreateOrg(h, o, hd) ==
  /\ Confirmed(h)
  /\ o \in setup.orgs /\ hd \in setup.names   \* bounds
  /\ orgs[o] = NoOrg /\ orgByHandle[hd] = Nil
  /\ orgs' = [orgs EXCEPT ![o] = [status |-> "live", handle |-> hd]]
  /\ orgByHandle' = [orgByHandle EXCEPT ![hd] = o]
  /\ \E m \in MembershipIds : Enrol(m, o, h, "owner")
  /\ UNCHANGED <<setup, humanVars, inviteVars, keyVars>>

Without(table, ids) == [i \in DOMAIN table |-> IF i \in ids THEN Nil ELSE table[i]]

DropInvites(o) ==
  LET gone == Of(invites, o) IN
  /\ invites' = Without(invites, gone)
  /\ inviteSecrets' = inviteSecrets \ gone
  /\ lapsed' = [lapsed EXCEPT !.invite = @ \ gone, !.key = @ \ Of(keys, o)]

DropKeys(o) ==
  /\ keySecrets' = keySecrets \ Of(keys, o)
  /\ keys' = Without(keys, Of(keys, o))
  /\ spent' = spent \cup Of(keys, o)

DeleteOrg(h, e, o) ==
  LET went == Of(memberships, o) IN
  /\ Confirmed(h)
  /\ Live(o)
  /\ Super(e) \/ RoleIn(o, h) = "owner"
  /\ DropInvites(o)
  /\ memberships' = Without(memberships, went)
  /\ membershipOf' = [p \in Pairs |->
       IF \E m \in went : p = <<o, memberships[m].human>> THEN Nil ELSE membershipOf[p]]
  /\ DropKeys(o)
  /\ orgs' = [orgs EXCEPT ![o].status = "archived"]
  /\ removed' = {p \in removed : p[1] # o}
  /\ UNCHANGED <<setup, humanVars, orgByHandle>>

-----------------------------------------------------------------------------
(* Invites.                                                                *)
MemberWith(o, e) ==
  \E m \in Of(memberships, o) :
    memberships[m].status = "active" /\ humans[memberships[m].human].email = e

Invited(o, e) ==
  \E i \in Of(invites, o) : invites[i].email = e /\ Status(i) = "pending"

CreateInvite(h, e, o, email, r) ==
  /\ Confirmed(h)
  /\ Live(o) /\ AdminOf(h, e, o)
  /\ r # "owner"
  /\ ~Invited(o, email) /\ ~MemberWith(o, email)
  /\ \E i \in InviteIds :
       /\ i <= setup.invites /\ Fresh(invites, {}, i)
       /\ invites' = [invites EXCEPT ![i] =
                        [org |-> o, email |-> email, role |-> r, status |-> "pending"]]
       /\ inviteSecrets' = inviteSecrets \cup {i}
  /\ UNCHANGED <<setup, humanVars, orgVars, memberVars, keyVars, lapsed>>

Finish(i, st) ==
  /\ invites' = [invites EXCEPT ![i].status = st]
  /\ inviteSecrets' = inviteSecrets \ {i}
  /\ UNCHANGED <<setup, humanVars, orgVars, keyVars, lapsed>>

ExpireInvite(i) ==
  /\ invites[i].status = "pending" /\ i \in lapsed.invite
  /\ Finish(i, "expired")
  /\ UNCHANGED memberVars

(* bound *)
MayStayAgain(o, h) ==
  Cardinality({m \in Of(memberships, o) : memberships[m].human = h}) < setup.stays

(* acceptInviteLocked.  An active member keeps the role he has.            *)
AcceptInvite_Replaces(i, h, e) ==   \* mutant: the invite's role replaces it
  LET inv == invites[i] IN
  /\ Status(i) = "pending" /\ inv.email = e
  /\ humans[h] # NoHuman
  /\ MayStayAgain(inv.org, h)
  /\ \E m \in MembershipIds : Enrol(m, inv.org, h, inv.role)
  /\ Finish(i, "active")

AcceptInvite_Late(i, h, e) ==   \* mutant: the expiry is not looked at
  LET inv == invites[i] IN
  /\ inv.status = "pending" /\ inv.email = e
  /\ humans[h] # NoHuman
  /\ IF RoleIn(inv.org, h) # "none" THEN UNCHANGED memberVars
     ELSE /\ MayStayAgain(inv.org, h)
          /\ \E m \in MembershipIds : Enrol(m, inv.org, h, inv.role)
  /\ Finish(i, "active")

AcceptInvite(i, h, e) ==
  LET inv == invites[i] IN
  /\ Status(i) = "pending" /\ inv.email = e
  /\ humans[h] # NoHuman
  /\ IF RoleIn(inv.org, h) # "none" THEN UNCHANGED memberVars
     ELSE /\ MayStayAgain(inv.org, h)
          /\ \E m \in MembershipIds : Enrol(m, inv.org, h, inv.role)
  /\ Finish(i, "active")

(* By the one invited or by an administrator; of an invite accepted or     *)
(* expired too, which changes no more than what it says of itself.         *)
RevokeInvite(i, h, e) ==
  /\ invites[i].email = e \/ AdminOf(h, e, invites[i].org)
  /\ invites[i].status # "revoked"
  /\ Finish(i, "revoked")
  /\ UNCHANGED memberVars

RevokeMembership_NotIndexed(h, e, o, t) ==   \* mutant: the index entry goes too
  /\ Confirmed(h) /\ Live(o)
  /\ RoleIn(o, t) \notin {"none", "owner"}
  /\ membershipOf' = [membershipOf EXCEPT ![<<o, t>>] = Nil]
  /\ removed' = removed \cup {<<o, t>>}
  /\ UNCHANGED <<setup, humanVars, orgVars, inviteVars, keyVars, memberships>>

(* The record stays, and stays the one the index leads to.                 *)
RevokeMembership(h, e, o, t) ==
  LET m == membershipOf[<<o, t>>] IN
  /\ Confirmed(h)
  /\ Live(o) /\ Active(m)
  /\ memberships[m].role # "owner"
  /\ AdminOf(h, e, o)
  /\ Super(e) \/ RoleIn(o, h) = "owner" \/ memberships[m].role # "admin"
  /\ memberships' = [memberships EXCEPT ![m].status = "revoked"]
  /\ removed' = removed \cup {<<o, t>>}
  /\ UNCHANGED <<setup, humanVars, orgVars, inviteVars, keyVars, membershipOf>>

-----------------------------------------------------------------------------
(* Access keys.                                                            *)
CreateOrgAccessKey(h, e, o, scopes, expires) ==
  /\ Confirmed(h)
  /\ Live(o) /\ AdminOf(h, e, o)
  /\ scopes # {}
  /\ \E k \in KeyIds :
       /\ Fresh(keys, spent, k)
       /\ keys' = [keys EXCEPT ![k] = [org |-> o, scopes |-> scopes, status |-> "active",
                                       expires |-> expires, used |-> FALSE]]
       /\ keySecrets' = keySecrets \cup {k}
  /\ UNCHANGED <<setup, humanVars, orgVars, memberVars, inviteVars, spent>>

RevokeOrgAccessKey_Index(h, e, o, k) ==   \* mutant: the record stays active
  /\ Confirmed(h)
  /\ Live(o) /\ AdminOf(h, e, o)
  /\ keys[k] # Nil /\ keys[k].org = o /\ keys[k].status # "revoked"
  /\ keySecrets' = keySecrets \ {k}
  /\ spent' = spent \cup {k}
  /\ UNCHANGED <<setup, humanVars, orgVars, memberVars, inviteVars, keys>>

RevokeOrgAccessKey(h, e, o, k) ==
  /\ Confirmed(h)
  /\ Live(o) /\ AdminOf(h, e, o)
  /\ keys[k] # Nil /\ keys[k].org = o /\ keys[k].status # "revoked"
  /\ keySecrets' = keySecrets \ {k}
  /\ keys' = [keys EXCEPT ![k].status = "revoked"]
  /\ spent' = spent \cup {k}
  /\ UNCHANGED <<setup, humanVars, orgVars, memberVars, inviteVars>>

(* AuthorizeOrgAccessByName: the secret of k opens the organization of     *)
(* that name for the scope.                                                *)
Opens(hd, k, scope) ==
  LET o == orgByHandle[hd] IN
  /\ o # Nil /\ Live(o)
  /\ k \in keySecrets /\ keys[k] # Nil /\ keys[k].org = o
  /\ keys[k].status = "active" /\ k \notin lapsed.key
  /\ scope \in keys[k].scopes

UseKey(hd, k, scope) ==
  /\ Opens(hd, k, scope)
  /\ keys' = [keys EXCEPT ![k].used = TRUE]
  /\ UNCHANGED <<setup, humanVars, orgVars, memberVars, inviteVars, keySecrets, spent>>

-----------------------------------------------------------------------------
(* The time an invite or a key was given has passed.                       *)
Elapse ==
  /\ \/ \E i \in InviteIds \ lapsed.invite :
          /\ invites[i] # Nil /\ invites[i].status = "pending"
          /\ lapsed' = [lapsed EXCEPT !.invite = @ \cup {i}]
     \/ \E k \in KeyIds \ lapsed.key :
          /\ keys[k] # Nil /\ keys[k].status = "active" /\ keys[k].expires
          /\ lapsed' = [lapsed EXCEPT !.key = @ \cup {k}]
  /\ UNCHANGED <<setup, humanVars, orgVars, memberVars, keyVars, invites, inviteSecrets>>

(* rebuildStateIndexesLocked: the indexes are made anew from the records.  *)
(* Of several memberships of a human in an organization the index leads to *)
(* the one that Go's map iteration reaches last, which may be any.         *)
PairOf(m) == <<memberships[m].org, memberships[m].human>>

OneOfEach(S) ==
  /\ \A m \in MembershipIds : memberships[m] # Nil => \E n \in S : PairOf(n) = PairOf(m)
  /\ \A m, n \in S : PairOf(m) = PairOf(n) => m = n

RebuiltMemberships(S) ==
  membershipOf' = [p \in Pairs |-> IF \E m \in S : PairOf(m) = p
                                   THEN CHOOSE m \in S : PairOf(m) = p ELSE Nil]

RebuiltOrgs_LiveOnly ==   \* mutant: archived organizations are not indexed
  orgByHandle' = [hd \in OrgHandles |->
    IF \E o \in Orgs : Live(o) /\ orgs[o].handle = hd
    THEN CHOOSE o \in Orgs : Live(o) /\ orgs[o].handle = hd ELSE Nil]

RebuiltOrgs ==
  orgByHandle' = [hd \in OrgHandles |->
    IF \E o \in Orgs : orgs[o].handle = hd
    THEN CHOOSE o \in Orgs : orgs[o].handle = hd ELSE Nil]

RebuiltHumans ==
  humanByHandle' = [hd \in HumanHandles |->
    IF \E h \in Humans : humans[h].handle = hd
    THEN CHOOSE h \in Humans : humans[h].handle = hd ELSE Nil]

Restart ==
  /\ setup.restarts
  /\ \E S \in SUBSET {m \in MembershipIds : memberships[m] # Nil} :
       OneOfEach(S) /\ RebuiltMemberships(S)
  /\ RebuiltOrgs /\ RebuiltHumans
  /\ inviteSecrets' = {i \in InviteIds : invites[i] # Nil /\ invites[i].status = "pending"}
  /\ keySecrets' = {k \in KeyIds : keys[k] # Nil /\ keys[k].status # "revoked"}
  /\ UNCHANGED <<setup, humans, orgs, memberships, removed, invites, lapsed, keys, spent>>

-----------------------------------------------------------------------------
(* The handlers, one of which runs for each request of a human h who       *)
(* presented the address e.                                                *)
Serves(op) == op \in setup.served

MeRequest(h) ==
  Serves("ChooseHandle") /\ \E hd \in HumanHandles : ChooseHandle(h, hd)

OrgRequest(h, e, o) ==
  \/ \E hd \in OrgHandles : CreateOrg(h, o, hd)
  \/ Serves("DeleteOrg") /\ DeleteOrg(h, e, o)

(* The invites of an organization, made by its administrators.             *)
OrgInviteRequest(h, e, o) ==
  /\ Serves("Invite")
  /\ \E email \in UNION Range(setup.emails), r \in setup.invitable : CreateInvite(h, e, o, email, r)

(* Redeeming by id, accepting, and denying or revoking one.                *)
InviteRequest(h, e, i) ==
  /\ Confirmed(h) /\ invites[i] # Nil
  /\ ExpireInvite(i) \/ AcceptInvite(i, h, e) \/ RevokeInvite(i, h, e)

(* Redeeming by its code.                                                  *)
RedeemCode(h, e, i) ==
  /\ Confirmed(h) /\ i \in inviteSecrets /\ invites[i] # Nil
  /\ ExpireInvite(i) \/ AcceptInvite(i, h, e)

OrgHumanRequest(h, e, o) ==
  Serves("RevokeMembership") /\ \E t \in Humans : RevokeMembership(h, e, o, t)

OrgKeyRequest(h, e, o) ==
  /\ Serves("Keys")
  /\ \/ \E scopes \in SUBSET Scopes, expires \in BOOLEAN :
          CreateOrgAccessKey(h, e, o, scopes, expires)
     \/ \E k \in KeyIds : RevokeOrgAccessKey(h, e, o, k)

AccessRequest == \E hd \in OrgHandles, k \in KeyIds, scope \in Scopes : UseKey(hd, k, scope)

Next ==
  \/ \E h \in Humans :
       \/ \E e \in setup.emails[h] :
            \/ SignIn(h, e)
            \/ \E o \in Orgs : \/ OrgRequest(h, e, o) \/ OrgInviteRequest(h, e, o)
                               \/ OrgHumanRequest(h, e, o) \/ OrgKeyRequest(h, e, o)
            \/ \E i \in InviteIds : InviteRequest(h, e, i) \/ RedeemCode(h, e, i)
       \/ MeRequest(h)
  \/ AccessRequest
  \/ Elapse
  \/ Restart

Spec == Init /\ [][Next]_vars

-----------------------------------------------------------------------------
TypeOK ==
  /\ humans \in [Humans -> Human] /\ humanByHandle \in [HumanHandles -> Humans \cup {Nil}]
  /\ orgs \in [Orgs -> Org] /\ orgByHandle \in [OrgHandles -> Orgs \cup {Nil}]
  /\ memberships \in [MembershipIds -> Membership \cup {Nil}]
  /\ membershipOf \in [Pairs -> MembershipIds \cup {Nil}] /\ removed \subseteq Pairs
  /\ invites \in [InviteIds -> Invite \cup {Nil}] /\ inviteSecrets \subseteq InviteIds
  /\ lapsed \in [invite : SUBSET InviteIds, key : SUBSET KeyIds]
  /\ keys \in [KeyIds -> Key \cup {Nil}] /\ keySecrets \subseteq KeyIds
  /\ spent \subseteq KeyIds

(* Whoever is listed as a member has the role of that membership: the      *)
(* index leads to it.  After a restart as before it (membershipByOrgUser,  *)
(* in acceptInviteLocked, RevokeMembership, rebuildStateIndexesLocked).    *)
MembersHaveTheirRole ==
  \A m \in MembershipIds : Active(m) => membershipOf[PairOf(m)] = m

(* Who was revoked has no role until an invite lets him in again           *)
(* (RevokeMembership, and what a restart makes of it).                     *)
RevokedStayOut == \A p \in removed : RoleIn(p[1], p[2]) = "none"

(* The roles the store's records and indexes amount to are those of a      *)
(* directory: an organization has the owner who created it as long as it   *)
(* lives, and a member keeps the role he came in with until he is revoked, *)
(* whatever invites he accepts (CreateOrg, acceptInviteLocked,             *)
(* RevokeMembership, DeleteOrg).                                           *)
Directory == INSTANCE OrgDirectory WITH
  status <- [o \in Orgs |-> orgs[o].status],
  role   <- [p \in Pairs |-> RoleIn(p[1], p[2])]

IsADirectory == Directory!Spec

(* Nobody joins an organization but by an invite made for it, for an       *)
(* address of his and for that role, which is neither expired nor revoked  *)
(* nor accepted before, and which is used up by it (acceptInviteLocked,    *)
(* RevokeInvite).                                                          *)
Lets(i, o, h) ==
  /\ invites[i] # Nil /\ invites[i].org = o /\ invites[i].email \in setup.emails[h]
  /\ Status(i) = "pending" /\ invites'[i].status = "active"
  /\ invites[i].role = RoleIn(o, h)'

JoinsNeedAnInvite ==
  [][\A o \in Orgs, h \in Humans :
       (Live(o) /\ RoleIn(o, h) = "none" /\ RoleIn(o, h)' # "none")
         => \E i \in InviteIds : Lets(i, o, h)]_vars

(* An address has at most one invite to an organization that can still be  *)
(* accepted (CreateInvite; openapi.md, POST /v1/orgs/{org_id}/invites).    *)
OneOpenInvite ==
  \A i, j \in InviteIds :
    ( /\ invites[i] # Nil /\ invites[j] # Nil
      /\ invites[i].org = invites[j].org /\ invites[i].email = invites[j].email
      /\ Status(i) = "pending" /\ Status(j) = "pending" ) => i = j

(* An invite is found by its code exactly as long as it is pending, and    *)
(* so after a restart (inviteBySecretHash).                                *)
CodesOfPendingInvites ==
  inviteSecrets = {i \in InviteIds : invites[i] # Nil /\ invites[i].status = "pending"}

(* Of an organization that is gone no invite, membership or key is left,   *)
(* and no index entry leads to one (DeleteOrg).                            *)
NothingOfGoneOrgs ==
  \A o \in Orgs : ~Live(o) =>
    /\ Of(invites, o) \cup Of(memberships, o) \cup Of(keys, o) = {}
    /\ \A h \in Humans : membershipOf[<<o, h>>] = Nil

(* The name of an organization leads to it for ever: neither its deletion  *)
(* nor a restart lets another have it, so an access key made for one never *)
(* opens another (orgByHandle, archivedOrgs).                              *)
NamesAreForEver ==
  \A o \in Orgs : orgs[o] # NoOrg => orgByHandle[orgs[o].handle] = o

(* A handle is one human's, and leads to him, while he has it; no handle   *)
(* leads to a human who has another (claimUniqueHumanHandleLocked,         *)
(* UpdateHumanProfile).                                                    *)
HandlesAreTheirs ==
  \A hd \in HumanHandles, h \in Humans : humanByHandle[hd] = h <=> humans[h].handle = hd

(* A key that was revoked, or whose organization was deleted, opens        *)
(* nothing, also after a restart (RevokeOrgAccessKey, DeleteOrg).          *)
SpentKeysOpenNothing ==
  \A k \in spent, hd \in OrgHandles, scope \in Scopes : ~Opens(hd, k, scope)
=============================================================================
