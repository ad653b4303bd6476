--------------------------- MODULE MembershipProofs ---------------------------
(***************************************************************************)
(* Humans, organizations, memberships, invites and access keys, for any    *)
(* number of each: the records and the indexes keep their types and lead   *)
(* to each other, names and spent keys stay so for ever, and the store     *)
(* implements OrgDirectory.                                                *)
(***************************************************************************)
EXTENDS Membership, FiniteSetTheorems, TLAPS

(* The types, table by table. *)
HumanOK == /\ humans \in [Humans -> Human]
           /\ humanByHandle \in [HumanHandles -> Humans \cup {Nil}]
OrgOK == /\ orgs \in [Orgs -> Org] /\ orgByHandle \in [OrgHandles -> Orgs \cup {Nil}]
         /\ \A o \in Orgs : orgs[o] # NoOrg =>
              orgs[o].status \in {"live", "archived"} /\ orgs[o].handle \in OrgHandles
MemberOK == /\ memberships \in [MembershipIds -> Membership \cup {Nil}]
            /\ membershipOf \in [Pairs -> MembershipIds \cup {Nil}] /\ removed \subseteq Pairs
InviteOK == /\ invites \in [InviteIds -> Invite \cup {Nil}] /\ inviteSecrets \subseteq InviteIds
            /\ lapsed \in [invite : SUBSET InviteIds, key : SUBSET KeyIds]
KeyOK == /\ keys \in [KeyIds -> Key \cup {Nil}] /\ keySecrets \subseteq KeyIds
         /\ spent \subseteq KeyIds

SetupOK == /\ setup \in Setups /\ setup.emails \in [Humans -> SUBSET Emails]
           /\ setup.invitable \subseteq Role

TypeInv == SetupOK /\ HumanOK /\ OrgOK /\ MemberOK /\ InviteOK /\ KeyOK

-----------------------------------------------------------------------------
LEMMA InitTypes == Init => TypeInv
<1> SUFFICES ASSUME Init PROVE TypeInv
  OBVIOUS
<1>1. /\ setup \in Setups /\ setup.emails \in [Humans -> SUBSET Emails]
      /\ setup.invitable \subseteq Role /\ setup.base \in [Humans -> HumanHandles]
      /\ \A h \in setup.onboarded : h \in Humans /\ setup.emails[h] # {}
  BY SetupsAssumption DEF Init, Setup
<1>2. humans \in [Humans -> Human]
  <2>1. ASSUME NEW h \in Humans, h \in setup.onboarded
        PROVE  (CHOOSE e \in setup.emails[h] : TRUE) \in Emails
    BY <1>1, <2>1
  <2>2. NoHuman \in Human
    BY DEF NoHuman, Human
  <2>3. ASSUME NEW h \in Humans
        PROVE  (IF h \notin setup.onboarded THEN NoHuman
                ELSE [status |-> "confirmed", email |-> CHOOSE e \in setup.emails[h] : TRUE,
                      handle |-> setup.base[h]]) \in Human
    BY <1>1, <2>1, <2>2 DEF Human
  <2> QED BY <2>3 DEF Init
<1>3. humanByHandle \in [HumanHandles -> Humans \cup {Nil}]
  BY <1>1 DEF Init
<1>4. OrgOK
  BY DEF Init, OrgOK, NoOrg, Org
<1>5. MemberOK /\ InviteOK /\ KeyOK
  BY DEF Init, MemberOK, InviteOK, KeyOK
<1> QED BY <1>1, <1>2, <1>3, <1>4, <1>5 DEF TypeInv, SetupOK, HumanOK

LEMMA SameHumans == ASSUME HumanOK, UNCHANGED humanVars PROVE HumanOK'
BY DEF HumanOK, humanVars
LEMMA SameOrgs == ASSUME OrgOK, UNCHANGED orgVars PROVE OrgOK'
BY DEF OrgOK, orgVars
LEMMA SameMembers == ASSUME MemberOK, UNCHANGED memberVars PROVE MemberOK'
BY DEF MemberOK, memberVars
LEMMA SameInvites == ASSUME InviteOK, UNCHANGED inviteVars PROVE InviteOK'
BY DEF InviteOK, inviteVars
LEMMA SameKeys == ASSUME KeyOK, UNCHANGED keyVars PROVE KeyOK'
BY DEF KeyOK, keyVars
LEMMA SameSetup == ASSUME SetupOK, setup' = setup PROVE SetupOK'
BY DEF SetupOK

LEMMA SignInTypes ==
  ASSUME TypeInv, NEW h \in Humans, NEW e \in setup.emails[h], SignIn(h, e)
  PROVE  TypeInv'
<1>1. e \in Emails
  BY DEF TypeInv, SetupOK
<1>2. HumanOK'
  <2>1. ASSUME NEW hd \in HumanHandles,
               humans' = [humans EXCEPT ![h] = [status |-> "new", email |-> e, handle |-> hd]],
               humanByHandle' = [humanByHandle EXCEPT ![hd] = h]
        PROVE  HumanOK'
    <3>1. [status |-> "new", email |-> e, handle |-> hd] \in Human
      BY <1>1 DEF Human
    <3> QED BY <2>1, <3>1 DEF TypeInv, HumanOK
  <2>2. ASSUME humans' = [humans EXCEPT ![h].email = e], humanByHandle' = humanByHandle
        PROVE  HumanOK'
    BY <1>1, <2>2 DEF TypeInv, HumanOK, Human
  <2> QED BY <2>1, <2>2 DEF SignIn
<1> QED BY <1>2, SameOrgs, SameMembers, SameInvites, SameKeys, SameSetup DEF SignIn, TypeInv

LEMMA ChooseHandleTypes ==
  ASSUME TypeInv, NEW h \in Humans, NEW hd \in HumanHandles, ChooseHandle(h, hd)
  PROVE  TypeInv'
<1>1. HumanOK'
  <2>1. humans' \in [Humans -> Human]
    BY DEF ChooseHandle, TypeInv, HumanOK, Human
  <2>2. humanByHandle' \in [HumanHandles -> Humans \cup {Nil}]
    BY DEF ChooseHandle, TypeInv, HumanOK
  <2> QED BY <2>1, <2>2 DEF HumanOK
<1> QED BY <1>1, SameOrgs, SameMembers, SameInvites, SameKeys, SameSetup
        DEF ChooseHandle, TypeInv

LEMMA EnrolTypes ==
  ASSUME MemberOK, NEW m \in MembershipIds, NEW o \in Orgs, NEW h \in Humans,
         NEW r \in Role, Enrol(m, o, h, r)
  PROVE  MemberOK'
<1>1. [org |-> o, human |-> h, role |-> r, status |-> "active"] \in Membership
  BY DEF Membership
<1>2. <<o, h>> \in Pairs
  BY DEF Pairs
<1> QED BY <1>1, <1>2 DEF Enrol, MemberOK

LEMMA RoleTypes == {"viewer", "member", "admin", "owner"} = Role /\ "none" \notin Role
BY DEF Role, Rank

LEMMA CreateOrgTypes ==
  ASSUME TypeInv, NEW h \in Humans, NEW o \in Orgs, NEW hd \in OrgHandles, CreateOrg(h, o, hd)
  PROVE  TypeInv'
<1>1. MemberOK'
  BY EnrolTypes, RoleTypes DEF CreateOrg, TypeInv
<1>2. OrgOK'
  <2> DEFINE rec == [status |-> "live", handle |-> hd]
  <2>1. /\ rec \in Org /\ rec.status = "live" /\ rec.handle = hd
        /\ orgs' = [orgs EXCEPT ![o] = rec] /\ orgByHandle' = [orgByHandle EXCEPT ![hd] = o]
    BY DEF CreateOrg, Org
  <2> HIDE DEF rec
  <2> QED BY <2>1 DEF TypeInv, OrgOK
<1> QED BY <1>1, <1>2, SameHumans, SameInvites, SameKeys, SameSetup DEF CreateOrg, TypeInv

LEMMA WithoutTypes ==
  ASSUME NEW D, NEW T, NEW table \in [D -> T \cup {Nil}], NEW ids
  PROVE  /\ Without(table, ids) \in [D -> T \cup {Nil}]
         /\ \A i \in D : Without(table, ids)[i] = IF i \in ids THEN Nil ELSE table[i]
BY DEF Without

LEMMA DeleteOrgTypes ==
  ASSUME TypeInv, NEW h \in Humans, NEW e, NEW o \in Orgs, DeleteOrg(h, e, o)
  PROVE  TypeInv'
<1> USE DEF TypeInv
<1>1. InviteOK'
  <2> DEFINE gone == Of(invites, o)
  <2>1. /\ invites' = Without(invites, gone) /\ inviteSecrets' = inviteSecrets \ gone
        /\ lapsed' = [lapsed EXCEPT !.invite = @ \ gone, !.key = @ \ Of(keys, o)]
    BY DEF DeleteOrg, DropInvites
  <2> HIDE DEF gone
  <2>2. invites' \in [InviteIds -> Invite \cup {Nil}]
    BY <2>1, WithoutTypes DEF InviteOK
  <2>3. inviteSecrets' \subseteq InviteIds /\ lapsed' \in [invite : SUBSET InviteIds, key : SUBSET KeyIds]
    BY <2>1 DEF InviteOK
  <2> QED BY <2>2, <2>3 DEF InviteOK
<1>2. KeyOK'
  <2>1. Of(keys, o) \subseteq KeyIds
    BY DEF Of, KeyOK
  <2> QED BY <2>1, WithoutTypes DEF DeleteOrg, DropKeys, KeyOK
<1>3. MemberOK'
  <2>1. memberships' \in [MembershipIds -> Membership \cup {Nil}]
    <3> DEFINE went == Of(memberships, o)
    <3>1. memberships' = Without(memberships, went)
      BY DEF DeleteOrg
    <3> HIDE DEF went
    <3> QED BY <3>1, WithoutTypes DEF MemberOK
  <2>2. membershipOf' \in [Pairs -> MembershipIds \cup {Nil}] /\ removed' \subseteq Pairs
    BY DEF DeleteOrg, MemberOK
  <2> QED BY <2>1, <2>2 DEF MemberOK
<1>4. OrgOK'
  <2>1. orgs' = [orgs EXCEPT ![o].status = "archived"] /\ orgByHandle' = orgByHandle
        /\ orgs[o].status = "live" /\ orgs[o] # NoOrg
    BY DEF DeleteOrg, Live, NoOrg
  <2> QED BY <2>1 DEF OrgOK, Org
<1> QED BY <1>1, <1>2, <1>3, <1>4, SameHumans, SameSetup DEF DeleteOrg

LEMMA CreateInviteTypes ==
  ASSUME TypeInv, NEW h \in Humans, NEW e, NEW o \in Orgs, NEW email \in Emails,
         NEW r \in Role, CreateInvite(h, e, o, email, r)
  PROVE  TypeInv'
<1>1. [org |-> o, email |-> email, role |-> r, status |-> "pending"] \in Invite
  BY DEF CreateInvite, Invite
<1>2. InviteOK'
  BY <1>1 DEF CreateInvite, TypeInv, InviteOK
<1> QED BY <1>2, SameHumans, SameOrgs, SameMembers, SameKeys, SameSetup
        DEF CreateInvite, TypeInv

LEMMA FinishTypes ==
  ASSUME TypeInv, NEW i \in InviteIds, invites[i] # Nil,
         NEW st \in {"active", "expired", "revoked"}, Finish(i, st), MemberOK'
  PROVE  TypeInv'
<1>1. InviteOK'
  BY DEF Finish, TypeInv, InviteOK, Invite
<1> QED BY <1>1, SameHumans, SameOrgs, SameKeys, SameSetup DEF Finish, TypeInv

LEMMA AcceptTypes ==
  ASSUME TypeInv, NEW i \in InviteIds, invites[i] # Nil, NEW h \in Humans, NEW e,
         AcceptInvite(i, h, e)
  PROVE  TypeInv'
<1>1. invites[i].org \in Orgs /\ invites[i].role \in Role
  BY DEF TypeInv, InviteOK, Invite
<1>2. MemberOK'
  BY <1>1, EnrolTypes, SameMembers DEF AcceptInvite, TypeInv
<1> QED BY <1>2, FinishTypes DEF AcceptInvite

LEMMA RevokeMembershipTypes ==
  ASSUME TypeInv, NEW h \in Humans, NEW e, NEW o \in Orgs, NEW t \in Humans,
         RevokeMembership(h, e, o, t)
  PROVE  TypeInv'
<1>1. MemberOK'
  <2> DEFINE m == membershipOf[<<o, t>>]
  <2>1. <<o, t>> \in Pairs /\ m \in MembershipIds /\ memberships[m] \in Membership
    BY DEF RevokeMembership, Active, TypeInv, MemberOK, Pairs
  <2>2. memberships' = [memberships EXCEPT ![m].status = "revoked"]
        /\ removed' = removed \cup {<<o, t>>} /\ membershipOf' = membershipOf
    BY DEF RevokeMembership
  <2> HIDE DEF m
  <2> QED BY <2>1, <2>2 DEF TypeInv, MemberOK, Membership
<1> QED BY <1>1, SameHumans, SameOrgs, SameInvites, SameKeys, SameSetup
        DEF RevokeMembership, TypeInv

LEMMA KeyTypes ==
  ASSUME TypeInv, NEW h \in Humans, NEW e, NEW o \in Orgs, OrgKeyRequest(h, e, o)
  PROVE  TypeInv'
<1>1. KeyOK' /\ UNCHANGED <<setup, humanVars, orgVars, memberVars, inviteVars>>
  <2>1. ASSUME NEW scopes \in SUBSET Scopes, NEW expires \in BOOLEAN,
               CreateOrgAccessKey(h, e, o, scopes, expires)
        PROVE  KeyOK' /\ UNCHANGED <<setup, humanVars, orgVars, memberVars, inviteVars>>
    <3> DEFINE rec == [org |-> o, scopes |-> scopes, status |-> "active", expires |-> expires,
                       used |-> FALSE]
    <3>1. scopes \in (SUBSET Scopes) \ {{}}
      BY <2>1 DEF CreateOrgAccessKey
    <3>2. rec \in Key
      BY <3>1 DEF Key
    <3>3. PICK k \in KeyIds : keys' = [keys EXCEPT ![k] = rec] /\ keySecrets' = keySecrets \cup {k}
      BY <2>1 DEF CreateOrgAccessKey
    <3>4. spent' = spent /\ UNCHANGED <<setup, humanVars, orgVars, memberVars, inviteVars>>
      BY <2>1 DEF CreateOrgAccessKey
    <3> HIDE DEF rec
    <3> QED BY <3>2, <3>3, <3>4 DEF TypeInv, KeyOK
  <2>2. ASSUME NEW k \in KeyIds, RevokeOrgAccessKey(h, e, o, k)
        PROVE  KeyOK' /\ UNCHANGED <<setup, humanVars, orgVars, memberVars, inviteVars>>
    BY <2>2 DEF RevokeOrgAccessKey, TypeInv, KeyOK, Key
  <2> QED BY <2>1, <2>2 DEF OrgKeyRequest
<1> QED BY <1>1, SameHumans, SameOrgs, SameMembers, SameInvites, SameSetup DEF TypeInv

LEMMA AccessTypes ==
  ASSUME TypeInv, AccessRequest
  PROVE  TypeInv'
<1>1. PICK hd \in OrgHandles, k \in KeyIds, scope \in Scopes : UseKey(hd, k, scope)
  BY DEF AccessRequest
<1>2. KeyOK'
  BY <1>1 DEF UseKey, Opens, TypeInv, KeyOK, Key
<1> QED BY <1>1, <1>2, SameHumans, SameOrgs, SameMembers, SameInvites, SameSetup
        DEF UseKey, TypeInv

LEMMA ElapseTypes ==
  ASSUME TypeInv, Elapse
  PROVE  TypeInv'
<1>1. InviteOK'
  BY DEF Elapse, TypeInv, InviteOK
<1> QED BY <1>1, SameHumans, SameOrgs, SameMembers, SameKeys, SameSetup DEF Elapse, TypeInv

LEMMA RestartTypes ==
  ASSUME TypeInv, Restart
  PROVE  TypeInv'
<1>1. MemberOK'
  <2>1. PICK S \in SUBSET {m \in MembershipIds : memberships[m] # Nil} :
          OneOfEach(S) /\ RebuiltMemberships(S)
    BY DEF Restart
  <2>2. membershipOf' \in [Pairs -> MembershipIds \cup {Nil}]
    BY <2>1 DEF RebuiltMemberships
  <2> QED BY <2>2 DEF Restart, TypeInv, MemberOK
<1>2. OrgOK'
  <2>1. orgByHandle' \in [OrgHandles -> Orgs \cup {Nil}] /\ orgs' = orgs
    BY DEF Restart, RebuiltOrgs
  <2> QED BY <2>1 DEF TypeInv, OrgOK
<1>3. HumanOK'
  <2>1. humanByHandle' \in [HumanHandles -> Humans \cup {Nil}] /\ humans' = humans
    BY DEF Restart, RebuiltHumans
  <2> QED BY <2>1 DEF TypeInv, HumanOK
<1>4. InviteOK' /\ KeyOK'
  BY DEF Restart, TypeInv, InviteOK, KeyOK
<1> QED BY <1>1, <1>2, <1>3, <1>4, SameSetup DEF Restart, TypeInv

LEMMA UnchangedTypes ==
  ASSUME TypeInv, UNCHANGED vars
  PROVE  TypeInv'
BY SameHumans, SameOrgs, SameMembers, SameInvites, SameKeys, SameSetup
   DEF vars, TypeInv

LEMMA InviteRequestTypes ==
  ASSUME TypeInv, NEW h \in Humans, NEW e, NEW i \in InviteIds,
         InviteRequest(h, e, i) \/ RedeemCode(h, e, i)
  PROVE  TypeInv'
<1>1. invites[i] # Nil
  BY DEF InviteRequest, RedeemCode
<1>2. CASE ExpireInvite(i)
  BY <1>1, <1>2, FinishTypes, SameMembers DEF ExpireInvite, TypeInv
<1>3. CASE AcceptInvite(i, h, e)
  BY <1>1, <1>3, AcceptTypes
<1>4. CASE RevokeInvite(i, h, e)
  BY <1>1, <1>4, FinishTypes, SameMembers DEF RevokeInvite, TypeInv
<1> QED BY <1>2, <1>3, <1>4 DEF InviteRequest, RedeemCode

(* The steps of the hub, one store call each. *)
LEMMA NextIsOneOf ==
  ASSUME Next, SetupOK
  PROVE  \/ \E h \in Humans : \E e \in setup.emails[h] : SignIn(h, e)
         \/ \E h \in Humans, hd \in HumanHandles : ChooseHandle(h, hd)
         \/ \E h \in Humans, o \in Orgs, hd \in OrgHandles : CreateOrg(h, o, hd)
         \/ \E h \in Humans, e \in Emails, o \in Orgs : DeleteOrg(h, e, o)
         \/ \E h \in Humans, e \in Emails, o \in Orgs, email \in Emails, r \in Role :
              CreateInvite(h, e, o, email, r)
         \/ \E h \in Humans : \E e \in setup.emails[h], i \in InviteIds :
              InviteRequest(h, e, i) \/ RedeemCode(h, e, i)
         \/ \E h \in Humans, e \in Emails, o \in Orgs, t \in Humans : RevokeMembership(h, e, o, t)
         \/ \E h \in Humans, e \in Emails, o \in Orgs : OrgKeyRequest(h, e, o)
         \/ AccessRequest \/ Elapse \/ Restart
<1>1. \A h \in Humans : setup.emails[h] \subseteq Emails
  BY DEF SetupOK
<1>2. UNION Range(setup.emails) \subseteq Emails
  BY DEF SetupOK, Range
<1>3. ASSUME NEW h \in Humans, NEW e \in Emails, NEW o \in Orgs, OrgInviteRequest(h, e, o)
      PROVE  \E email \in Emails, r \in Role : CreateInvite(h, e, o, email, r)
  BY <1>2, <1>3 DEF OrgInviteRequest, SetupOK
<1> QED BY <1>1, <1>3 DEF Next, OrgRequest, OrgHumanRequest, MeRequest

LEMMA NextTypes ==
  ASSUME TypeInv, [Next]_vars
  PROVE  TypeInv'
<1>1. CASE Next
  <2>1. SetupOK
    BY DEF TypeInv
  <2> QED BY <1>1, <2>1, NextIsOneOf, SignInTypes, ChooseHandleTypes, CreateOrgTypes,
             DeleteOrgTypes, CreateInviteTypes, InviteRequestTypes, RevokeMembershipTypes,
             KeyTypes, AccessTypes, ElapseTypes, RestartTypes
<1> QED BY <1>1, UnchangedTypes

(* Every table keeps its type, whatever the calls. *)
THEOREM TypeCorrect == Spec => []TypeOK
<1>1. TypeInv => TypeOK
  BY DEF TypeInv, TypeOK, HumanOK, OrgOK, MemberOK, InviteOK, KeyOK
<1> QED BY <1>1, InitTypes, NextTypes, PTL DEF Spec

-----------------------------------------------------------------------------
(* Names and keys.                                                         *)

LEMMA InitNames == Init => NamesAreForEver
BY DEF Init, NamesAreForEver

(* No two organizations have one handle, so the index made anew is the old. *)
LEMMA RestartNames ==
  ASSUME TypeInv, NamesAreForEver, Restart
  PROVE  NamesAreForEver'
<1> SUFFICES ASSUME NEW o \in Orgs, orgs[o] # NoOrg
             PROVE  orgByHandle'[orgs[o].handle] = o
  BY DEF Restart, NamesAreForEver
<1>1. orgs[o].handle \in OrgHandles
  BY DEF TypeInv, OrgOK
<1>2. ASSUME NEW q \in Orgs, orgs[q].handle = orgs[o].handle
      PROVE  q = o
  <2>1. orgs[q] # NoOrg
    BY <1>1, <1>2, NilAssumption DEF NoOrg
  <2> QED BY <2>1, <1>2 DEF NamesAreForEver
<1> QED BY <1>1, <1>2 DEF Restart, RebuiltOrgs

LEMMA NextNames ==
  ASSUME TypeInv, NamesAreForEver, [Next]_vars
  PROVE  NamesAreForEver'
<1>1. ASSUME UNCHANGED orgVars
      PROVE  NamesAreForEver'
    BY <1>1 DEF orgVars, NamesAreForEver
<1>2. ASSUME NEW h \in Humans, NEW o \in Orgs, NEW hd \in OrgHandles, CreateOrg(h, o, hd)
      PROVE  NamesAreForEver'
  <2> DEFINE rec == [status |-> "live", handle |-> hd]
  <2>1. /\ rec.handle = hd /\ orgs' = [orgs EXCEPT ![o] = rec]
        /\ orgByHandle' = [orgByHandle EXCEPT ![hd] = o]
        /\ orgs[o] = NoOrg /\ orgByHandle[hd] = Nil
    BY <1>2 DEF CreateOrg
  <2>2. Nil \notin Orgs
    BY NilAssumption
  <2> HIDE DEF rec
  <2> QED BY <2>1, <2>2 DEF TypeInv, OrgOK, NamesAreForEver
<1>3. ASSUME NEW h \in Humans, NEW e \in Emails, NEW o \in Orgs, DeleteOrg(h, e, o)
      PROVE  NamesAreForEver'
  <2>1. orgs' = [orgs EXCEPT ![o].status = "archived"] /\ orgByHandle' = orgByHandle
        /\ orgs[o] # NoOrg
    BY <1>3 DEF DeleteOrg, Live, NoOrg
  <2>2. \A q \in Orgs : orgs'[q].handle = orgs[q].handle /\ (orgs'[q] # NoOrg => orgs[q] # NoOrg)
    BY <2>1 DEF TypeInv, OrgOK, Org
  <2> QED BY <2>1, <2>2 DEF NamesAreForEver
<1>4. CASE Next
  <2>1. SetupOK
    BY DEF TypeInv
  <2>2. CASE \E h \in Humans : \E e \in setup.emails[h] : SignIn(h, e)
    BY <1>1, <2>2 DEF SignIn
  <2>3. CASE \E h \in Humans, hd \in HumanHandles : ChooseHandle(h, hd)
    BY <1>1, <2>3 DEF ChooseHandle
  <2>4. CASE \E h \in Humans, e \in Emails, o \in Orgs, email \in Emails, r \in Role :
               CreateInvite(h, e, o, email, r)
    BY <1>1, <2>4 DEF CreateInvite
  <2>5. CASE \E h \in Humans : \E e \in setup.emails[h], i \in InviteIds :
               InviteRequest(h, e, i) \/ RedeemCode(h, e, i)
    BY <1>1, <2>5 DEF InviteRequest, RedeemCode, ExpireInvite, AcceptInvite, RevokeInvite, Finish
  <2>6. CASE \E h \in Humans, e \in Emails, o \in Orgs, t \in Humans : RevokeMembership(h, e, o, t)
    BY <1>1, <2>6 DEF RevokeMembership
  <2>7. CASE \E h \in Humans, e \in Emails, o \in Orgs : OrgKeyRequest(h, e, o)
    BY <1>1, <2>7 DEF OrgKeyRequest, CreateOrgAccessKey, RevokeOrgAccessKey
  <2>8. CASE AccessRequest \/ Elapse
    BY <1>1, <2>8 DEF AccessRequest, UseKey, Elapse
  <2> QED BY <1>2, <1>3, <1>4, <2>1, <2>2, <2>3, <2>4, <2>5, <2>6, <2>7, <2>8,
             NextIsOneOf, RestartNames
<1> QED BY <1>1, <1>4 DEF vars

(* A name once given leads to its organization for ever, archived or not,  *)
(* across restarts (orgByHandle, archivedOrgs).                            *)
THEOREM NamesStay == Spec => []NamesAreForEver
<1> QED BY InitTypes, NextTypes, InitNames, NextNames, PTL DEF Spec

LEMMA KeySteps ==
  ASSUME Next, SetupOK
  PROVE  \/ UNCHANGED keyVars
         \/ \E h \in Humans, e \in Emails, o \in Orgs : DeleteOrg(h, e, o) \/ OrgKeyRequest(h, e, o)
         \/ AccessRequest \/ Restart
<1>1. CASE \E h \in Humans : \E e \in setup.emails[h] : SignIn(h, e)
  BY <1>1 DEF SignIn
<1>2. CASE \E h \in Humans, hd \in HumanHandles : ChooseHandle(h, hd)
  BY <1>2 DEF ChooseHandle
<1>3. CASE \E h \in Humans, o \in Orgs, hd \in OrgHandles : CreateOrg(h, o, hd)
  BY <1>3 DEF CreateOrg
<1>4. CASE \E h \in Humans, e \in Emails, o \in Orgs, email \in Emails, r \in Role :
             CreateInvite(h, e, o, email, r)
  BY <1>4 DEF CreateInvite
<1>5. CASE \E h \in Humans : \E e \in setup.emails[h], i \in InviteIds :
             InviteRequest(h, e, i) \/ RedeemCode(h, e, i)
  BY <1>5 DEF InviteRequest, RedeemCode, ExpireInvite, AcceptInvite, RevokeInvite, Finish
<1>6. CASE \E h \in Humans, e \in Emails, o \in Orgs, t \in Humans : RevokeMembership(h, e, o, t)
  BY <1>6 DEF RevokeMembership
<1>7. CASE Elapse
  BY <1>7 DEF Elapse
<1> QED BY <1>1, <1>2, <1>3, <1>4, <1>5, <1>6, <1>7, NextIsOneOf

(* A spent key has no record any more, or one that says it is revoked. *)
SpentIsRevoked == \A k \in spent : keys[k] # Nil => keys[k].status = "revoked"

LEMMA NextSpent ==
  ASSUME TypeInv, SpentIsRevoked, [Next]_vars
  PROVE  SpentIsRevoked'
<1>1. ASSUME UNCHANGED keyVars
      PROVE  SpentIsRevoked'
  BY <1>1 DEF keyVars, SpentIsRevoked
<1>2. ASSUME NEW h \in Humans, NEW e \in Emails, NEW o \in Orgs, DeleteOrg(h, e, o)
      PROVE  SpentIsRevoked'
  <2> DEFINE gone == Of(keys, o)
  <2>1. keys' = Without(keys, gone) /\ spent' = spent \cup gone
    BY <1>2 DEF DeleteOrg, DropKeys
  <2>2. gone \subseteq KeyIds
    BY DEF TypeInv, KeyOK, Of
  <2> HIDE DEF gone
  <2>3. \A k \in KeyIds : keys'[k] = IF k \in gone THEN Nil ELSE keys[k]
    BY <2>1 DEF Without, TypeInv, KeyOK
  <2> QED BY <2>1, <2>2, <2>3 DEF TypeInv, KeyOK, SpentIsRevoked
<1>3. ASSUME NEW h \in Humans, NEW e \in Emails, NEW o \in Orgs, OrgKeyRequest(h, e, o)
      PROVE  SpentIsRevoked'
  <2>1. ASSUME NEW scopes, NEW expires, CreateOrgAccessKey(h, e, o, scopes, expires)
        PROVE  SpentIsRevoked'
    <3>1. PICK k \in KeyIds : k \notin spent /\ \E rec : keys' = [keys EXCEPT ![k] = rec]
      BY <2>1 DEF CreateOrgAccessKey, Fresh
    <3>2. spent' = spent
      BY <2>1 DEF CreateOrgAccessKey
    <3> QED BY <3>1, <3>2 DEF TypeInv, KeyOK, SpentIsRevoked
  <2>2. ASSUME NEW k \in KeyIds, RevokeOrgAccessKey(h, e, o, k)
        PROVE  SpentIsRevoked'
    <3>1. keys[k] \in Key /\ keys' = [keys EXCEPT ![k].status = "revoked"]
          /\ spent' = spent \cup {k}
      BY <2>2 DEF RevokeOrgAccessKey, TypeInv, KeyOK
    <3>2. \A j \in KeyIds \ {k} : keys'[j] = keys[j]
      BY <3>1 DEF TypeInv, KeyOK
    <3>3. keys'[k].status = "revoked"
      BY <3>1 DEF TypeInv, KeyOK, Key
    <3> QED BY <3>1, <3>2, <3>3 DEF TypeInv, KeyOK, SpentIsRevoked
  <2> QED BY <1>3, <2>1, <2>2 DEF OrgKeyRequest
<1>4. ASSUME NEW hd \in OrgHandles, NEW k \in KeyIds, NEW scope \in Scopes, UseKey(hd, k, scope)
      PROVE  SpentIsRevoked'
  <2>1. keys[k] \in Key /\ keys' = [keys EXCEPT ![k].used = TRUE] /\ spent' = spent
    BY <1>4 DEF UseKey, Opens, TypeInv, KeyOK
  <2>2. \A j \in KeyIds : keys'[j] # Nil => keys[j] # Nil /\ keys'[j].status = keys[j].status
    BY <2>1, RecordsAssumption DEF TypeInv, KeyOK, Key
  <2> QED BY <2>1, <2>2 DEF TypeInv, KeyOK, SpentIsRevoked
<1>5. ASSUME Restart
      PROVE  SpentIsRevoked'
  BY <1>5 DEF Restart, SpentIsRevoked
<1>6. CASE Next
  <2>1. SetupOK
    BY DEF TypeInv
  <2> QED BY <1>1, <1>2, <1>3, <1>4, <1>5, <1>6, <2>1, KeySteps DEF AccessRequest
<1> QED BY <1>1, <1>6 DEF vars

(* A key once revoked, or gone with its organization, opens nothing again, *)
(* whatever keys are made and however often the hub restarts               *)
(* (RevokeOrgAccessKey, DeleteOrg, AuthorizeOrgAccessByName).              *)
THEOREM SpentKeysStaySpent == Spec => []SpentKeysOpenNothing
<1>1. Init => SpentIsRevoked
  BY DEF Init, SpentIsRevoked
<1>2. SpentIsRevoked => SpentKeysOpenNothing
  BY DEF SpentIsRevoked, SpentKeysOpenNothing, Opens
<1> QED BY <1>1, <1>2, InitTypes, NextTypes, NextSpent, PTL DEF Spec

-----------------------------------------------------------------------------
(* Memberships, invites and keys are those of organizations that live.     *)
OnlyLive(table) == \A i \in DOMAIN table : table[i] # Nil => Live(table[i].org)
OfLiveOrgs == OnlyLive(memberships) /\ OnlyLive(invites) /\ OnlyLive(keys)

(* Of a step that deletes no organization: its records are those there     *)
(* were, or are of an organization that lives.                             *)
Grows(old, new) ==
  /\ DOMAIN new = DOMAIN old
  /\ \A i \in DOMAIN old : new[i] # Nil =>
       (old[i] # Nil /\ new[i].org = old[i].org) \/ orgs'[new[i].org].status = "live"
DeletesNothing ==
  /\ \A o \in Orgs : Live(o) => orgs'[o].status = "live"
  /\ Grows(memberships, memberships') /\ Grows(invites, invites') /\ Grows(keys, keys')

LEMMA SameGrows ==
  ASSUME NEW old, NEW new, new = old
  PROVE  Grows(old, new)
BY DEF Grows

LEMMA EnrolGrows ==
  ASSUME MemberOK, NEW m \in MembershipIds, NEW o \in Orgs, NEW h \in Humans, NEW r \in Role,
         Enrol(m, o, h, r), orgs'[o].status = "live"
  PROVE  Grows(memberships, memberships')
<1> DEFINE rec == [org |-> o, human |-> h, role |-> r, status |-> "active"]
<1>1. memberships' = [memberships EXCEPT ![m] = rec] /\ rec.org = o
  BY DEF Enrol
<1> HIDE DEF rec
<1> QED BY <1>1 DEF MemberOK, Grows

LEMMA CreateOrgGrows ==
  ASSUME TypeInv, NEW h \in Humans, NEW o \in Orgs, NEW hd \in OrgHandles, CreateOrg(h, o, hd)
  PROVE  DeletesNothing
<1>1. orgs'[o].status = "live" /\ \A q \in Orgs \ {o} : orgs'[q] = orgs[q]
  BY DEF CreateOrg, TypeInv, OrgOK
<1>2. PICK m \in MembershipIds : Enrol(m, o, h, "owner")
  BY DEF CreateOrg
<1>3. Grows(memberships, memberships')
  BY <1>1, <1>2, EnrolGrows, RoleTypes DEF TypeInv
<1>4. invites' = invites /\ keys' = keys
  BY DEF CreateOrg, inviteVars, keyVars
<1> QED BY <1>1, <1>3, <1>4, SameGrows DEF DeletesNothing, Live

LEMMA CreateInviteGrows ==
  ASSUME TypeInv, NEW h \in Humans, NEW e, NEW o \in Orgs, NEW email \in Emails,
         NEW r \in Role, CreateInvite(h, e, o, email, r)
  PROVE  DeletesNothing
<1> DEFINE rec == [org |-> o, email |-> email, role |-> r, status |-> "pending"]
<1>1. PICK i \in InviteIds : invites' = [invites EXCEPT ![i] = rec]
  BY DEF CreateInvite
<1>2. /\ rec.org = o /\ Live(o)
      /\ orgs' = orgs /\ memberships' = memberships /\ keys' = keys
  BY DEF CreateInvite, orgVars, memberVars, keyVars
<1> HIDE DEF rec
<1>3. Grows(invites, invites')
  BY <1>1, <1>2 DEF TypeInv, InviteOK, Grows, Live
<1> QED BY <1>2, <1>3, SameGrows DEF DeletesNothing, Live

LEMMA FinishGrows ==
  ASSUME TypeInv, NEW i \in InviteIds, invites[i] # Nil, NEW st, Finish(i, st),
         Grows(memberships, memberships')
  PROVE  DeletesNothing
<1>1. /\ invites' = [invites EXCEPT ![i].status = st] /\ invites[i] \in Invite
      /\ orgs' = orgs /\ keys' = keys
  BY DEF Finish, orgVars, keyVars, TypeInv, InviteOK
<1>2. \A j \in InviteIds : invites'[j] # Nil => invites[j] # Nil /\ invites'[j].org = invites[j].org
  BY <1>1 DEF TypeInv, InviteOK, Invite
<1>3. Grows(invites, invites')
  BY <1>1, <1>2 DEF TypeInv, InviteOK, Grows
<1> QED BY <1>1, <1>3, SameGrows DEF DeletesNothing, Live

LEMMA InviteRequestGrows ==
  ASSUME TypeInv, OfLiveOrgs, NEW h \in Humans, NEW e, NEW i \in InviteIds,
         InviteRequest(h, e, i) \/ RedeemCode(h, e, i)
  PROVE  DeletesNothing
<1>1. invites[i] # Nil /\ invites[i].org \in Orgs /\ invites[i].role \in Role
      /\ Live(invites[i].org)
  BY DEF InviteRequest, RedeemCode, TypeInv, InviteOK, Invite, OfLiveOrgs, OnlyLive
<1>2. ASSUME memberships' = memberships, NEW st, Finish(i, st)
      PROVE  DeletesNothing
  BY <1>1, <1>2, SameGrows, FinishGrows
<1>3. CASE ExpireInvite(i) \/ RevokeInvite(i, h, e)
  BY <1>2, <1>3 DEF ExpireInvite, RevokeInvite, memberVars
<1>4. CASE AcceptInvite(i, h, e)
  <2>1. Finish(i, "active") /\ orgs' = orgs
    BY <1>4 DEF AcceptInvite, Finish, orgVars
  <2>2. CASE UNCHANGED memberVars
    BY <1>2, <2>1, <2>2 DEF memberVars
  <2>3. CASE \E m \in MembershipIds : Enrol(m, invites[i].org, h, invites[i].role)
    BY <1>1, <2>1, <2>3, EnrolGrows, FinishGrows DEF TypeInv, Live
  <2> QED BY <1>4, <2>2, <2>3 DEF AcceptInvite
<1> QED BY <1>3, <1>4 DEF InviteRequest, RedeemCode

LEMMA RevokeMembershipGrows ==
  ASSUME TypeInv, NEW h \in Humans, NEW e, NEW o \in Orgs, NEW t \in Humans,
         RevokeMembership(h, e, o, t)
  PROVE  DeletesNothing
<1>1. PICK m \in MembershipIds : memberships[m] \in Membership
                                 /\ memberships' = [memberships EXCEPT ![m].status = "revoked"]
  <2>1. <<o, t>> \in Pairs
    BY DEF Pairs
  <2> QED BY <2>1 DEF RevokeMembership, Active, TypeInv, MemberOK
<1>2. orgs' = orgs /\ invites' = invites /\ keys' = keys
  BY DEF RevokeMembership, orgVars, inviteVars, keyVars
<1>3. \A n \in MembershipIds : memberships'[n] # Nil =>
        memberships[n] # Nil /\ memberships'[n].org = memberships[n].org
  BY <1>1, RecordsAssumption DEF TypeInv, MemberOK, Membership
<1>4. Grows(memberships, memberships')
  BY <1>1, <1>3 DEF TypeInv, MemberOK, Grows
<1> QED BY <1>2, <1>4, SameGrows DEF DeletesNothing, Live

LEMMA OrgKeyRequestGrows ==
  ASSUME TypeInv, NEW h \in Humans, NEW e, NEW o \in Orgs, OrgKeyRequest(h, e, o)
  PROVE  DeletesNothing
<1>1. ASSUME NEW scopes, NEW expires, CreateOrgAccessKey(h, e, o, scopes, expires)
      PROVE  DeletesNothing
  <2> DEFINE rec == [org |-> o, scopes |-> scopes, status |-> "active", expires |-> expires,
                     used |-> FALSE]
  <2>1. PICK k \in KeyIds : keys' = [keys EXCEPT ![k] = rec]
    BY <1>1 DEF CreateOrgAccessKey
  <2>2. /\ rec.org = o /\ Live(o)
        /\ orgs' = orgs /\ memberships' = memberships /\ invites' = invites
    BY <1>1 DEF CreateOrgAccessKey, orgVars, memberVars, inviteVars
  <2> HIDE DEF rec
  <2>3. Grows(keys, keys')
    BY <2>1, <2>2 DEF TypeInv, KeyOK, Grows, Live
  <2> QED BY <2>2, <2>3, SameGrows DEF DeletesNothing, Live
<1>2. ASSUME NEW k \in KeyIds, RevokeOrgAccessKey(h, e, o, k)
      PROVE  DeletesNothing
  <2>1. /\ keys' = [keys EXCEPT ![k].status = "revoked"] /\ keys[k] \in Key
        /\ orgs' = orgs /\ memberships' = memberships /\ invites' = invites
    BY <1>2 DEF RevokeOrgAccessKey, orgVars, memberVars, inviteVars, TypeInv, KeyOK
  <2>2. \A j \in KeyIds : keys'[j] # Nil => keys[j] # Nil /\ keys'[j].org = keys[j].org
    BY <2>1, RecordsAssumption DEF TypeInv, KeyOK, Key
  <2>3. Grows(keys, keys')
    BY <2>1, <2>2 DEF TypeInv, KeyOK, Grows
  <2> QED BY <2>1, <2>3, SameGrows DEF DeletesNothing, Live
<1> QED BY <1>1, <1>2 DEF OrgKeyRequest

LEMMA AccessGrows ==
  ASSUME TypeInv, AccessRequest
  PROVE  DeletesNothing
<1>1. PICK hd \in OrgHandles, k \in KeyIds, scope \in Scopes : UseKey(hd, k, scope)
  BY DEF AccessRequest
<1>2. /\ keys' = [keys EXCEPT ![k].used = TRUE] /\ keys[k] \in Key
      /\ orgs' = orgs /\ memberships' = memberships /\ invites' = invites
  BY <1>1 DEF UseKey, Opens, orgVars, memberVars, inviteVars, TypeInv, KeyOK
<1>3. \A j \in KeyIds : keys'[j] # Nil => keys[j] # Nil /\ keys'[j].org = keys[j].org
  BY <1>2, RecordsAssumption DEF TypeInv, KeyOK, Key
<1>4. Grows(keys, keys')
  BY <1>2, <1>3 DEF TypeInv, KeyOK, Grows
<1> QED BY <1>2, <1>4, SameGrows DEF DeletesNothing, Live

LEMMA NextGrows ==
  ASSUME TypeInv, OfLiveOrgs, [Next]_vars
  PROVE  \/ DeletesNothing
         \/ \E h \in Humans, e \in Emails, o \in Orgs : DeleteOrg(h, e, o)
<1>1. ASSUME UNCHANGED <<orgs, memberships, invites, keys>>
      PROVE  DeletesNothing
  BY <1>1, SameGrows DEF DeletesNothing, Live
<1>2. CASE Next
  <2>1. SetupOK
    BY DEF TypeInv
  <2>2. CASE \E h \in Humans : \E e \in setup.emails[h] : SignIn(h, e)
    BY <1>1, <2>2 DEF SignIn, orgVars, memberVars, inviteVars, keyVars
  <2>3. CASE \E h \in Humans, hd \in HumanHandles : ChooseHandle(h, hd)
    BY <1>1, <2>3 DEF ChooseHandle, orgVars, memberVars, inviteVars, keyVars
  <2>4. CASE Elapse \/ Restart
    BY <1>1, <2>4 DEF Elapse, Restart, orgVars, memberVars, inviteVars, keyVars
  <2> QED BY <1>2, <2>1, <2>2, <2>3, <2>4, NextIsOneOf, CreateOrgGrows, CreateInviteGrows,
             InviteRequestGrows, RevokeMembershipGrows, OrgKeyRequestGrows, AccessGrows
<1> QED BY <1>1, <1>2 DEF vars, orgVars, memberVars, inviteVars, keyVars

LEMMA NextOfLiveOrgs ==
  ASSUME TypeInv, OfLiveOrgs, [Next]_vars
  PROVE  OfLiveOrgs'
<1>1. CASE DeletesNothing
  <2>1. OnlyLive(memberships)'
    BY <1>1 DEF OfLiveOrgs, OnlyLive, DeletesNothing, Grows, Live, TypeInv, MemberOK, Membership
  <2>2. OnlyLive(invites)'
    BY <1>1 DEF OfLiveOrgs, OnlyLive, DeletesNothing, Grows, Live, TypeInv, InviteOK, Invite
  <2>3. OnlyLive(keys)'
    BY <1>1 DEF OfLiveOrgs, OnlyLive, DeletesNothing, Grows, Live, TypeInv, KeyOK, Key
  <2> QED BY <2>1, <2>2, <2>3 DEF OfLiveOrgs
<1>2. ASSUME NEW h \in Humans, NEW e \in Emails, NEW o \in Orgs, DeleteOrg(h, e, o)
      PROVE  OfLiveOrgs'
  <2>1. \A q \in Orgs \ {o} : orgs'[q] = orgs[q]
    BY <1>2 DEF DeleteOrg, TypeInv, OrgOK
  <2>2. /\ memberships' = Without(memberships, Of(memberships, o))
        /\ invites' = Without(invites, Of(invites, o)) /\ keys' = Without(keys, Of(keys, o))
    BY <1>2 DEF DeleteOrg, DropInvites, DropKeys
  <2>3. OnlyLive(memberships)'
    BY <2>1, <2>2 DEF OfLiveOrgs, OnlyLive, Without, Of, Live, TypeInv, MemberOK, Membership
  <2>4. OnlyLive(invites)'
    BY <2>1, <2>2 DEF OfLiveOrgs, OnlyLive, Without, Of, Live, TypeInv, InviteOK, Invite
  <2>5. OnlyLive(keys)'
    BY <2>1, <2>2 DEF OfLiveOrgs, OnlyLive, Without, Of, Live, TypeInv, KeyOK, Key
  <2> QED BY <2>3, <2>4, <2>5 DEF OfLiveOrgs
<1> QED BY <1>1, <1>2, NextGrows

-----------------------------------------------------------------------------
(* The index of memberships, and the roles it amounts to.                  *)
IndexLeadsBack ==
  \A p \in Pairs : membershipOf[p] # Nil =>
    memberships[membershipOf[p]] # Nil /\ PairOf(membershipOf[p]) = p

EveryoneIsIndexed ==
  \A m \in MembershipIds : memberships[m] # Nil => membershipOf[PairOf(m)] # Nil

MemberInv == TypeInv /\ OfLiveOrgs /\ IndexLeadsBack /\ EveryoneIsIndexed

(* A human comes in: the organization is new, or he is let in by an invite.*)
Enters(o, h, r) ==
  /\ \E m \in MembershipIds : Enrol(m, o, h, r)
  /\ RoleIn(o, h) = "none"
  /\ setup' = setup

MemberSteps ==
  \/ UNCHANGED <<setup, orgVars, memberVars>>
  \/ \E h \in Humans, o \in Orgs, hd \in OrgHandles : CreateOrg(h, o, hd)
  \/ \E h \in Humans, i \in InviteIds : \E e \in setup.emails[h] :
       /\ invites[i] # Nil /\ AcceptInvite(i, h, e)
       /\ MayStayAgain(invites[i].org, h) /\ Enters(invites[i].org, h, invites[i].role)
  \/ \E h \in Humans, e \in Emails, o \in Orgs, t \in Humans : RevokeMembership(h, e, o, t)
  \/ \E h \in Humans, e \in Emails, o \in Orgs : DeleteOrg(h, e, o)
  \/ Restart

LEMMA InviteRequestSteps ==
  ASSUME NEW h \in Humans, NEW e \in setup.emails[h], NEW i \in InviteIds,
         InviteRequest(h, e, i) \/ RedeemCode(h, e, i)
  PROVE  \/ UNCHANGED <<setup, orgVars, memberVars>>
         \/ /\ invites[i] # Nil /\ AcceptInvite(i, h, e)
            /\ MayStayAgain(invites[i].org, h) /\ Enters(invites[i].org, h, invites[i].role)
<1>1. invites[i] # Nil
  BY DEF InviteRequest, RedeemCode
<1>2. CASE ExpireInvite(i) \/ RevokeInvite(i, h, e)
  BY <1>2 DEF ExpireInvite, RevokeInvite, Finish
<1>3. CASE AcceptInvite(i, h, e)
  BY <1>1, <1>3 DEF AcceptInvite, Finish, Enters
<1> QED BY <1>2, <1>3 DEF InviteRequest, RedeemCode

LEMMA NextMemberSteps ==
  ASSUME TypeInv, [Next]_vars
  PROVE  MemberSteps
<1>1. CASE Next
  <2>1. SetupOK
    BY DEF TypeInv
  <2>2. CASE \E h \in Humans : \E e \in setup.emails[h] : SignIn(h, e)
    BY <2>2 DEF SignIn, MemberSteps
  <2>3. CASE \E h \in Humans, hd \in HumanHandles : ChooseHandle(h, hd)
    BY <2>3 DEF ChooseHandle, MemberSteps
  <2>4. CASE \E h \in Humans, e \in Emails, o \in Orgs, email \in Emails, r \in Role :
               CreateInvite(h, e, o, email, r)
    BY <2>4 DEF CreateInvite, MemberSteps
  <2>5. CASE \E h \in Humans : \E e \in setup.emails[h], i \in InviteIds :
               InviteRequest(h, e, i) \/ RedeemCode(h, e, i)
    BY <2>5, InviteRequestSteps DEF MemberSteps
  <2>6. CASE \E h \in Humans, e \in Emails, o \in Orgs : OrgKeyRequest(h, e, o)
    BY <2>6 DEF OrgKeyRequest, CreateOrgAccessKey, RevokeOrgAccessKey, MemberSteps
  <2>7. CASE AccessRequest \/ Elapse
    BY <2>7 DEF AccessRequest, UseKey, Elapse, MemberSteps
  <2> QED BY <1>1, <2>1, <2>2, <2>3, <2>4, <2>5, <2>6, <2>7, NextIsOneOf DEF MemberSteps
<1> QED BY <1>1 DEF vars, MemberSteps

(* Who has a role in an organization is a member of it by a record, so in  *)
(* one that is not there nobody has.                                       *)
LEMMA NoRolesWithoutOrg ==
  ASSUME MemberInv, NEW o \in Orgs, ~Live(o), NEW h \in Humans
  PROVE  RoleIn(o, h) = "none" /\ membershipOf[<<o, h>>] = Nil
<1>1. <<o, h>> \in Pairs
  BY DEF Pairs
<1>2. ASSUME membershipOf[<<o, h>>] # Nil
      PROVE  FALSE
  <2>1. PICK m \in MembershipIds : m = membershipOf[<<o, h>>] /\ memberships[m] # Nil
                                   /\ PairOf(m) = <<o, h>>
    BY <1>1, <1>2 DEF MemberInv, IndexLeadsBack, TypeInv, MemberOK
  <2>2. memberships[m].org = o
    BY <2>1 DEF PairOf
  <2> QED BY <2>1, <2>2 DEF MemberInv, OfLiveOrgs, OnlyLive, TypeInv, MemberOK
<1> QED BY <1>2 DEF RoleIn, Active

LEMMA CreateOrgEnters ==
  ASSUME MemberInv, NEW h \in Humans, NEW o \in Orgs, NEW hd \in OrgHandles, CreateOrg(h, o, hd)
  PROVE  Enters(o, h, "owner")
<1>1. ~Live(o)
  BY DEF CreateOrg, Live, NoOrg
<1> QED BY <1>1, NoRolesWithoutOrg DEF CreateOrg, Enters

(* What Enrol does to the records and the index, entry by entry.           *)
Enrolled(m, o, h, r) ==
  /\ memberships[m] = Nil /\ memberships'[m] # Nil
  /\ memberships'[m].org = o /\ memberships'[m].human = h
  /\ memberships'[m].role = r /\ memberships'[m].status = "active"
  /\ \A n \in MembershipIds \ {m} : memberships'[n] = memberships[n]
  /\ <<o, h>> \in Pairs /\ membershipOf'[<<o, h>>] = m
  /\ \A p \in Pairs \ {<<o, h>>} : membershipOf'[p] = membershipOf[p]

LEMMA EnrolRecords ==
  ASSUME MemberOK, NEW m \in MembershipIds, NEW o \in Orgs, NEW h \in Humans, NEW r \in Role,
         Enrol(m, o, h, r)
  PROVE  Enrolled(m, o, h, r)
<1> DEFINE rec == [org |-> o, human |-> h, role |-> r, status |-> "active"]
<1>1. /\ rec.org = o /\ rec.human = h /\ rec.role = r /\ rec.status = "active" /\ rec # Nil
  BY RecordsAssumption DEF Membership
<1>2. memberships' = [memberships EXCEPT ![m] = rec] /\ memberships[m] = Nil
      /\ membershipOf' = [membershipOf EXCEPT ![<<o, h>>] = m] /\ <<o, h>> \in Pairs
  BY DEF Enrol, Fresh, Pairs
<1> HIDE DEF rec
<1> QED BY <1>1, <1>2 DEF MemberOK, Enrolled

LEMMA EnrolIndex ==
  ASSUME MemberInv, NEW m \in MembershipIds, NEW o \in Orgs, NEW h \in Humans, NEW r \in Role,
         Enrol(m, o, h, r)
  PROVE  IndexLeadsBack' /\ EveryoneIsIndexed'
<1>1. Enrolled(m, o, h, r) /\ m # Nil /\ MemberOK
  BY EnrolRecords, NilAssumption DEF MemberInv, TypeInv, MembershipIds
<1>2. ASSUME NEW p \in Pairs, membershipOf'[p] # Nil
      PROVE  memberships'[membershipOf'[p]] # Nil /\ PairOf(membershipOf[p])' = p
  <2>1. CASE p = <<o, h>>
    BY <1>1, <2>1 DEF PairOf, Enrolled
  <2>2. CASE p # <<o, h>>
    <3>1. membershipOf'[p] = membershipOf[p]
      BY <1>1, <2>2 DEF Enrolled
    <3>2. PICK n \in MembershipIds : n = membershipOf[p] /\ memberships[n] # Nil /\ PairOf(n) = p
      BY <1>1, <1>2, <3>1 DEF MemberInv, IndexLeadsBack, MemberOK
    <3>3. memberships'[n] = memberships[n]
      BY <1>1, <3>2 DEF Enrolled
    <3> QED BY <3>1, <3>2, <3>3 DEF PairOf
  <2> QED BY <2>1, <2>2
<1>3. ASSUME NEW n \in MembershipIds, memberships'[n] # Nil
      PROVE  membershipOf'[PairOf(n)'] # Nil
  <2>1. CASE n = m
    BY <1>1, <2>1 DEF PairOf, Enrolled
  <2>2. CASE n # m
    <3>1. memberships[n] # Nil /\ memberships'[n] = memberships[n]
      BY <1>1, <1>3, <2>2 DEF Enrolled
    <3>2. PICK p \in Pairs : p = PairOf(n) /\ p = PairOf(n)'
      BY <1>1, <3>1 DEF PairOf, Pairs, MemberOK, Membership
    <3>3. membershipOf[p] # Nil
      BY <3>1, <3>2 DEF MemberInv, EveryoneIsIndexed
    <3> QED BY <1>1, <3>2, <3>3 DEF Enrolled
  <2> QED BY <2>1, <2>2
<1> QED BY <1>2, <1>3 DEF IndexLeadsBack, EveryoneIsIndexed

LEMMA EnterRoles ==
  ASSUME MemberInv, NEW o \in Orgs, NEW h \in Humans, NEW r \in Role, Enters(o, h, r)
  PROVE  \A q \in Orgs, g \in Humans :
           RoleIn(q, g)' = IF q = o /\ g = h THEN r ELSE RoleIn(q, g)
<1>1. PICK m \in MembershipIds : Enrol(m, o, h, r)
  BY DEF Enters
<1>2. Enrolled(m, o, h, r) /\ m # Nil /\ MemberOK
  BY <1>1, EnrolRecords, NilAssumption DEF MemberInv, TypeInv, MembershipIds
<1> TAKE q \in Orgs, g \in Humans
<1>3. CASE q = o /\ g = h
  BY <1>2, <1>3 DEF RoleIn, Active, Enrolled
<1>4. CASE ~(q = o /\ g = h)
  <2>1. PICK p \in Pairs : p = <<q, g>>
    BY DEF Pairs
  <2>2. p # <<o, h>>
    BY <1>4, <2>1
  <2>3. membershipOf'[p] = membershipOf[p]
    BY <1>2, <2>2 DEF Enrolled
  <2>4. CASE membershipOf[p] = Nil
    BY <1>4, <2>1, <2>3, <2>4 DEF RoleIn, Active
  <2>5. CASE membershipOf[p] # Nil
    <3>1. PICK n \in MembershipIds : n = membershipOf[p] /\ memberships[n] # Nil
      BY <1>2, <2>5 DEF MemberInv, IndexLeadsBack, MemberOK
    <3>2. memberships'[n] = memberships[n]
      BY <1>2, <3>1 DEF Enrolled
    <3> QED BY <1>4, <2>1, <2>3, <3>1, <3>2 DEF RoleIn, Active
  <2> QED BY <2>4, <2>5
<1> QED BY <1>3, <1>4

LEMMA RevokeRecords ==
  ASSUME MemberInv, NEW h \in Humans, NEW e, NEW o \in Orgs, NEW t \in Humans,
         RevokeMembership(h, e, o, t)
  PROVE  \E m \in MembershipIds :
           /\ memberships[m] # Nil /\ memberships[m].status = "active" /\ memberships'[m] # Nil
           /\ memberships[m].role # "owner" /\ memberships'[m].status = "revoked"
           /\ PairOf(m) = <<o, t>> /\ PairOf(m)' = <<o, t>>
           /\ \A n \in MembershipIds \ {m} : memberships'[n] = memberships[n]
           /\ membershipOf[<<o, t>>] = m /\ membershipOf' = membershipOf
           /\ removed' = removed \cup {<<o, t>>}
<1>1. <<o, t>> \in Pairs
  BY DEF Pairs
<1>2. PICK m \in MembershipIds : m = membershipOf[<<o, t>>] /\ PairOf(m) = <<o, t>>
  BY <1>1 DEF RevokeMembership, Active, MemberInv, IndexLeadsBack, TypeInv, MemberOK
<1>3. /\ memberships[m] \in Membership /\ memberships[m] # Nil
      /\ memberships[m].status = "active" /\ memberships[m].role # "owner"
      /\ memberships' = [memberships EXCEPT ![m].status = "revoked"]
      /\ membershipOf' = membershipOf /\ removed' = removed \cup {<<o, t>>}
  BY <1>2 DEF RevokeMembership, Active, MemberInv, TypeInv, MemberOK
<1>4. /\ memberships'[m].status = "revoked" /\ memberships'[m] \in Membership
      /\ memberships'[m].org = memberships[m].org /\ memberships'[m].human = memberships[m].human
      /\ \A n \in MembershipIds \ {m} : memberships'[n] = memberships[n]
  BY <1>3 DEF MemberInv, TypeInv, MemberOK, Membership
<1>5. memberships'[m] # Nil /\ PairOf(m)' = PairOf(m)
  BY <1>4, RecordsAssumption DEF PairOf
<1> QED BY <1>2, <1>3, <1>4, <1>5

LEMMA RevokeIndex ==
  ASSUME MemberInv, NEW h \in Humans, NEW e, NEW o \in Orgs, NEW t \in Humans,
         RevokeMembership(h, e, o, t)
  PROVE  IndexLeadsBack' /\ EveryoneIsIndexed'
<1>1. \A n \in MembershipIds : /\ memberships'[n] # Nil <=> memberships[n] # Nil
                               /\ memberships[n] # Nil => PairOf(n)' = PairOf(n)
  <2>1. PICK m \in MembershipIds :
             /\ memberships[m] # Nil /\ memberships'[m] # Nil /\ PairOf(m) = PairOf(m)'
             /\ \A n \in MembershipIds \ {m} : memberships'[n] = memberships[n]
    BY RevokeRecords
  <2> QED BY <2>1 DEF PairOf
<1>2. membershipOf' = membershipOf /\ membershipOf \in [Pairs -> MembershipIds \cup {Nil}]
  BY RevokeRecords DEF MemberInv, TypeInv, MemberOK
<1>3. IndexLeadsBack'
  BY <1>1, <1>2 DEF IndexLeadsBack, MemberInv
<1>4. EveryoneIsIndexed'
  BY <1>1, <1>2 DEF EveryoneIsIndexed, MemberInv
<1> QED BY <1>3, <1>4

LEMMA RevokeRoles ==
  ASSUME MemberInv, NEW h \in Humans, NEW e, NEW o \in Orgs, NEW t \in Humans,
         RevokeMembership(h, e, o, t)
  PROVE  /\ RoleIn(o, t) \in {"viewer", "member", "admin"}
         /\ \A q \in Orgs, g \in Humans :
              RoleIn(q, g)' = IF q = o /\ g = t THEN "none" ELSE RoleIn(q, g)
<1>1. PICK m \in MembershipIds :
           /\ memberships[m] # Nil /\ memberships[m].status = "active" /\ memberships'[m] # Nil
           /\ memberships[m].role # "owner" /\ memberships'[m].status = "revoked"
           /\ PairOf(m) = <<o, t>> /\ PairOf(m)' = <<o, t>>
           /\ \A n \in MembershipIds \ {m} : memberships'[n] = memberships[n]
           /\ membershipOf[<<o, t>>] = m /\ membershipOf' = membershipOf
  BY RevokeRecords
<1>2. m # Nil
  BY NilAssumption DEF MembershipIds
<1>3. RoleIn(o, t) \in {"viewer", "member", "admin"}
  <2>1. memberships[m].role \in Role
    BY <1>1 DEF MemberInv, TypeInv, MemberOK, Membership
  <2> QED BY <1>1, <1>2, <2>1, RoleTypes DEF RoleIn, Active
<1>4. ASSUME NEW q \in Orgs, NEW g \in Humans
      PROVE  RoleIn(q, g)' = IF q = o /\ g = t THEN "none" ELSE RoleIn(q, g)
  <2>1. CASE q = o /\ g = t
    BY <1>1, <2>1 DEF RoleIn, Active
  <2>2. CASE ~(q = o /\ g = t)
    <3>1. PICK p \in Pairs : p = <<q, g>>
      BY DEF Pairs
    <3>2. p # <<o, t>>
      BY <2>2, <3>1
    <3>3. membershipOf[p] # Nil => membershipOf[p] \in MembershipIds /\ membershipOf[p] # m
      BY <1>1, <3>1, <3>2 DEF MemberInv, IndexLeadsBack, TypeInv, MemberOK
    <3> QED BY <1>1, <2>2, <3>1, <3>3 DEF RoleIn, Active
  <2> QED BY <2>1, <2>2
<1> QED BY <1>3, <1>4

(* What DeleteOrg does to the records and the index, entry by entry.       *)
Emptied(o) ==
  /\ \A m \in MembershipIds : memberships'[m] =
       IF memberships[m] # Nil /\ memberships[m].org = o THEN Nil ELSE memberships[m]
  /\ \A p \in Pairs : membershipOf'[p] = IF p[1] = o THEN Nil ELSE membershipOf[p]

LEMMA DeleteRecords ==
  ASSUME MemberInv, NEW h \in Humans, NEW e, NEW o \in Orgs, DeleteOrg(h, e, o)
  PROVE  Emptied(o)
<1> DEFINE went == Of(memberships, o)
<1>1. /\ memberships' = Without(memberships, went)
      /\ membershipOf' = [p \in Pairs |->
           IF \E m \in went : p = <<o, memberships[m].human>> THEN Nil ELSE membershipOf[p]]
  BY DEF DeleteOrg
<1>2. \A m \in MembershipIds : m \in went <=> memberships[m] # Nil /\ memberships[m].org = o
  BY DEF Of, MemberInv, TypeInv, MemberOK
<1>3. went \subseteq MembershipIds
  BY DEF Of, MemberInv, TypeInv, MemberOK
<1> HIDE DEF went
<1>4. \A m \in MembershipIds : memberships'[m] = IF m \in went THEN Nil ELSE memberships[m]
  BY <1>1 DEF Without, MemberInv, TypeInv, MemberOK
<1>5. ASSUME NEW p \in Pairs
      PROVE  membershipOf'[p] = IF p[1] = o THEN Nil ELSE membershipOf[p]
  <2>1. CASE p[1] # o
    <3>1. ~\E m \in went : p = <<o, memberships[m].human>>
      BY <2>1
    <3> QED BY <1>1, <2>1, <3>1
  <2>2. CASE p[1] = o /\ membershipOf[p] = Nil
    BY <1>1, <2>2
  <2>3. CASE p[1] = o /\ membershipOf[p] # Nil
    <3>1. PICK m \in MembershipIds : m = membershipOf[p] /\ memberships[m] # Nil /\ PairOf(m) = p
      BY <2>3 DEF MemberInv, IndexLeadsBack, TypeInv, MemberOK
    <3>2. m \in went /\ p = <<o, memberships[m].human>>
      BY <1>2, <2>3, <3>1 DEF PairOf
    <3> QED BY <1>1, <2>3, <3>2
  <2> QED BY <2>1, <2>2, <2>3
<1> QED BY <1>2, <1>4, <1>5 DEF Emptied

LEMMA DeleteIndex ==
  ASSUME MemberInv, NEW h \in Humans, NEW e, NEW o \in Orgs, DeleteOrg(h, e, o)
  PROVE  IndexLeadsBack' /\ EveryoneIsIndexed'
<1>1. Emptied(o) /\ MemberOK
  BY DeleteRecords DEF MemberInv, TypeInv
<1>2. ASSUME NEW p \in Pairs, membershipOf'[p] # Nil
      PROVE  memberships'[membershipOf'[p]] # Nil /\ PairOf(membershipOf[p])' = p
  <2>1. p[1] # o /\ membershipOf'[p] = membershipOf[p]
    BY <1>1, <1>2 DEF Emptied
  <2>2. PICK m \in MembershipIds : m = membershipOf[p] /\ memberships[m] # Nil /\ PairOf(m) = p
    BY <1>1, <1>2, <2>1 DEF MemberInv, IndexLeadsBack, MemberOK
  <2>3. memberships[m].org # o
    BY <2>1, <2>2 DEF PairOf
  <2>4. memberships'[m] = memberships[m]
    BY <1>1, <2>2, <2>3 DEF Emptied
  <2> QED BY <2>1, <2>2, <2>4 DEF PairOf
<1>3. ASSUME NEW m \in MembershipIds, memberships'[m] # Nil
      PROVE  membershipOf'[PairOf(m)'] # Nil
  <2>1. memberships[m] # Nil /\ memberships'[m] = memberships[m] /\ memberships[m].org # o
    BY <1>1, <1>3 DEF Emptied
  <2>2. PairOf(m) \in Pairs /\ PairOf(m)' = PairOf(m) /\ PairOf(m)[1] # o
    <3>1. memberships[m].org \in Orgs /\ memberships[m].human \in Humans
      BY <1>1, <2>1 DEF MemberOK, Membership
    <3> QED BY <2>1, <3>1 DEF PairOf, Pairs
  <2>3. PICK p \in Pairs : p = PairOf(m) /\ p = PairOf(m)' /\ p[1] # o
    BY <2>2
  <2> QED BY <1>1, <2>1, <2>3 DEF Emptied, MemberInv, EveryoneIsIndexed
<1> QED BY <1>2, <1>3 DEF IndexLeadsBack, EveryoneIsIndexed

LEMMA DeleteRoles ==
  ASSUME MemberInv, NEW h \in Humans, NEW e, NEW o \in Orgs, DeleteOrg(h, e, o)
  PROVE  \A q \in Orgs, g \in Humans :
           RoleIn(q, g)' = IF q = o THEN "none" ELSE RoleIn(q, g)
<1>1. Emptied(o) /\ MemberOK
  BY DeleteRecords DEF MemberInv, TypeInv
<1> TAKE q \in Orgs, g \in Humans
<1>2. PICK p \in Pairs : p = <<q, g>> /\ p[1] = q
  <2>1. <<q, g>> \in Pairs /\ <<q, g>>[1] = q
    BY DEF Pairs
  <2> QED BY <2>1
<1>3. CASE q = o
  BY <1>1, <1>2, <1>3 DEF Emptied, RoleIn, Active
<1>4. CASE q # o
  <2>1. membershipOf'[p] = membershipOf[p]
    BY <1>1, <1>2, <1>4 DEF Emptied
  <2>2. CASE membershipOf[p] = Nil
    BY <1>2, <1>4, <2>1, <2>2 DEF RoleIn, Active
  <2>3. CASE membershipOf[p] # Nil
    <3>1. PICK m \in MembershipIds : m = membershipOf[p] /\ memberships[m] # Nil /\ PairOf(m) = p
      BY <1>1, <2>3 DEF MemberInv, IndexLeadsBack, MemberOK
    <3>2. memberships[m].org # o
      BY <1>2, <1>4, <3>1 DEF PairOf
    <3>3. memberships'[m] = memberships[m]
      BY <1>1, <3>1, <3>2 DEF Emptied
    <3> QED BY <1>2, <1>4, <2>1, <3>1, <3>3 DEF RoleIn, Active
  <2> QED BY <2>2, <2>3
<1> QED BY <1>3, <1>4

LEMMA RestartIndex ==
  ASSUME MemberInv, Restart
  PROVE  IndexLeadsBack' /\ EveryoneIsIndexed'
<1>1. PICK S \in SUBSET {m \in MembershipIds : memberships[m] # Nil} :
        OneOfEach(S) /\ RebuiltMemberships(S)
  BY DEF Restart
<1>2. memberships' = memberships
  BY DEF Restart
<1>3. ASSUME NEW p \in Pairs, membershipOf'[p] # Nil
      PROVE  memberships'[membershipOf'[p]] # Nil /\ PairOf(membershipOf[p])' = p
  <2>1. \E m \in S : PairOf(m) = p
    BY <1>1, <1>3 DEF RebuiltMemberships
  <2>2. membershipOf'[p] = CHOOSE m \in S : PairOf(m) = p
    BY <1>1, <2>1 DEF RebuiltMemberships
  <2>3. membershipOf'[p] \in S /\ PairOf(membershipOf'[p]) = p
    BY <2>1, <2>2
  <2> QED BY <1>2, <2>3 DEF PairOf
<1>4. ASSUME NEW m \in MembershipIds, memberships'[m] # Nil
      PROVE  membershipOf'[PairOf(m)'] # Nil
  <2>1. PICK p \in Pairs : p = PairOf(m) /\ p = PairOf(m)'
    BY <1>2, <1>4 DEF PairOf, Pairs, MemberInv, TypeInv, MemberOK, Membership
  <2>2. \E n \in S : PairOf(n) = p
    BY <1>1, <1>2, <1>4, <2>1 DEF OneOfEach
  <2>3. membershipOf'[p] \in S
    BY <1>1, <2>2 DEF RebuiltMemberships
  <2>4. membershipOf'[p] \in MembershipIds
    BY <2>3
  <2> QED BY <2>1, <2>4, NilAssumption DEF MembershipIds
<1> QED BY <1>3, <1>4 DEF IndexLeadsBack, EveryoneIsIndexed

LEMMA NextMemberInv ==
  ASSUME MemberInv, [Next]_vars
  PROVE  MemberInv'
<1>1. TypeInv' /\ OfLiveOrgs'
  BY NextTypes, NextOfLiveOrgs DEF MemberInv
<1>2. IndexLeadsBack' /\ EveryoneIsIndexed'
  <2>1. MemberSteps
    BY NextMemberSteps DEF MemberInv
  <2>2. CASE UNCHANGED <<setup, orgVars, memberVars>>
    BY <2>2 DEF memberVars, MemberInv, IndexLeadsBack, EveryoneIsIndexed, PairOf
  <2>3. ASSUME NEW o \in Orgs, NEW h \in Humans, NEW r \in Role, Enters(o, h, r)
        PROVE  IndexLeadsBack' /\ EveryoneIsIndexed'
    BY <2>3, EnrolIndex DEF Enters
  <2>4. CASE \E h \in Humans, o \in Orgs, hd \in OrgHandles : CreateOrg(h, o, hd)
    BY <2>3, <2>4, CreateOrgEnters, RoleTypes
  <2>5. ASSUME NEW h \in Humans, NEW i \in InviteIds, invites[i] # Nil,
               Enters(invites[i].org, h, invites[i].role)
        PROVE  IndexLeadsBack' /\ EveryoneIsIndexed'
    BY <2>3, <2>5 DEF MemberInv, TypeInv, InviteOK, Invite
  <2> QED BY <2>1, <2>2, <2>4, <2>5, RevokeIndex, DeleteIndex, RestartIndex DEF MemberSteps
<1> QED BY <1>1, <1>2 DEF MemberInv

LEMMA InitMemberInv == Init => MemberInv
<1> SUFFICES ASSUME Init PROVE MemberInv
  OBVIOUS
<1>1. OfLiveOrgs /\ IndexLeadsBack /\ EveryoneIsIndexed
  BY DEF Init, OfLiveOrgs, OnlyLive, IndexLeadsBack, EveryoneIsIndexed
<1> QED BY <1>1, InitTypes DEF MemberInv

(* Of an organization that was never made, or was deleted, the store has   *)
(* no membership, invite or key and no index entry (DeleteOrg).            *)
THEOREM GoneOrgsLeaveNothing == Spec => []NothingOfGoneOrgs
<1>1. MemberInv => NothingOfGoneOrgs
  <2> SUFFICES ASSUME MemberInv, NEW o \in Orgs, ~Live(o)
               PROVE  /\ Of(invites, o) \cup Of(memberships, o) \cup Of(keys, o) = {}
                      /\ \A h \in Humans : membershipOf[<<o, h>>] = Nil
    BY DEF NothingOfGoneOrgs
  <2>1. Of(invites, o) = {} /\ Of(memberships, o) = {} /\ Of(keys, o) = {}
    BY DEF Of, MemberInv, OfLiveOrgs, OnlyLive
  <2> QED BY <2>1, NoRolesWithoutOrg
<1> QED BY <1>1, InitMemberInv, NextMemberInv, PTL DEF Spec

-----------------------------------------------------------------------------
(* A hub that restarts rebuilds its index from the records, and of two     *)
(* memberships of a human in an organization any may then be the one it    *)
(* leads to: the hubs the rest is about do not restart, or nobody comes    *)
(* back to an organization he was removed from.                            *)
NobodyComesBack == setup.restarts => setup.stays <= 1

OneStayEach ==
  setup.restarts =>
    \A m, n \in MembershipIds :
      (memberships[m] # Nil /\ memberships[n] # Nil /\ PairOf(m) = PairOf(n)) => m = n

RoleInv == MemberInv /\ NobodyComesBack /\ OneStayEach /\ MembersHaveTheirRole

LEMMA RestartKeepsIndex ==
  ASSUME RoleInv, Restart
  PROVE  membershipOf' = membershipOf /\ memberships' = memberships
<1>1. PICK S \in SUBSET {m \in MembershipIds : memberships[m] # Nil} :
        OneOfEach(S) /\ RebuiltMemberships(S)
  BY DEF Restart
<1>2. memberships' = memberships /\ setup.restarts
  BY DEF Restart
<1>3. MemberOK /\ MemberOK'
  BY RestartTypes DEF RoleInv, MemberInv, TypeInv
<1>4. ASSUME NEW p \in Pairs
      PROVE  membershipOf'[p] = membershipOf[p]
  <2>1. CASE membershipOf[p] = Nil
    <3>1. \A m \in MembershipIds : memberships[m] # Nil => PairOf(m) # p
      BY <2>1 DEF RoleInv, MemberInv, EveryoneIsIndexed
    <3> QED BY <1>1, <2>1, <3>1 DEF RebuiltMemberships
  <2>2. CASE membershipOf[p] # Nil
    <3>1. PICK m \in MembershipIds : m = membershipOf[p] /\ memberships[m] # Nil /\ PairOf(m) = p
      BY <1>3, <2>2 DEF RoleInv, MemberInv, IndexLeadsBack, MemberOK
    <3>2. \E n \in S : PairOf(n) = p
      BY <1>1, <3>1 DEF OneOfEach
    <3>3. \A n \in S : PairOf(n) = p => n = m
      BY <1>2, <3>1 DEF RoleInv, OneStayEach
    <3>4. membershipOf'[p] = CHOOSE n \in S : PairOf(n) = p
      BY <1>1, <3>2 DEF RebuiltMemberships
    <3> QED BY <3>1, <3>2, <3>3, <3>4
  <2> QED BY <2>1, <2>2
<1>5. membershipOf' = membershipOf
  BY <1>3, <1>4 DEF MemberOK
<1> QED BY <1>2, <1>5

LEMMA RestartRoles ==
  ASSUME RoleInv, Restart
  PROVE  \A q \in Orgs, g \in Humans : RoleIn(q, g)' = RoleIn(q, g)
BY RestartKeepsIndex DEF RoleIn, Active

LEMMA FirstStay ==
  ASSUME RoleInv, setup.restarts, NEW o, NEW h, MayStayAgain(o, h),
         NEW m \in MembershipIds, memberships[m] # Nil
  PROVE  PairOf(m) # <<o, h>>
<1> DEFINE stays == {n \in Of(memberships, o) : memberships[n].human = h}
<1>1. stays \subseteq MembershipIds /\ IsFiniteSet(MembershipIds)
  BY FS_Interval, BoundsAssumption DEF Of, MembershipIds, RoleInv, MemberInv, TypeInv, MemberOK
<1>2. IsFiniteSet(stays)
  BY <1>1, FS_Subset
<1>3. Cardinality(stays) \in Nat /\ (Cardinality(stays) = 0 <=> stays = {})
  BY <1>2, FS_CardinalityType, FS_EmptySet
<1>4. Cardinality(stays) < setup.stays /\ setup.stays <= 1 /\ setup.stays \in Nat
  BY SetupsAssumption DEF MayStayAgain, RoleInv, NobodyComesBack, MemberInv, TypeInv, SetupOK, Setup
<1>5. stays = {}
  BY <1>3, <1>4
<1>6. memberships[m].org = o /\ memberships[m].human = h => m \in stays
  BY DEF Of, RoleInv, MemberInv, TypeInv, MemberOK
<1> QED BY <1>5, <1>6 DEF PairOf

LEMMA EnterFound ==
  ASSUME RoleInv, NEW o \in Orgs, NEW h \in Humans, NEW r \in Role, Enters(o, h, r),
         setup.restarts => \A m \in MembershipIds : memberships[m] # Nil => PairOf(m) # <<o, h>>
  PROVE  OneStayEach' /\ MembersHaveTheirRole'
<1>1. PICK m \in MembershipIds : Enrol(m, o, h, r)
  BY DEF Enters
<1>2. Enrolled(m, o, h, r) /\ MemberOK /\ setup' = setup
  BY <1>1, EnrolRecords DEF RoleInv, MemberInv, TypeInv, Enters
<1>3. \A n \in MembershipIds \ {m} :
        memberships'[n] = memberships[n] /\ PairOf(n)' = PairOf(n)
  BY <1>2 DEF Enrolled, PairOf
<1>4. PairOf(m)' = <<o, h>>
  BY <1>2 DEF Enrolled, PairOf
<1>5. OneStayEach'
  BY <1>2, <1>3, <1>4 DEF RoleInv, OneStayEach
<1>6. ASSUME NEW n \in MembershipIds, memberships'[n] # Nil, memberships'[n].status = "active"
      PROVE  membershipOf'[PairOf(n)'] = n
  <2>1. CASE n = m
    BY <1>2, <1>4, <2>1 DEF Enrolled
  <2>2. CASE n # m
    <3>1. memberships[n] # Nil /\ memberships[n].status = "active" /\ n # Nil
      BY <1>3, <1>6, <2>2, NilAssumption DEF MembershipIds
    <3>2. membershipOf[PairOf(n)] = n
      BY <3>1 DEF RoleInv, MembersHaveTheirRole, Active
    <3>3. PairOf(n) # <<o, h>>
      <4>1. memberships[n].role \in Role
        BY <1>2, <3>1 DEF MemberOK, Membership
      <4> QED BY <3>1, <3>2, <4>1, RoleTypes DEF Enters, RoleIn, Active
    <3>4. PairOf(n) \in Pairs
      <4>1. memberships[n].org \in Orgs /\ memberships[n].human \in Humans
        BY <1>2, <3>1 DEF MemberOK, Membership
      <4> QED BY <4>1 DEF PairOf, Pairs
    <3> QED BY <1>2, <1>3, <2>2, <3>2, <3>3, <3>4 DEF Enrolled
  <2> QED BY <2>1, <2>2
<1>7. MembersHaveTheirRole'
  BY <1>6 DEF MembersHaveTheirRole, Active
<1> QED BY <1>5, <1>7

LEMMA RevokeFound ==
  ASSUME RoleInv, NEW h \in Humans, NEW e, NEW o \in Orgs, NEW t \in Humans,
         RevokeMembership(h, e, o, t)
  PROVE  OneStayEach' /\ MembersHaveTheirRole'
<1>1. PICK m \in MembershipIds :
         /\ memberships[m] # Nil /\ memberships'[m].status = "revoked"
         /\ PairOf(m)' = PairOf(m)
         /\ \A n \in MembershipIds \ {m} : memberships'[n] = memberships[n]
  BY RevokeRecords DEF RoleInv
<1>2. \A n \in MembershipIds \ {m} : PairOf(n)' = PairOf(n)
  BY <1>1 DEF PairOf
<1>3. setup' = setup /\ membershipOf' = membershipOf
  BY DEF RevokeMembership
<1>4. OneStayEach'
  <2>1. \A n \in MembershipIds : /\ memberships'[n] # Nil => memberships[n] # Nil
                                 /\ PairOf(n)' = PairOf(n)
    BY <1>1, <1>2
  <2> QED BY <1>3, <2>1 DEF RoleInv, OneStayEach
<1>5. MembersHaveTheirRole'
  <2>1. \A n \in MembershipIds : Active(n)' => Active(n) /\ PairOf(n)' = PairOf(n)
    BY <1>1, <1>2 DEF Active
  <2> QED BY <1>3, <2>1 DEF RoleInv, MembersHaveTheirRole
<1> QED BY <1>4, <1>5

LEMMA DeleteFound ==
  ASSUME RoleInv, NEW h \in Humans, NEW e, NEW o \in Orgs, DeleteOrg(h, e, o)
  PROVE  OneStayEach' /\ MembersHaveTheirRole'
<1>1. Emptied(o) /\ MemberOK /\ setup' = setup
  BY DeleteRecords DEF RoleInv, MemberInv, TypeInv, DeleteOrg
<1>2. \A n \in MembershipIds : memberships'[n] # Nil =>
        /\ memberships[n] # Nil /\ memberships'[n] = memberships[n]
        /\ memberships[n].org # o /\ PairOf(n)' = PairOf(n)
  BY <1>1 DEF Emptied, PairOf
<1>3. OneStayEach'
  BY <1>1, <1>2 DEF RoleInv, OneStayEach
<1>4. ASSUME NEW n \in MembershipIds, Active(n)'
      PROVE  membershipOf'[PairOf(n)'] = n
  <2>1. /\ Active(n) /\ memberships[n] # Nil /\ memberships[n].org # o
        /\ PairOf(n)' = PairOf(n)
    BY <1>2, <1>4 DEF Active
  <2>2. membershipOf[PairOf(n)] = n
    BY <2>1 DEF RoleInv, MembersHaveTheirRole
  <2>3. PairOf(n) \in Pairs /\ PairOf(n)[1] # o
    <3>1. memberships[n].org \in Orgs /\ memberships[n].human \in Humans
      BY <1>1, <2>1 DEF MemberOK, Membership
    <3> QED BY <2>1, <3>1 DEF PairOf, Pairs
  <2> QED BY <1>1, <2>1, <2>2, <2>3 DEF Emptied
<1>5. MembersHaveTheirRole'
  BY <1>4 DEF MembersHaveTheirRole
<1> QED BY <1>3, <1>5

LEMMA AcceptFound ==
  ASSUME RoleInv, NEW h \in Humans, NEW i \in InviteIds, invites[i] # Nil,
         MayStayAgain(invites[i].org, h), Enters(invites[i].org, h, invites[i].role)
  PROVE  OneStayEach' /\ MembersHaveTheirRole'
<1>1. invites[i].org \in Orgs /\ invites[i].role \in Role
  BY DEF RoleInv, MemberInv, TypeInv, InviteOK, Invite
<1> QED BY <1>1, FirstStay, EnterFound

LEMMA CreateOrgFound ==
  ASSUME RoleInv, NEW h \in Humans, NEW o \in Orgs, NEW hd \in OrgHandles, CreateOrg(h, o, hd)
  PROVE  OneStayEach' /\ MembersHaveTheirRole'
<1>1. Enters(o, h, "owner") /\ "owner" \in Role
  BY CreateOrgEnters, RoleTypes DEF RoleInv
<1>2. ~Live(o)
  BY DEF CreateOrg, Live, NoOrg
<1>3. \A m \in MembershipIds : memberships[m] # Nil => PairOf(m) # <<o, h>>
  BY <1>2 DEF PairOf, RoleInv, MemberInv, OfLiveOrgs, OnlyLive, TypeInv, MemberOK
<1> QED BY <1>1, <1>3, EnterFound

LEMMA NextRoleInv ==
  ASSUME RoleInv, [Next]_vars
  PROVE  RoleInv' /\ MemberSteps
<1>1. MemberSteps /\ MemberInv'
  BY NextMemberSteps, NextMemberInv DEF RoleInv, MemberInv
<1>2. setup' = setup
  BY <1>1 DEF MemberSteps, CreateOrg, Enters, RevokeMembership, DeleteOrg, Restart
<1>3. NobodyComesBack'
  BY <1>2 DEF RoleInv, NobodyComesBack
<1>4. ASSUME membershipOf' = membershipOf, memberships' = memberships
      PROVE  OneStayEach' /\ MembersHaveTheirRole'
  BY <1>2, <1>4 DEF RoleInv, OneStayEach, MembersHaveTheirRole, PairOf, Active
<1>5. OneStayEach' /\ MembersHaveTheirRole'
  BY <1>1, <1>4, CreateOrgFound, AcceptFound, RevokeFound, DeleteFound, RestartKeepsIndex
     DEF MemberSteps, memberVars
<1> QED BY <1>1, <1>3, <1>5 DEF RoleInv

LEMMA InitRoleInv == Init /\ NobodyComesBack => RoleInv
<1> SUFFICES ASSUME Init, NobodyComesBack PROVE RoleInv
  OBVIOUS
<1>1. OneStayEach /\ MembersHaveTheirRole
  BY DEF Init, OneStayEach, MembersHaveTheirRole, Active
<1> QED BY <1>1, InitMemberInv DEF RoleInv

(* Of a hub that does not restart, and of one that does as long as nobody  *)
(* joins an organization a second time, the index leads to every active    *)
(* membership, so that whoever is listed as a member has his role          *)
(* (membershipByOrgUser).                                                  *)
THEOREM MembersAreFound == Spec /\ NobodyComesBack => []MembersHaveTheirRole
<1>1. RoleInv => MembersHaveTheirRole
  BY DEF RoleInv
<1> QED BY <1>1, InitRoleInv, NextRoleInv, PTL DEF Spec

-----------------------------------------------------------------------------
(* What the store does to roles is what OrgDirectory does, step by step.   *)

LEMMA PairParts ==
  ASSUME NEW p \in Pairs
  PROVE  p[1] \in Orgs /\ p[2] \in Humans /\ p = <<p[1], p[2]>>
BY DEF Pairs

LEMMA EnterIsOneRole ==
  ASSUME MemberInv, NEW o \in Orgs, NEW h \in Humans, NEW r \in Role, Enters(o, h, r)
  PROVE  [p \in Pairs |-> RoleIn(p[1], p[2])]' =
           [[p \in Pairs |-> RoleIn(p[1], p[2])] EXCEPT ![<<o, h>>] = r]
<1>1. ASSUME NEW p \in Pairs
      PROVE  RoleIn(p[1], p[2])' = IF p = <<o, h>> THEN r ELSE RoleIn(p[1], p[2])
  BY PairParts, EnterRoles
<1> QED BY <1>1

LEMMA RevokeIsOneRole ==
  ASSUME MemberInv, NEW h \in Humans, NEW e, NEW o \in Orgs, NEW t \in Humans,
         RevokeMembership(h, e, o, t)
  PROVE  [p \in Pairs |-> RoleIn(p[1], p[2])]' =
           [[p \in Pairs |-> RoleIn(p[1], p[2])] EXCEPT ![<<o, t>>] = "none"]
<1>1. ASSUME NEW p \in Pairs
      PROVE  RoleIn(p[1], p[2])' = IF p = <<o, t>> THEN "none" ELSE RoleIn(p[1], p[2])
  BY PairParts, RevokeRoles
<1> QED BY <1>1

LEMMA DeleteIsAllRoles ==
  ASSUME MemberInv, NEW h \in Humans, NEW e, NEW o \in Orgs, DeleteOrg(h, e, o)
  PROVE  [p \in Pairs |-> RoleIn(p[1], p[2])]' =
           [p \in Pairs |-> IF p[1] = o THEN "none"
                            ELSE [q \in Pairs |-> RoleIn(q[1], q[2])][p]]
<1>1. ASSUME NEW p \in Pairs
      PROVE  RoleIn(p[1], p[2])' = IF p[1] = o THEN "none" ELSE RoleIn(p[1], p[2])
  BY PairParts, DeleteRoles
<1> QED BY <1>1

LEMMA CreateOrgMaps ==
  ASSUME MemberInv, NEW h \in Humans, NEW o \in Orgs, NEW hd \in OrgHandles, CreateOrg(h, o, hd)
  PROVE  Directory!Create(o, h)
<1>1. Enters(o, h, "owner") /\ "owner" \in Role
  BY CreateOrgEnters, RoleTypes
<1> DEFINE rec == [status |-> "live", handle |-> hd]
<1>2. rec.status = "live" /\ orgs' = [orgs EXCEPT ![o] = rec] /\ orgs[o].status = "none"
  BY DEF CreateOrg, NoOrg
<1> HIDE DEF rec
<1>3. [q \in Orgs |-> orgs[q].status]' = [[q \in Orgs |-> orgs[q].status] EXCEPT ![o] = "live"]
  BY <1>2 DEF MemberInv, TypeInv, OrgOK
<1> QED BY <1>1, <1>2, <1>3, EnterIsOneRole DEF Directory!Create

LEMMA AcceptMaps ==
  ASSUME MemberInv, NEW h \in Humans, NEW e, NEW i \in InviteIds, invites[i] # Nil,
         AcceptInvite(i, h, e), Enters(invites[i].org, h, invites[i].role)
  PROVE  Directory!Join(invites[i].org, h, invites[i].role)
<1>1. PICK o \in Orgs, r \in Directory!Invited : o = invites[i].org /\ r = invites[i].role
  <2>1. invites[i].org \in Orgs /\ invites[i].role \in Role \ {"owner"}
    BY DEF MemberInv, TypeInv, InviteOK, Invite
  <2> QED BY <2>1, RoleTypes DEF Directory!Invited
<1>2. Enters(o, h, r) /\ r \in Role /\ RoleIn(o, h) = "none" /\ <<o, h>> \in Pairs
  BY <1>1, RoleTypes DEF Enters, Directory!Invited, Pairs
<1>3. orgs[o].status = "live" /\ orgs' = orgs
  BY <1>1 DEF MemberInv, OfLiveOrgs, OnlyLive, TypeInv, InviteOK, Live,
              AcceptInvite, Finish, orgVars
<1> QED BY <1>1, <1>2, <1>3, EnterIsOneRole DEF Directory!Join

LEMMA RevokeMaps ==
  ASSUME MemberInv, NEW h \in Humans, NEW e, NEW o \in Orgs, NEW t \in Humans,
         RevokeMembership(h, e, o, t)
  PROVE  Directory!Leave(o, t)
<1>1. orgs' = orgs /\ <<o, t>> \in Pairs
  BY DEF RevokeMembership, orgVars, Pairs
<1>2. RoleIn(o, t) \in {"viewer", "member", "admin"}
  BY RevokeRoles
<1> QED BY <1>1, <1>2, RevokeIsOneRole DEF Directory!Leave, Directory!Invited

LEMMA DeleteMaps ==
  ASSUME MemberInv, NEW h \in Humans, NEW e, NEW o \in Orgs, DeleteOrg(h, e, o)
  PROVE  Directory!Delete(o)
<1>1. orgs' = [orgs EXCEPT ![o].status = "archived"] /\ orgs[o].status = "live"
  BY DEF DeleteOrg, Live
<1>2. [q \in Orgs |-> orgs[q].status]' =
        [[q \in Orgs |-> orgs[q].status] EXCEPT ![o] = "archived"]
  BY <1>1 DEF MemberInv, TypeInv, OrgOK, Org
<1> QED BY <1>1, <1>2, DeleteIsAllRoles DEF Directory!Delete, Pairs

LEMMA StepMaps ==
  ASSUME RoleInv, MemberSteps
  PROVE  [Directory!Next]_Directory!vars
<1>1. MemberInv
  BY DEF RoleInv
<1>2. CASE UNCHANGED <<setup, orgVars, memberVars>>
  BY <1>2 DEF orgVars, memberVars, Directory!vars, RoleIn, Active
<1>3. CASE \E h \in Humans, o \in Orgs, hd \in OrgHandles : CreateOrg(h, o, hd)
  BY <1>1, <1>3, CreateOrgMaps DEF Directory!Next
<1>4. ASSUME NEW h \in Humans, NEW i \in InviteIds, NEW e, invites[i] # Nil,
             AcceptInvite(i, h, e), Enters(invites[i].org, h, invites[i].role)
      PROVE  Directory!Next
  <2>1. Directory!Join(invites[i].org, h, invites[i].role)
    BY <1>1, <1>4, AcceptMaps
  <2>2. invites[i].org \in Orgs /\ invites[i].role \in Role \ {"owner"}
    BY <1>1, <1>4 DEF MemberInv, TypeInv, InviteOK, Invite
  <2> QED BY <2>1, <2>2, RoleTypes DEF Directory!Next, Directory!Invited
<1>5. CASE \E h \in Humans, e \in Emails, o \in Orgs, t \in Humans : RevokeMembership(h, e, o, t)
  BY <1>1, <1>5, RevokeMaps DEF Directory!Next
<1>6. CASE \E h \in Humans, e \in Emails, o \in Orgs : DeleteOrg(h, e, o)
  BY <1>1, <1>6, DeleteMaps DEF Directory!Next
<1>7. CASE Restart
  <2>1. membershipOf' = membershipOf /\ memberships' = memberships /\ orgs' = orgs
    BY <1>7, RestartKeepsIndex DEF Restart
  <2> QED BY <2>1 DEF Directory!vars, RoleIn, Active
<1> QED BY <1>2, <1>3, <1>4, <1>5, <1>6, <1>7 DEF MemberSteps

(* Of such a hub, the records, the index and the restarts of the store     *)
(* implement OrgDirectory: a role comes with an organization or with an    *)
(* invite, is kept until it is taken away, and goes with the organization  *)
(* (CreateOrg, acceptInviteLocked, RevokeMembership, DeleteOrg).           *)
THEOREM StoreIsADirectory == Spec /\ NobodyComesBack => IsADirectory
<1>1. Init => Directory!Init
  <2> SUFFICES ASSUME Init PROVE Directory!Init
    OBVIOUS
  <2>1. \A o \in Orgs : orgs[o].status = "none"
    BY DEF Init, NoOrg
  <2>2. \A p \in Pairs : RoleIn(p[1], p[2]) = "none"
    BY PairParts DEF Init, RoleIn, Active
  <2> QED BY <2>1, <2>2 DEF Directory!Init, Pairs
<1> QED BY <1>1, InitRoleInv, NextRoleInv, StepMaps, PTL DEF Spec, IsADirectory, Directory!Spec

LEMMA StepJoins ==
  ASSUME RoleInv, MemberSteps, NEW q \in Orgs, NEW g \in Humans,
         Live(q), RoleIn(q, g) = "none", RoleIn(q, g)' # "none"
  PROVE  \E i \in InviteIds : Lets(i, q, g)
<1>1. MemberInv
  BY DEF RoleInv
<1>2. CASE UNCHANGED <<setup, orgVars, memberVars>>
  BY <1>2 DEF memberVars, RoleIn, Active
<1>3. ASSUME NEW h \in Humans, NEW o \in Orgs, NEW hd \in OrgHandles, CreateOrg(h, o, hd)
      PROVE  FALSE
  <2>1. Enters(o, h, "owner")
    BY <1>1, <1>3, CreateOrgEnters
  <2>2. orgs[o].status = "none"
    BY <1>3 DEF CreateOrg, NoOrg
  <2> QED BY <1>1, <2>1, <2>2, EnterRoles, RoleTypes DEF Live
<1>4. ASSUME NEW h \in Humans, NEW i \in InviteIds, NEW e \in setup.emails[h], invites[i] # Nil,
             AcceptInvite(i, h, e), Enters(invites[i].org, h, invites[i].role)
      PROVE  Lets(i, q, g)
  <2>1. PICK o \in Orgs, r \in Role : o = invites[i].org /\ r = invites[i].role
    BY <1>1, <1>4 DEF MemberInv, TypeInv, InviteOK, Invite
  <2>2. q = o /\ g = h /\ RoleIn(q, g)' = r
    BY <1>1, <1>4, <2>1, EnterRoles
  <2>3. invites[i].email = e /\ Status(i) = "pending"
    BY <1>4 DEF AcceptInvite
  <2>4. invites' = [invites EXCEPT ![i].status = "active"] /\ invites[i] \in Invite
    BY <1>1, <1>4 DEF AcceptInvite, Finish, MemberInv, TypeInv, InviteOK
  <2>5. invites'[i].status = "active"
    BY <1>1, <2>4 DEF MemberInv, TypeInv, InviteOK, Invite
  <2> QED BY <1>4, <2>1, <2>2, <2>3, <2>5 DEF Lets
<1>5. CASE \E h \in Humans, e \in Emails, o \in Orgs, t \in Humans : RevokeMembership(h, e, o, t)
  BY <1>1, <1>5, RevokeRoles
<1>6. CASE \E h \in Humans, e \in Emails, o \in Orgs : DeleteOrg(h, e, o)
  BY <1>1, <1>6, DeleteRoles
<1>7. CASE Restart
  BY <1>7, RestartRoles
<1> QED BY <1>2, <1>3, <1>4, <1>5, <1>6, <1>7 DEF MemberSteps

(* Of such a hub, whoever comes into an organization that lives has used   *)
(* up an invite that was pending, for his address, that organization and   *)
(* the role he gets (acceptInviteLocked, RevokeInvite).                    *)
THEOREM InvitesLetIn == Spec /\ NobodyComesBack => JoinsNeedAnInvite
<1>1. RoleInv /\ [Next]_vars =>
        [\A o \in Orgs, h \in Humans :
           (Live(o) /\ RoleIn(o, h) = "none" /\ RoleIn(o, h)' # "none")
             => \E i \in InviteIds : Lets(i, o, h)]_vars
  BY NextRoleInv, StepJoins
<1> QED BY <1>1, InitRoleInv, NextRoleInv, PTL DEF Spec, JoinsNeedAnInvite

LEMMA NextStayOut ==
  ASSUME RoleInv, RoleInv', MemberSteps, RevokedStayOut
  PROVE  RevokedStayOut'
<1>1. MemberInv /\ removed \subseteq Pairs /\ removed' \subseteq Pairs
  BY DEF RoleInv, MemberInv, TypeInv, MemberOK
<1> SUFFICES ASSUME NEW p \in removed', p \in Pairs
             PROVE  RoleIn(p[1], p[2])' = "none"
  BY <1>1 DEF RevokedStayOut
<1>2. p[1] \in Orgs /\ p[2] \in Humans /\ p = <<p[1], p[2]>>
  BY PairParts
<1>3. CASE UNCHANGED <<setup, orgVars, memberVars>>
  BY <1>3 DEF memberVars, RevokedStayOut, RoleIn, Active
<1>4. ASSUME NEW o \in Orgs, NEW h \in Humans, NEW r \in Role, Enters(o, h, r)
      PROVE  RoleIn(p[1], p[2])' = "none"
  <2>1. p \in removed /\ p # <<o, h>>
    BY <1>4 DEF Enters, Enrol
  <2> QED BY <1>1, <1>2, <1>4, <2>1, EnterRoles DEF RevokedStayOut
<1>5. CASE \E h \in Humans, o \in Orgs, hd \in OrgHandles : CreateOrg(h, o, hd)
  BY <1>1, <1>4, <1>5, CreateOrgEnters, RoleTypes
<1>6. ASSUME NEW h \in Humans, NEW i \in InviteIds, invites[i] # Nil,
             Enters(invites[i].org, h, invites[i].role)
      PROVE  RoleIn(p[1], p[2])' = "none"
  BY <1>1, <1>4, <1>6 DEF MemberInv, TypeInv, InviteOK, Invite
<1>7. ASSUME NEW h \in Humans, NEW e \in Emails, NEW o \in Orgs, NEW t \in Humans,
             RevokeMembership(h, e, o, t)
      PROVE  RoleIn(p[1], p[2])' = "none"
  <2>1. p \in removed \/ p = <<o, t>>
    BY <1>7 DEF RevokeMembership
  <2> QED BY <1>1, <1>2, <1>7, <2>1, RevokeRoles DEF RevokedStayOut
<1>8. ASSUME NEW h \in Humans, NEW e \in Emails, NEW o \in Orgs, DeleteOrg(h, e, o)
      PROVE  RoleIn(p[1], p[2])' = "none"
  <2>1. p \in removed
    BY <1>8 DEF DeleteOrg
  <2> QED BY <1>1, <1>2, <1>8, <2>1, DeleteRoles DEF RevokedStayOut
<1>9. CASE Restart
  <2>1. p \in removed
    BY <1>9 DEF Restart
  <2> QED BY <1>2, <1>9, <2>1, RestartRoles DEF RevokedStayOut
<1> QED BY <1>3, <1>5, <1>6, <1>7, <1>8, <1>9 DEF MemberSteps

(* Of such a hub, who was removed has no role until an invite lets him in  *)
(* again; it is what a restart may undo in the others (RevokeMembership).  *)
THEOREM RemovedStayOut == Spec /\ NobodyComesBack => []RevokedStayOut
<1>1. Init => RevokedStayOut
  BY DEF Init, RevokedStayOut
<1> QED BY <1>1, InitRoleInv, NextRoleInv, NextStayOut, PTL DEF Spec

-----------------------------------------------------------------------------
(* Handles of humans, and the open invites of an address.                  *)

LEMMA InitHandles == Init => HandlesAreTheirs
<1> SUFFICES ASSUME Init, NEW hd \in HumanHandles, NEW h \in Humans
             PROVE  humanByHandle[hd] = h <=> humans[h].handle = hd
  BY DEF HandlesAreTheirs
<1>1. Nil \notin Humans /\ Nil \notin HumanHandles
  BY NilAssumption
<1>2. setup \in Setups /\ \A g \in setup.onboarded : g \in Humans
  BY SetupsAssumption DEF Init, Setup
<1>3. \A f, g \in setup.onboarded : setup.base[f] = setup.base[g] => f = g
  BY <1>2, SetupsAssumption
<1>4. humans[h].handle = IF h \in setup.onboarded THEN setup.base[h] ELSE Nil
  BY DEF Init, NoHuman
<1>5. CASE \E g \in setup.onboarded : setup.base[g] = hd
  <2>1. PICK g \in setup.onboarded : setup.base[g] = hd
    BY <1>5
  <2>2. humanByHandle[hd] = CHOOSE f \in setup.onboarded : setup.base[f] = hd
    BY <1>5 DEF Init
  <2>3. humanByHandle[hd] = g
    BY <1>3, <2>1, <2>2
  <2> QED BY <1>1, <1>3, <1>4, <2>1, <2>3
<1>6. CASE ~\E g \in setup.onboarded : setup.base[g] = hd
  <2>1. humanByHandle[hd] = Nil
    BY <1>6 DEF Init
  <2> QED BY <1>1, <1>4, <1>6, <2>1
<1> QED BY <1>5, <1>6

LEMMA NextHandles ==
  ASSUME TypeInv, HandlesAreTheirs, [Next]_vars
  PROVE  HandlesAreTheirs'
<1>1. Nil \notin Humans /\ Nil \notin HumanHandles
  BY NilAssumption
<1>2. ASSUME UNCHANGED humanVars
      PROVE  HandlesAreTheirs'
  BY <1>2 DEF humanVars, HandlesAreTheirs
<1>3. ASSUME NEW h \in Humans, NEW e \in setup.emails[h], SignIn(h, e)
      PROVE  HandlesAreTheirs'
  <2>1. ASSUME humans[h] = NoHuman, NEW hd \in HumanHandles, Claimable(h, hd),
               humans' = [humans EXCEPT ![h] = [status |-> "new", email |-> e, handle |-> hd]],
               humanByHandle' = [humanByHandle EXCEPT ![hd] = h]
        PROVE  HandlesAreTheirs'
    <3> DEFINE rec == [status |-> "new", email |-> e, handle |-> hd]
    <3>1. rec.handle = hd /\ humans' = [humans EXCEPT ![h] = rec]
          /\ humans[h].handle = Nil /\ humanByHandle[hd] = Nil
      BY <2>1 DEF NoHuman, Claimable
    <3> HIDE DEF rec
    <3> QED BY <1>1, <2>1, <3>1 DEF TypeInv, HumanOK, HandlesAreTheirs
  <2>2. ASSUME humans' = [humans EXCEPT ![h].email = e], humanByHandle' = humanByHandle
        PROVE  HandlesAreTheirs'
    <3>1. \A g \in Humans : humans'[g].handle = humans[g].handle
      BY <2>2 DEF TypeInv, HumanOK, Human
    <3> QED BY <2>2, <3>1 DEF HandlesAreTheirs
  <2> QED BY <1>3, <2>1, <2>2 DEF SignIn
<1>4. ASSUME NEW h \in Humans, NEW hd \in HumanHandles, ChooseHandle(h, hd)
      PROVE  HandlesAreTheirs'
  <2>1. \A g \in Humans : humans'[g].handle = IF g = h THEN hd ELSE humans[g].handle
    BY <1>4 DEF ChooseHandle, TypeInv, HumanOK, Human
  <2>2. \A x \in HumanHandles : humanByHandle'[x] =
          IF x = hd THEN h ELSE IF x = humans[h].handle THEN Nil ELSE humanByHandle[x]
    BY <1>4 DEF ChooseHandle, TypeInv, HumanOK
  <2>3. humanByHandle[hd] \in {h, Nil}
    BY <1>4 DEF ChooseHandle
  <2> QED BY <1>1, <2>1, <2>2, <2>3 DEF HandlesAreTheirs
<1>5. CASE Restart
  <2>1. humans' = humans
    BY <1>5 DEF Restart
  <2>2. \A hd \in HumanHandles, g, h \in Humans :
          humans[g].handle = hd /\ humans[h].handle = hd => g = h
    BY DEF HandlesAreTheirs
  <2>3. ASSUME NEW hd \in HumanHandles, NEW h \in Humans
        PROVE  humanByHandle'[hd] = h <=> humans[h].handle = hd
    <3>1. CASE \E g \in Humans : humans[g].handle = hd
      <4>1. humanByHandle'[hd] = CHOOSE g \in Humans : humans[g].handle = hd
        BY <1>5, <3>1 DEF Restart, RebuiltHumans
      <4> QED BY <2>2, <3>1, <4>1
    <3>2. CASE ~\E g \in Humans : humans[g].handle = hd
      BY <1>1, <1>5, <3>2 DEF Restart, RebuiltHumans
    <3> QED BY <3>1, <3>2
  <2> QED BY <2>1, <2>3 DEF HandlesAreTheirs
<1>6. CASE Next
  <2>1. SetupOK
    BY DEF TypeInv
  <2>2. CASE \E h \in Humans, o \in Orgs, hd \in OrgHandles : CreateOrg(h, o, hd)
    BY <1>2, <2>2 DEF CreateOrg
  <2>3. CASE \E h \in Humans, e \in Emails, o \in Orgs : DeleteOrg(h, e, o)
    BY <1>2, <2>3 DEF DeleteOrg
  <2>4. CASE \E h \in Humans, e \in Emails, o \in Orgs, email \in Emails, r \in Role :
               CreateInvite(h, e, o, email, r)
    BY <1>2, <2>4 DEF CreateInvite
  <2>5. CASE \E h \in Humans : \E e \in setup.emails[h], i \in InviteIds :
               InviteRequest(h, e, i) \/ RedeemCode(h, e, i)
    BY <1>2, <2>5 DEF InviteRequest, RedeemCode, ExpireInvite, AcceptInvite, RevokeInvite, Finish
  <2>6. CASE \E h \in Humans, e \in Emails, o \in Orgs, t \in Humans : RevokeMembership(h, e, o, t)
    BY <1>2, <2>6 DEF RevokeMembership
  <2>7. CASE \E h \in Humans, e \in Emails, o \in Orgs : OrgKeyRequest(h, e, o)
    BY <1>2, <2>7 DEF OrgKeyRequest, CreateOrgAccessKey, RevokeOrgAccessKey
  <2>8. CASE AccessRequest \/ Elapse
    BY <1>2, <2>8 DEF AccessRequest, UseKey, Elapse
  <2> QED BY <1>3, <1>4, <1>5, <1>6, <2>1, <2>2, <2>3, <2>4, <2>5, <2>6, <2>7, <2>8, NextIsOneOf
<1> QED BY <1>2, <1>6 DEF vars

(* A handle leads to the human who has it and to nobody else, whatever     *)
(* names humans choose and however often the index is rebuilt              *)
(* (claimUniqueHumanHandleLocked, UpdateHumanProfile).                     *)
THEOREM HandlesStayTheirs == Spec => []HandlesAreTheirs
<1> QED BY InitTypes, NextTypes, InitHandles, NextHandles, PTL DEF Spec

=============================================================================
