---------------------------- MODULE MCMembership ----------------------------
(* The hubs that TLC looks at, one per initial state. *)
EXTENDS Membership, TLC

CONSTANTS ann, bob, cid, annMail, bobMail, cidMail, rootMail,
          annName, bobName, newName, o1, o2, acme, beta, listHumans, listAgents

ThreeHumans == {ann, bob, cid}
TwoOrgs     == {o1, o2}
TwoHandles  == {acme, beta}
ThreeNames  == {annName, bobName, newName}
FourEmails  == {annMail, bobMail, cidMail, rootMail}
JustRoot    == {rootMail}
TwoScopes   == {listHumans, listAgents}

(* Bob changes his address, to one that Cid presents too.                  *)
SharedMail ==
  [h \in Humans |-> CASE h = ann -> {annMail} [] h = bob -> {bobMail, cidMail}
                      [] OTHER -> {cidMail}]

(* Ann is a super administrator when she presents one of her addresses;    *)
(* Cid does not sign in.                                                   *)
RootMail ==
  [h \in Humans |-> CASE h = ann -> {annMail, rootMail} [] h = bob -> {bobMail}
                      [] OTHER -> {}]

OwnMail == [RootMail EXCEPT ![ann] = {annMail}]

OwnName  == [h \in Humans |-> CASE h = ann -> annName [] h = bob -> bobName
                                [] OTHER -> newName]
SameName == [h \in Humans |-> annName]

(* Members are invited, join, are revoked and invited again. *)
Members == [base |-> OwnName, emails |-> SharedMail, onboarded |-> Humans,
            served |-> {"Invite", "RevokeMembership", "DeleteOrg"}, restarts |-> FALSE,
            orgs |-> {o1}, names |-> {acme}, memberships |-> 5, invites |-> 3,
            stays |-> 2, invitable |-> {"owner", "admin"}]
(* The same with restarts, each human joining once. *)
Restarted == [Members EXCEPT !.emails = RootMail, !.onboarded = {ann, bob},
                !.restarts = TRUE, !.memberships = 3, !.invites = 2, !.stays = 1,
                !.invitable = {"admin", "viewer"}]
(* Humans and organizations whose names meet. *)
Named == [Restarted EXCEPT !.base = SameName, !.emails = SharedMail, !.onboarded = {},
            !.served = {"DeleteOrg", "ChooseHandle"}, !.orgs = {o1, o2},
            !.names = {acme, beta}, !.memberships = 2, !.invites = 0]
(* Ann, or Ann the super administrator, and the access keys of two organizations. *)
JustAnn == [RootMail EXCEPT ![bob] = {}]
Keyed == [Named EXCEPT !.base = OwnName, !.emails = JustAnn, !.onboarded = {ann},
            !.served = {"DeleteOrg", "Keys"}]
(* One who was revoked is invited again, and the hub restarts. *)
Returns == [Restarted EXCEPT !.emails = OwnMail, !.stays = 2, !.invites = 2,
              !.served = {"Invite", "RevokeMembership"}, !.invitable = {"viewer"}]
(* And is revoked again, more than once. *)
Undone == [Returns EXCEPT !.emails = SharedMail, !.memberships = 4, !.invites = 3, !.stays = 3]

AllSetups == {Members, Restarted, Named, Keyed}
JustReturns == {Returns}
JustUndone  == {Undone}
=============================================================================
