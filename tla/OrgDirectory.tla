---------------------------- MODULE OrgDirectory ----------------------------
(***************************************************************************)
(* What organizations and their members are to the rest of the hub: who    *)
(* has which role where.  TrustGraph is built on this directory;           *)
(* Membership shows that the store's memberships, invites and indexes      *)
(* (store/memory.go) implement it.                                         *)
(***************************************************************************)
CONSTANTS Orgs, Humans

VARIABLES
  status,   \* organization -> "none", "live" or "archived"
  role      \* organization and human -> "none" or the role he has

vars == <<status, role>>

Invited == {"viewer", "member", "admin"}

Init ==
  /\ status = [o \in Orgs |-> "none"]
  /\ role = [p \in Orgs \X Humans |-> "none"]

Create(o, h) ==
  /\ status[o] = "none"
  /\ status' = [status EXCEPT ![o] = "live"]
  /\ role' = [role EXCEPT ![<<o, h>>] = "owner"]

Join(o, h, r) ==
  /\ status[o] = "live" /\ role[<<o, h>>] = "none"
  /\ role' = [role EXCEPT ![<<o, h>>] = r]
  /\ UNCHANGED status

Leave(o, h) ==
  /\ role[<<o, h>>] \in Invited
  /\ role' = [role EXCEPT ![<<o, h>>] = "none"]
  /\ UNCHANGED status

Delete(o) ==
  /\ status[o] = "live"
  /\ status' = [status EXCEPT ![o] = "archived"]
  /\ role' = [p \in Orgs \X Humans |-> IF p[1] = o THEN "none" ELSE role[p]]

Next ==
  \E o \in Orgs :
    \/ Delete(o)
    \/ \E h \in Humans :
         Create(o, h) \/ Leave(o, h) \/ \E r \in Invited : Join(o, h, r)

Spec == Init /\ [][Next]_vars
=============================================================================
