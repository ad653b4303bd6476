---------------------------- MODULE MCTrustGraph ----------------------------
(* Small instances of TrustGraph. *)
EXTENDS TrustGraph, TLC

CONSTANTS a1, a2, a3, h1, h2, h3

OneOrg      == {1}
TwoOrgs     == {1, 2}
OneHuman    == {h1}
TwoHumans   == {h1, h2}
ThreeHumans == {h1, h2, h3}
TwoAgents   == {a1, a2}
ThreeAgents == {a1, a2, a3}
NoSupers    == {}
OneSuper    == {h1}

Symmetry == {f @@ g : f \in Permutations(Agents),
               g \in {p \in Permutations(Humans) : \A h \in Supers : p[h] = h}}
=============================================================================
