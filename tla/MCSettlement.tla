---------------------------- MODULE MCSettlement ----------------------------
(***************************************************************************)
(* Instances of Settlement for TLC: four nodes; calls that compete for one *)
(* WorkID under two SettlementIDs.                                         *)
(***************************************************************************)
EXTENDS Settlement, TLC

CONSTANTS n1, n2, n3, n4, c1, c2, w1, s1, s2

FourNodes == {n1, n2, n3, n4}
TwoCalls  == {c1, c2}

Everyone(coordinator) == [c \in DOMAIN coordinator |-> FourNodes \ {coordinator[c]}]

\* Two coordinators, one work, two SettlementIDs.
Rivals      == (c1 :> n1) @@ (c2 :> n2)
RivalPeers  == Everyone(Rivals)
RivalSids   == (c1 :> s1) @@ (c2 :> s2)
SameWork    == [c \in TwoCalls |-> w1]

\* The nodes that coordinate nothing are alike.
OthersSym == Permutations({n3, n4})
=============================================================================
