--------------------------- MODULE MCChainLedger ----------------------------
(***************************************************************************)
(* Instances of ChainLedger for TLC: a legacy book of two public lines and *)
(* a private one, a peer's block that competes for the next index, and one *)
(* after it, at the index from which certificates are required.            *)
(***************************************************************************)
EXTENDS ChainLedger

CONSTANTS t1, t2, w1

Line(i, h, p, pub, r) == [index |-> i, hash |-> h, prev |-> p, public |-> pub,
                          reward |-> r, work |-> NoWork]

MixedBook == <<Line(0, 1, 0, TRUE, 2), Line(1, 2, 1, TRUE, 2), Line(2, 3, 2, FALSE, 2)>>

RivalBlocks == {Line(2, 4, 2, TRUE, 2), Line(3, 5, 4, TRUE, 2)}

ThreadSymmetry == Permutations({t1, t2})
=============================================================================
