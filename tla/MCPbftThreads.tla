--------------------------- MODULE MCPbftThreads ----------------------------
(***************************************************************************)
(* Instance of PbftThreads for TLC: four replicas, the primary signs two    *)
(* PRE-PREPAREs and votes for both; no view change.                        *)
(***************************************************************************)
EXTENDS PbftThreads, TLC

CONSTANTS r1, r2, r3, r4, x, y

FourIds   == <<r1, r2, r3, r4>>
TwoBlocks == {x, y}
SameIndex == [b \in TwoBlocks |-> 1]
NoParent  == [b \in TwoBlocks |-> None]
NoRoutes  == [r \in {r1, r2, r3, r4} |-> {}]

\* Rows the primary signs.
EquivocatingPrimary ==
    [kind: VoteKind, view: {0}, seq: {1}, digest: TwoBlocks, by: {r1}]

BackupSym == Permutations({r2, r3, r4}) \cup Permutations(TwoBlocks)
=============================================================================
