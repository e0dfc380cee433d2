--------------------------- MODULE MCPbftFinality ---------------------------
(***************************************************************************)
(* Instance of PbftFinality for TLC: the primary equivocates, a backup may *)
(* lose its file, the others move on to the next view.                     *)
(***************************************************************************)
EXTENDS PbftFinality, TLC

CONSTANTS r1, r2, r3, r4, x, y

FourIds == <<r1, r2, r3, r4>>

TwoBlocks == {x, y}
SameIndex == [b \in TwoBlocks |-> 1]
NoParent  == [b \in TwoBlocks |-> None]

\* The primary of view 0 signs two PRE-PREPAREs, a PREPARE for each and a
\* VIEW-CHANGE; it stops before COMMIT.
EquivocatingPrimary ==
    [kind: {"pre-prepare", "prepare"}, view: {0}, seq: {1},
     digest: TwoBlocks, by: {r1}]
       \cup [kind: {"view-change"}, view: {1}, by: {r1}]

\* r2 takes over and may lose its file, r3 and r4 ask for the next view.
MoveOnOrForget ==
    [r \in {r1, r2, r3, r4} |->
        CASE r = r1 -> {}
          [] r = r2 -> {"view-change", "new-view", "truncate"}
          [] OTHER  -> {"view-change"}]

Kinds == {m.kind : m \in msgs}

\* Bound: votes are signed in view 0; a replica asks for view 1 once r2 to r4
\* have voted, and nobody signs a COMMIT after that.
ViewOneIdle ==
    /\ \A m \in msgs : m.kind \in VoteKind => m.view = 0
    /\ "view-change" \in Kinds =>
          /\ "commit" \notin Kinds
          /\ {m.by : m \in {n \in msgs : n.kind = "prepare"}} = Honest

\* Bound: r2 loses its file after a replica asked for view 1.
LateLoss ==
    LoseStores(r2) => "view-change" \in Kinds

BackupSym == Permutations({r3, r4}) \cup Permutations(TwoBlocks)
=============================================================================
