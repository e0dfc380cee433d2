---------------------------- MODULE MCPbftVotes -----------------------------
(***************************************************************************)
(* Instances of PbftVotes for TLC: four or five replicas, two competing    *)
(* blocks for one index, one or two views.                                 *)
(***************************************************************************)
EXTENDS PbftVotes, TLC

CONSTANTS r1, r2, r3, r4, r5, x, y

FourIds == <<r1, r2, r3, r4>>
FiveIds == <<r1, r2, r3, r4, r5>>

TwoBlocks == {x, y}
SameIndex == [b \in TwoBlocks |-> 1]
NoParent  == [b \in TwoBlocks |-> None]

\* Every vote of kinds K in views V that replica r could sign.
VotesOf(r, K, V) ==
    [kind: K, view: V, seq: {1}, digest: TwoBlocks, by: {r}]

NoSends == {}

\* The primary of view 0 signs two PRE-PREPAREs and votes for both.
EquivocatingPrimary == VotesOf(r1, VoteKind, {0})

\* It also asks for view 1, and votes for anything there.
EquivocatingTwice ==
    VotesOf(r1, {"pre-prepare"}, {0})
       \cup VotesOf(r1, {"prepare", "commit"}, {0, 1})
       \cup [kind: {"view-change"}, view: {1}, by: {r1}]

\* Replica r4 votes in view 0 and asks for view 1; its 265 row claims a value
\* that may not have been prepared.
UnprovenClaim ==
    VotesOf(r4, {"prepare", "commit"}, {0})
       \cup [kind: {"view-change"}, view: {1}, by: {r4}]
       \cup {[kind |-> "view-change-265", view |-> 1, from |-> 0, by |-> r4,
              prepared |-> {[view |-> 0, seq |-> 1, digest |-> d]}] :
                 d \in TwoBlocks}

Only(f, ids) == [r \in {ids[i] : i \in 1 .. Len(ids)} |->
                    IF r \in DOMAIN f THEN f[r] ELSE {}]

NoRoutesFive == Only(<<>>, FiveIds)

\* r2 and r3 move on to view 1.
MoveOn == Only([r \in {r2, r3} |-> {"view-change", "new-view"}], FourIds)

\* r2 takes over, with whatever rows its callers present; r3 helps it; r1 may
\* lose its state file.
EveryRequest ==
    Only([r \in {r1, r2, r3} |->
            CASE r = r1 -> {"truncate"}
              [] r = r2 -> {"view-change", "view-change-265", "new-view",
                            "bind-prepared", "restart"}
              [] r = r3 -> {"view-change", "view-change-265"}],
         FourIds)

\* All four honest; r1 keeps silent about the view change.
HonestMoveOn ==
    Only([r \in {r2, r3, r4} |-> {"view-change", "new-view"}], FourIds)

\* Bound of the run without faults: r2 misses view 0, whose block is x, and
\* nobody asks for view 1 before two other replicas hold the certificate.
PartitionedPrimary ==
    /\ accepted[r2][<<0, 1>>] = None
    /\ \A m \in msgs : m.kind \in VoteKind /\ m.view = 0 => m.digest = x
    /\ (\E m \in msgs : m.kind = "view-change") =>
          {certificates[r3][1], certificates[r4][1]} = {x}

\* Bound of the run about the view change: nobody asks for view 1 before r3 and
\* r4 have accepted a block in view 0.
MoveOnAfterAccepting ==
    (\E m \in msgs : m.kind = "view-change") =>
        \A r \in {r3, r4} : accepted[r][<<0, 1>>] # None

\* Bound of the run about NEW-VIEW: votes are signed in view 0 only, no COMMIT
\* is, and one NEW-VIEW request is served at a time.
ViewOneIdle ==
    /\ \A m \in msgs : m.kind \in VoteKind => m.view = 0 /\ m.kind # "commit"
    /\ \A r \in Replica : Cardinality(entering[r]) <= 1

BlockSym  == Permutations(TwoBlocks)
BackupSymFive == Permutations({r2, r3, r4, r5}) \cup Permutations(TwoBlocks)
=============================================================================
