----------------------------- MODULE PublicSync -----------------------------
(***************************************************************************)
(* How public blocks travel between nodes (P2PSyncService in src/artcb/    *)
(* p2p/sync.py, the routes of api/p2p_routes.py), below the range where    *)
(* PBFT certificates are required: any node may append a block of its own, *)
(* and books may fork.                                                     *)
(*                                                                         *)
(* The threads of a node append blocks of their own and import blocks of   *)
(* peers at the same time.  A block is placed after the tip, or tested     *)
(* against it, long before it is written, and no lock covers the two: a    *)
(* book may hold a fork too, and a block twice.                            *)
(*                                                                         *)
(* What a node receives, by a pull or a push, is a copy of part of a       *)
(* peer's book.  Books only grow: whatever was read of one at any earlier  *)
(* time, and lost, cut, repeated or overtaken since, is still in it, so    *)
(* that a thread tests any block of any peer at any time.                  *)
(*                                                                         *)
(* Hashes and signatures are valid; a hash is a number drawn once.  The    *)
(* archive of the blocks received is left out.                             *)
(***************************************************************************)
EXTENDS Naturals, SequencesExt

CONSTANTS
    SyncNode,        \* nodes
    SyncThread,      \* the threads of a node
    NoWrite,         \* a thread has nothing to write
    MaxDrawn         \* bound on the blocks made

NoHash      == 0
PublicBlock == [index: Nat, hash: 1 .. MaxDrawn, prev: 0 .. MaxDrawn]

ASSUME SyncAssumption == MaxDrawn \in Nat /\ NoWrite \notin PublicBlock

VARIABLES
    blocks,      \* blocks[n]: the public book of node n
    pending,     \* pending[n][t]: the block that thread t of n is about to write
    drawn        \* hashes drawn

syncVars == <<blocks, pending, drawn>>

SyncInit ==
    /\ blocks = [n \in SyncNode |-> << >>]
    /\ pending = [n \in SyncNode |-> [t \in SyncThread |-> NoWrite]]
    /\ drawn = 0

\* The tip is the last line written.
TipOf(n)  == IF blocks[n] = << >> THEN NoHash ELSE Last(blocks[n]).hash
NextOf(n) == IF blocks[n] = << >> THEN 0 ELSE Last(blocks[n]).index + 1

\* append_block reads the tip and places a block after it.
Produce(n, t) ==
    /\ pending[n][t] = NoWrite /\ drawn < MaxDrawn
    /\ drawn' = drawn + 1
    /\ pending' = [pending EXCEPT ![n][t] =
           [index |-> NextOf(n), hash |-> drawn + 1, prev |-> TipOf(n)]]
    /\ UNCHANGED blocks

-----------------------------------------------------------------------------
Holds(n, b) == \E i \in DOMAIN blocks[n] : blocks[n][i].hash = b.hash

\* Seeded fault: the previous hash is left to the next synchronisation.
ExtendsIndex(n, b) ==
    /\ ~Holds(n, b)
    /\ \A i \in DOMAIN blocks[n] : blocks[n][i].index # b.index
    /\ b.index = NextOf(n)

\* decide_public_import answers "append", and import_extending_block agrees.  A
\* block whose hash is held is a duplicate, one whose index is held an
\* equivocation; both change nothing.
Extends(n, b) ==
    /\ ~Holds(n, b)
    /\ \A i \in DOMAIN blocks[n] : blocks[n][i].index # b.index
    /\ b.index = NextOf(n)
    /\ b.prev = TipOf(n)

\* One round of import_public_blocks, up to the write: the block has passed.
TestBlock(n, t, peer) ==
    /\ pending[n][t] = NoWrite
    /\ \E i \in DOMAIN blocks[peer] :
           /\ Extends(n, blocks[peer][i])
           /\ pending' = [pending EXCEPT ![n][t] = blocks[peer][i]]
    /\ UNCHANGED <<blocks, drawn>>

-----------------------------------------------------------------------------
\* The line is written, after whatever was written since.
WritePending(n, t) ==
    /\ pending[n][t] # NoWrite
    /\ blocks' = [blocks EXCEPT ![n] = Append(@, pending[n][t])]
    /\ pending' = [pending EXCEPT ![n][t] = NoWrite]
    /\ UNCHANGED drawn

\* The process dies: the book stays, what was to be written is gone.
DieAppending(n) ==
    /\ \E t \in SyncThread : pending[n][t] # NoWrite
    /\ pending' = [pending EXCEPT ![n] = [t \in SyncThread |-> NoWrite]]
    /\ UNCHANGED <<blocks, drawn>>

SyncNext == \E n \in SyncNode :
    \/ \E t \in SyncThread :
          \/ Produce(n, t) \/ WritePending(n, t)
          \/ \E peer \in SyncNode \ {n} : TestBlock(n, t, peer)
    \/ DieAppending(n)

SyncSpec == SyncInit /\ [][SyncNext]_syncVars

-----------------------------------------------------------------------------
SyncTypeOK ==
    /\ blocks \in [SyncNode -> Seq(PublicBlock)]
    /\ pending \in [SyncNode -> [SyncThread -> PublicBlock \cup {NoWrite}]]
    /\ drawn \in 0 .. MaxDrawn

\* A block that two books hold is the same block in both, and they hold the
\* block before it in common as well, earlier in both: step by step, its whole
\* past.  Whatever is lost, repeated, cut or overtaken by the node's own
\* blocks, and whatever its threads fork or write twice, two books never join
\* behind a tip that only one of them knows (decide_public_import: "Forks stay
\* off the tip").
SamePast ==
    \A m, n \in SyncNode : \A i \in DOMAIN blocks[m], j \in DOMAIN blocks[n] :
        LET b == blocks[m][i] IN
        b.hash = blocks[n][j].hash =>
            /\ b = blocks[n][j]
            /\ b.index > 0 => \E k \in 1 .. i - 1, l \in 1 .. j - 1 :
                   /\ blocks[m][k] = blocks[n][l]
                   /\ blocks[m][k].hash = b.prev /\ blocks[m][k].index = b.index - 1
=============================================================================
