---------------------------- MODULE Books_proofs ----------------------------
(***************************************************************************)
(* The public books that nodes copy from each other: whatever is received  *)
(* and appended at once, and wherever a process dies, two books with a     *)
(* block in common agree about what comes before it.                       *)
(*                                                                         *)
(* The index of one book: until two threads change it at once, it is exact *)
(* between calls (as long as no line is torn) and leads to right lines.    *)
(***************************************************************************)
EXTENDS PublicSync, BookIndex, WellFoundedInduction, TLAPS

-----------------------------------------------------------------------------
(* Synchronisation of public books                                         *)

\* A block that is in a book, or about to be written to one.
Made(b) == \E n \in SyncNode :
    \/ \E i \in DOMAIN blocks[n] : blocks[n][i] = b
    \/ \E t \in SyncThread : pending[n][t] = b

\* Hashes are drawn one by one, each for one block.
HashesDrawn == \A b \in PublicBlock : Made(b) => b.hash <= drawn
OneBlockEach == \A b, c \in PublicBlock : Made(b) /\ Made(c) /\ b.hash = c.hash => b = c

\* The block before b is among the first lines of a book, up to `last`.
Continues(book, b, last) ==
    b.index > 0 => \E k \in 1 .. last :
        k \in DOMAIN book /\ book[k].hash = b.prev /\ book[k].index = b.index - 1

\* Every block of a book, and every block that is to be written to it, follows
\* one that the book had before.
PastsHeld == \A n \in SyncNode :
    /\ \A i \in DOMAIN blocks[n] : Continues(blocks[n], blocks[n][i], i - 1)
    /\ \A t \in SyncThread : pending[n][t] # NoWrite => Continues(blocks[n], pending[n][t], Len(blocks[n]))

\* The inductive invariant.
SyncInv == SyncTypeOK /\ HashesDrawn /\ OneBlockEach /\ PastsHeld

LEMMA SyncStart == ASSUME SyncInit PROVE SyncInv
<1>1. << >> \in Seq(PublicBlock) /\ DOMAIN << >> = {}
  OBVIOUS
<1>2. /\ blocks = [n \in SyncNode |-> << >>] /\ drawn = 0 /\ drawn \in 0 .. MaxDrawn
      /\ pending = [n \in SyncNode |-> [t \in SyncThread |-> NoWrite]]
  BY SyncAssumption DEF SyncInit
<1>3. SyncTypeOK
  BY <1>1, <1>2 DEF SyncTypeOK
<1>4. \A b \in PublicBlock : ~Made(b)
  BY <1>1, <1>2, SyncAssumption DEF Made
<1> QED BY <1>1, <1>2, <1>3, <1>4 DEF SyncInv, HashesDrawn, OneBlockEach, PastsHeld

\* What the tip and its index are.
LEMMA TipFacts ==
    ASSUME SyncInv, NEW n \in SyncNode
    PROVE  /\ NextOf(n) \in Nat /\ TipOf(n) \in 0 .. MaxDrawn
           /\ Len(blocks[n]) \in Nat /\ DOMAIN blocks[n] = 1 .. Len(blocks[n])
           /\ NextOf(n) > 0 => \E k \in 1 .. Len(blocks[n]) :
                 /\ k \in DOMAIN blocks[n] /\ blocks[n][k].hash = TipOf(n)
                 /\ blocks[n][k].index = NextOf(n) - 1
<1>1. blocks[n] \in Seq(PublicBlock)
  BY DEF SyncInv, SyncTypeOK
<1>2. CASE blocks[n] = << >>
  BY <1>1, <1>2, SyncAssumption DEF TipOf, NextOf, NoHash
<1>3. CASE blocks[n] # << >>
  <2>1. /\ Len(blocks[n]) \in DOMAIN blocks[n] /\ Len(blocks[n]) \in 1 .. Len(blocks[n])
        /\ Last(blocks[n]) = blocks[n][Len(blocks[n])]
        /\ Last(blocks[n]) \in PublicBlock
    BY <1>1, <1>3 DEF Last
  <2>2. /\ Last(blocks[n]).hash \in 0 .. MaxDrawn /\ Last(blocks[n]).index \in Nat
    BY <2>1, SyncAssumption DEF PublicBlock
  <2>3. TipOf(n) = Last(blocks[n]).hash /\ NextOf(n) = Last(blocks[n]).index + 1
    BY <1>3 DEF TipOf, NextOf
  <2> QED BY <1>1, <2>1, <2>2, <2>3
<1> QED BY <1>2, <1>3

\* A thread of node n has a new block to write, of its own or of a peer.
LEMMA PendingStep ==
    ASSUME SyncInv, NEW n \in SyncNode, NEW t \in SyncThread, NEW b \in PublicBlock,
           pending' = [pending EXCEPT ![n][t] = b], blocks' = blocks,
           b.index = NextOf(n), b.prev = TipOf(n),
           \/ Made(b) /\ drawn' = drawn
           \/ drawn' = drawn + 1 /\ b.hash = drawn + 1 /\ drawn' \in 0 .. MaxDrawn
    PROVE  SyncInv'
<1>1. /\ pending \in [SyncNode -> [SyncThread -> PublicBlock \cup {NoWrite}]]
      /\ drawn \in Nat /\ b.hash \in Nat
  BY SyncAssumption DEF SyncInv, SyncTypeOK, PublicBlock
<1>2. /\ pending'[n][t] = b
      /\ \A m \in SyncNode, s \in SyncThread :
            pending'[m][s] = pending[m][s] \/ (m = n /\ pending'[m][s] = b)
  BY <1>1
<1>3. SyncTypeOK'
  BY <1>1 DEF SyncInv, SyncTypeOK
<1>4. ASSUME NEW c \in PublicBlock, Made(c)' PROVE c = b \/ Made(c)
  BY <1>2, <1>4 DEF Made
<1>5. Made(b) => b.hash <= drawn
  BY DEF SyncInv, HashesDrawn
<1>6. \A c \in PublicBlock : Made(c) => c.hash \in Nat /\ c.hash <= drawn
  BY SyncAssumption DEF SyncInv, HashesDrawn, PublicBlock
<1>7. HashesDrawn'
  BY <1>1, <1>4, <1>5, <1>6 DEF HashesDrawn
<1>8. \A c \in PublicBlock : Made(c) /\ c.hash = b.hash => c = b
  BY <1>1, <1>6 DEF SyncInv, OneBlockEach
<1>9. OneBlockEach'
  <2> SUFFICES ASSUME NEW c \in PublicBlock, NEW d \in PublicBlock,
                      Made(c)', Made(d)', c.hash = d.hash
               PROVE  c = d
    BY DEF OneBlockEach
  <2> QED BY <1>4, <1>8 DEF SyncInv, OneBlockEach
<1>10. Continues(blocks[n], b, Len(blocks[n]))
  BY TipFacts DEF Continues
<1>11. PastsHeld'
  BY <1>2, <1>10 DEF SyncInv, PastsHeld, Continues
<1> QED BY <1>3, <1>7, <1>9, <1>11 DEF SyncInv

LEMMA ProduceStep ==
    ASSUME SyncInv, NEW n \in SyncNode, NEW t \in SyncThread, Produce(n, t)
    PROVE  SyncInv'
<1> DEFINE b == [index |-> NextOf(n), hash |-> drawn + 1, prev |-> TipOf(n)]
<1>1. drawn \in Nat /\ drawn + 1 \in 1 .. MaxDrawn
  BY SyncAssumption DEF Produce, SyncInv, SyncTypeOK
<1>2. b \in PublicBlock /\ b.hash = drawn + 1 /\ b.index = NextOf(n) /\ b.prev = TipOf(n)
  BY <1>1, TipFacts DEF PublicBlock
<1>3. /\ drawn' = drawn + 1 /\ drawn' \in 0 .. MaxDrawn /\ blocks' = blocks
      /\ pending' = [pending EXCEPT ![n][t] = b]
  BY <1>1, SyncAssumption DEF Produce
<1> HIDE DEF b
<1> QED BY <1>2, <1>3, PendingStep

LEMMA TestBlockStep ==
    ASSUME SyncInv, NEW n \in SyncNode, NEW t \in SyncThread, NEW peer \in SyncNode,
           TestBlock(n, t, peer)
    PROVE  SyncInv'
<1>1. PICK i \in DOMAIN blocks[peer] :
          /\ Extends(n, blocks[peer][i])
          /\ pending' = [pending EXCEPT ![n][t] = blocks[peer][i]]
  BY DEF TestBlock
<1>2. blocks[peer] \in Seq(PublicBlock) /\ blocks[peer][i] \in PublicBlock
  BY DEF SyncInv, SyncTypeOK
<1>3. /\ Made(blocks[peer][i]) /\ blocks[peer][i].index = NextOf(n)
      /\ blocks[peer][i].prev = TipOf(n)
  BY <1>1 DEF Made, Extends
<1>4. blocks' = blocks /\ drawn' = drawn
  BY DEF TestBlock
<1> QED BY <1>1, <1>2, <1>3, <1>4, PendingStep

LEMMA WritePendingStep ==
    ASSUME SyncInv, NEW n \in SyncNode, NEW t \in SyncThread, WritePending(n, t)
    PROVE  SyncInv'
<1> DEFINE b == pending[n][t]
           len == Len(blocks[n])
<1>1. /\ blocks \in [SyncNode -> Seq(PublicBlock)] /\ blocks[n] \in Seq(PublicBlock)
      /\ len \in Nat /\ DOMAIN blocks[n] = 1 .. len
      /\ pending \in [SyncNode -> [SyncThread -> PublicBlock \cup {NoWrite}]]
      /\ b # NoWrite /\ b \in PublicBlock
  BY DEF WritePending, SyncInv, SyncTypeOK
<1>2. /\ blocks' = [blocks EXCEPT ![n] = Append(@, b)] /\ drawn' = drawn
      /\ pending' = [pending EXCEPT ![n][t] = NoWrite]
  BY DEF WritePending
<1>3. Made(b)
  BY DEF Made
<1>4. Continues(blocks[n], b, len)
  BY <1>1 DEF SyncInv, PastsHeld
<1> HIDE DEF b
<1>5. /\ Append(blocks[n], b) \in Seq(PublicBlock) /\ Len(Append(blocks[n], b)) = len + 1
      /\ DOMAIN Append(blocks[n], b) = 1 .. (len + 1)
      /\ Append(blocks[n], b)[len + 1] = b
      /\ \A i \in 1 .. len : Append(blocks[n], b)[i] = blocks[n][i]
  BY <1>1
<1>6. /\ blocks' \in [SyncNode -> Seq(PublicBlock)]
      /\ Len(blocks'[n]) = len + 1
      /\ DOMAIN blocks'[n] = 1 .. (len + 1) /\ blocks'[n][len + 1] = b
      /\ \A i \in 1 .. len : blocks'[n][i] = blocks[n][i]
      /\ \A m \in SyncNode : m # n => blocks'[m] = blocks[m]
  BY <1>1, <1>2, <1>5
<1>7. \A m \in SyncNode, s \in SyncThread :
          pending'[m][s] = pending[m][s] \/ pending'[m][s] = NoWrite
  BY <1>1, <1>2
<1> HIDE DEF len
<1>8. SyncTypeOK'
  BY <1>1, <1>2, <1>6 DEF SyncInv, SyncTypeOK
<1>9. ASSUME NEW c \in PublicBlock, Made(c)' PROVE Made(c)
  <2>1. PICK m \in SyncNode : \/ \E i \in DOMAIN blocks'[m] : blocks'[m][i] = c
                              \/ \E s \in SyncThread : pending'[m][s] = c
    BY <1>9 DEF Made
  <2>2. CASE \E s \in SyncThread : pending'[m][s] = c
    BY <2>2, <1>7, SyncAssumption DEF Made
  <2>3. ASSUME NEW i \in DOMAIN blocks'[m], blocks'[m][i] = c PROVE Made(c)
    <3>1. CASE m # n
      BY <3>1, <2>3, <1>6 DEF Made
    <3>2. CASE m = n
      <4>1. i = len + 1 \/ i \in 1 .. len
        BY <3>2, <1>1, <1>6
      <4>2. CASE i = len + 1
        BY <4>2, <3>2, <2>3, <1>3, <1>6
      <4>3. CASE i \in 1 .. len
        <5>1. i \in DOMAIN blocks[n] /\ blocks[n][i] = c
          BY <4>3, <3>2, <2>3, <1>1, <1>6
        <5> QED BY <5>1 DEF Made
      <4> QED BY <4>1, <4>2, <4>3
    <3> QED BY <3>1, <3>2
  <2> QED BY <2>1, <2>2, <2>3
<1>10. HashesDrawn' /\ OneBlockEach'
  <2>1. ASSUME NEW c \in PublicBlock, Made(c)' PROVE c.hash <= drawn'
    BY <2>1, <1>2, <1>9 DEF SyncInv, HashesDrawn
  <2>2. ASSUME NEW c \in PublicBlock, NEW d \in PublicBlock,
               Made(c)', Made(d)', c.hash = d.hash
        PROVE  c = d
    BY <2>2, <1>9 DEF SyncInv, OneBlockEach
  <2> QED BY <2>1, <2>2 DEF HashesDrawn, OneBlockEach
<1>11. ASSUME NEW m \in SyncNode, NEW c, NEW last \in Nat, last <= Len(blocks[m]), Continues(blocks[m], c, last)
       PROVE  Continues(blocks'[m], c, last)
  <2>1. blocks[m] \in Seq(PublicBlock) /\ DOMAIN blocks[m] = 1 .. Len(blocks[m]) /\ Len(blocks[m]) \in Nat
    BY <1>1
  <2>2. CASE m # n
    BY <2>2, <1>6, <1>11 DEF Continues
  <2>3. CASE m = n
    BY <2>1, <2>3, <1>6, <1>11 DEF Continues, len
  <2> QED BY <2>2, <2>3
<1>12. ASSUME NEW m \in SyncNode, NEW i \in DOMAIN blocks'[m] PROVE Continues(blocks'[m], blocks'[m][i], i - 1)
  <2>1. blocks[m] \in Seq(PublicBlock) /\ DOMAIN blocks[m] = 1 .. Len(blocks[m]) /\ Len(blocks[m]) \in Nat
    BY <1>1
  <2>2. CASE i \in DOMAIN blocks[m] /\ blocks'[m][i] = blocks[m][i]
    <3>1. i - 1 \in Nat /\ i - 1 <= Len(blocks[m])
      BY <2>1, <2>2
    <3>2. Continues(blocks[m], blocks[m][i], i - 1)
      BY <2>2 DEF SyncInv, PastsHeld
    <3>3. Continues(blocks'[m], blocks[m][i], i - 1)
      BY <3>1, <3>2, <1>11
    <3> QED BY <3>3, <2>2
  <2>3. CASE m = n /\ i = len + 1
    <3>1. i - 1 = len /\ len \in Nat /\ len <= Len(blocks[n]) /\ blocks'[m][i] = b
      BY <2>3, <1>1, <1>6 DEF len
    <3>2. Continues(blocks'[n], b, len)
      BY <3>1, <1>4, <1>11
    <3> QED BY <3>1, <3>2, <2>3 DEF Continues
  <2>4. (i \in DOMAIN blocks[m] /\ blocks'[m][i] = blocks[m][i]) \/ (m = n /\ i = len + 1)
    <3>1. CASE m # n
      BY <3>1, <1>6
    <3>2. CASE m = n
      <4>1. i \in 1 .. (len + 1) /\ DOMAIN blocks[m] = 1 .. len
        BY <3>2, <1>1, <1>6 DEF len
      <4>2. i = len + 1 \/ i \in 1 .. len
        BY <4>1, <1>1 DEF len
      <4> QED BY <3>2, <4>1, <4>2, <1>6
    <3> QED BY <3>1, <3>2
  <2> QED BY <2>2, <2>3, <2>4
<1>13. ASSUME NEW m \in SyncNode, NEW s \in SyncThread, pending'[m][s] # NoWrite
       PROVE  Continues(blocks'[m], pending'[m][s], Len(blocks'[m]))
  <2>1. pending'[m][s] = pending[m][s]
    BY <1>13, <1>7
  <2>2. Continues(blocks[m], pending[m][s], Len(blocks[m])) /\ Len(blocks[m]) \in Nat /\ Len(blocks[m]) <= Len(blocks[m])
    BY <1>1, <1>13, <2>1 DEF SyncInv, PastsHeld
  <2>3. Continues(blocks'[m], pending[m][s], Len(blocks[m]))
    BY <2>2, <1>11
  <2>4. Len(blocks'[m]) \in Nat /\ Len(blocks[m]) <= Len(blocks'[m])
    <3>1. CASE m = n
      BY <3>1, <1>1, <1>6 DEF len
    <3>2. CASE m # n
      BY <3>2, <2>2, <1>6
    <3> QED BY <3>1, <3>2
  <2>5. 1 .. Len(blocks[m]) \subseteq 1 .. Len(blocks'[m])
    BY <2>2, <2>4
  <2> QED BY <2>1, <2>3, <2>5 DEF Continues
<1>14. PastsHeld'
  BY <1>12, <1>13 DEF PastsHeld
<1> QED BY <1>8, <1>10, <1>14 DEF SyncInv

LEMMA DieAppendingStep ==
    ASSUME SyncInv, NEW n \in SyncNode, DieAppending(n)
    PROVE  SyncInv'
<1>1. /\ pending \in [SyncNode -> [SyncThread -> PublicBlock \cup {NoWrite}]]
      /\ blocks' = blocks /\ drawn' = drawn
      /\ pending' = [pending EXCEPT ![n] = [t \in SyncThread |-> NoWrite]]
  BY DEF DieAppending, SyncInv, SyncTypeOK
<1>2. \A m \in SyncNode, s \in SyncThread :
          pending'[m][s] = pending[m][s] \/ pending'[m][s] = NoWrite
  BY <1>1
<1>3. SyncTypeOK'
  BY <1>1 DEF SyncInv, SyncTypeOK
<1>4. ASSUME NEW c \in PublicBlock, Made(c)' PROVE Made(c)
  BY <1>1, <1>2, <1>4, SyncAssumption DEF Made
<1>5. HashesDrawn' /\ OneBlockEach'
  <2>1. ASSUME NEW c \in PublicBlock, Made(c)' PROVE c.hash <= drawn'
    BY <2>1, <1>1, <1>4 DEF SyncInv, HashesDrawn
  <2>2. ASSUME NEW c \in PublicBlock, NEW d \in PublicBlock,
               Made(c)', Made(d)', c.hash = d.hash
        PROVE  c = d
    BY <2>2, <1>4 DEF SyncInv, OneBlockEach
  <2> QED BY <2>1, <2>2 DEF HashesDrawn, OneBlockEach
<1>6. PastsHeld'
  BY <1>1, <1>2 DEF SyncInv, PastsHeld, Continues
<1> QED BY <1>3, <1>5, <1>6 DEF SyncInv

LEMMA SyncStep == ASSUME SyncInv, [SyncNext]_syncVars PROVE SyncInv'
<1>1. CASE UNCHANGED syncVars
  <2>1. blocks' = blocks /\ pending' = pending /\ drawn' = drawn
    BY <1>1 DEF syncVars
  <2>2. \A b : Made(b)' <=> Made(b)
    BY <2>1 DEF Made
  <2> QED BY <2>1, <2>2 DEF SyncInv, SyncTypeOK, HashesDrawn, OneBlockEach, PastsHeld
<1>2. CASE SyncNext
  BY <1>2, ProduceStep, TestBlockStep, WritePendingStep, DieAppendingStep DEF SyncNext
<1> QED BY <1>1, <1>2

\* For any nodes and threads, SyncInv holds (P2PSyncService, append_block).
THEOREM SyncInvariant == SyncSpec => []SyncInv
<1> QED BY SyncStart, SyncStep, PTL DEF SyncSpec

\* Two books with a block in common have its whole past in common, in any number
\* of nodes and threads: an import never joins the tail of one book to the head
\* of another, although no lock covers the test of the tip and the write.
THEOREM OnePast == SyncSpec => []SamePast
<1>1. ASSUME SyncInv PROVE SamePast
  <2> SUFFICES ASSUME NEW m \in SyncNode, NEW n \in SyncNode,
                      NEW i \in DOMAIN blocks[m], NEW j \in DOMAIN blocks[n],
                      blocks[m][i].hash = blocks[n][j].hash
               PROVE  /\ blocks[m][i] = blocks[n][j]
                      /\ blocks[m][i].index > 0 => \E k \in 1 .. i - 1, l \in 1 .. j - 1 :
                            /\ blocks[m][k] = blocks[n][l]
                            /\ blocks[m][k].hash = blocks[m][i].prev
                            /\ blocks[m][k].index = blocks[m][i].index - 1
    BY DEF SamePast
  <2>1. blocks[m] \in Seq(PublicBlock) /\ blocks[n] \in Seq(PublicBlock)
    BY <1>1 DEF SyncInv, SyncTypeOK
  <2>2. ASSUME NEW k \in DOMAIN blocks[m], NEW l \in DOMAIN blocks[n],
               blocks[m][k].hash = blocks[n][l].hash
        PROVE  blocks[m][k] = blocks[n][l]
    <3>1. blocks[m][k] \in PublicBlock /\ blocks[n][l] \in PublicBlock
      BY <2>1
    <3>2. Made(blocks[m][k]) /\ Made(blocks[n][l])
      BY DEF Made
    <3> QED BY <1>1, <2>2, <3>1, <3>2 DEF SyncInv, OneBlockEach
  <2>3. blocks[m][i] = blocks[n][j]
    BY <2>2
  <2>4. Continues(blocks[m], blocks[m][i], i - 1) /\ Continues(blocks[n], blocks[n][j], j - 1)
    BY <1>1 DEF SyncInv, PastsHeld
  <2>5. ASSUME blocks[m][i].index > 0
        PROVE  \E k \in 1 .. i - 1, l \in 1 .. j - 1 :
                  /\ blocks[m][k] = blocks[n][l]
                  /\ blocks[m][k].hash = blocks[m][i].prev
                  /\ blocks[m][k].index = blocks[m][i].index - 1
    <3>1. PICK k \in 1 .. i - 1 :
              /\ k \in DOMAIN blocks[m] /\ blocks[m][k].hash = blocks[m][i].prev
              /\ blocks[m][k].index = blocks[m][i].index - 1
      BY <2>4, <2>5 DEF Continues
    <3>2. PICK l \in 1 .. j - 1 :
              l \in DOMAIN blocks[n] /\ blocks[n][l].hash = blocks[m][i].prev
      BY <2>3, <2>4, <2>5 DEF Continues
    <3>3. blocks[m][k] = blocks[n][l]
      BY <2>2, <3>1, <3>2
    <3> QED BY <3>1, <3>2, <3>3
  <2> QED BY <2>3, <2>5
<1> QED BY <1>1, SyncInvariant, PTL

-----------------------------------------------------------------------------
(* The index of a book: types                                              *)

\* A set of natural numbers has a least one.
LEMMA LeastNumber ==
    ASSUME NEW T \in SUBSET Nat, T # {}
    PROVE  \E n \in T : \A m \in T : n <= m
<1> DEFINE Less == {ss \in Nat \X Nat : ss[1] < ss[2]}
<1>1. IsWellFoundedOn(Less, Nat)
  BY NatLessThanWellFounded DEF OpToRel
<1>2. PICK n \in T : \A m \in T : <<m, n>> \notin Less
  <2> HIDE DEF Less
  <2> QED BY <1>1, WFMin
<1>3. \A m \in T : n <= m
  <2>1. \A m \in T : m \in Nat /\ n \in Nat /\ ~(m < n)
    BY <1>2
  <2> QED BY <2>1
<1> QED BY <1>3

\* A line ends in the file.
LEMMA LineEnds ==
    ASSUME file \in Seq(Nat \cup {Torn}), NEW pos \in DOMAIN file
    PROVE  LineEnd(pos) \in pos .. Len(file)
<1> DEFINE ends == {k \in pos .. Len(file) : file[k] # Torn \/ k = Len(file)}
<1>1. Len(file) \in ends /\ ends \in SUBSET Nat
  OBVIOUS
<1>2. PICK k \in ends : \A m \in ends : k <= m
  <2> HIDE DEF ends
  <2> QED BY <1>1, LeastNumber
<1>3. \A m \in pos .. k - 1 : file[m] = Torn
  <2> TAKE m \in pos .. k - 1
  <2>1. m \in pos .. Len(file) /\ ~(k <= m)
    BY <1>2
  <2> QED BY <2>1, <1>2
<1> QED BY <1>2, <1>3 DEF LineEnd

\* A sequence over a set is one over a larger set.
LEMMA WiderSeq ==
    ASSUME NEW S, NEW T, S \subseteq T, NEW s \in Seq(S)
    PROVE  s \in Seq(T)
<1>1. Len(s) \in Nat /\ \A k \in 1 .. Len(s) : s[k] \in T
  OBVIOUS
<1> QED BY <1>1

\* What is in memory and on disk has its type, and every thread is at a place of
\* the book, whatever calls overlap.
MetaTyped(m) == m # NoMeta => DOMAIN m.byIndex \subseteq Nat \cup {Torn}

PlaceTyped(t) ==
    /\ step[t].at \in {"number", "enter", "note"} => step[t].pos \in DOMAIN file
    /\ step[t].at = "scan" => step[t].pos \in 1 .. Len(file) + 1
    /\ step[t].at = "load" => DOMAIN metaFile.byIndex \subseteq Nat \cup {Torn}
    /\ step[t].at \in {"ensure", "load", "reset", "scan"} => step[t].for # "note"

IndexTyped ==
    /\ BookTypeOK
    /\ MetaTyped(meta) /\ MetaTyped(metaFile)
    /\ \A t \in BookThread : PlaceTyped(t)

\* Where thread t goes, and that the others stay.
LEMMA Moved ==
    ASSUME step \in [BookThread -> Place], NEW t \in BookThread, NEW p \in Place,
           step' = [step EXCEPT ![t] = p]
    PROVE  /\ step' \in [BookThread -> Place] /\ step'[t] = p
           /\ \A u \in BookThread : u # t => step'[u] = step[u]
  OBVIOUS

\* Where ensure() leaves a thread.
AfterEnsure(p) ==
    IF p.for = "append" THEN [AtRest EXCEPT !.at = "tip", !.for = "append"] ELSE AtRest

LEMMA EnsuredMoves ==
    ASSUME NEW t \in BookThread, step \in [BookThread -> Place], Ensured(t)
    PROVE  /\ AfterEnsure(step[t]) \in Place
           /\ AfterEnsure(step[t]).at \in {"rest", "tip"}
           /\ AfterEnsure(step[t]).for \in {"none", "append"}
           /\ step' = [step EXCEPT ![t] = AfterEnsure(step[t])]
  BY DEF Ensured, AfterEnsure, AtRest, Place

LEMMA GoMoves ==
    ASSUME NEW t \in BookThread, step \in [BookThread -> Place],
           NEW at \in {"load", "reset", "number", "enter", "off", "meta"}, Go(t, at)
    PROVE  /\ [step[t] EXCEPT !.at = at] \in Place
           /\ step' = [step EXCEPT ![t] = [step[t] EXCEPT !.at = at]]
  BY DEF Go, Place

\* The book and its index start empty.
LEMMA IndexTypedStart == ASSUME BookInit PROVE IndexTyped
<1>1. AtRest \in Place /\ AtRest.at = "rest"
  BY DEF AtRest, Place
<1>2. /\ file = << >> /\ offsets = << >> /\ byIndex = << >> /\ offFile = << >>
      /\ meta = NoMeta /\ metaFile = NoMeta
      /\ step = [t \in BookThread |-> AtRest] /\ calm = "whole"
  BY DEF BookInit
<1>3. \A S : << >> \in Seq(S) /\ DOMAIN << >> = {}
  OBVIOUS
<1>4. Len(file) <= MaxPieces
  BY <1>2, BookAssumption
<1>5. BookTypeOK
  BY <1>1, <1>2, <1>3, <1>4 DEF BookTypeOK
<1> QED BY <1>1, <1>2, <1>5 DEF IndexTyped, MetaTyped, PlaceTyped

\* The thread that moves is at a place of the book, and nothing shrinks under
\* the others.
LEMMA PlacesStay ==
    ASSUME IndexTyped, NEW t \in BookThread, NEW p \in Place,
           step' = [step EXCEPT ![t] = p],
           Len(file') \in Nat, Len(file) <= Len(file'),
           DOMAIN file' = 1 .. Len(file'),
           metaFile' = metaFile \/ DOMAIN metaFile'.byIndex \subseteq Nat \cup {Torn},
           p.at \in {"number", "enter", "note"} => p.pos \in DOMAIN file',
           p.at = "scan" => p.pos \in 1 .. Len(file') + 1,
           p.at = "load" => DOMAIN metaFile'.byIndex \subseteq Nat \cup {Torn},
           p.at \in {"ensure", "load", "reset", "scan"} => p.for # "note"
    PROVE  step' \in [BookThread -> Place] /\ \A u \in BookThread : PlaceTyped(u)'
<1>1. /\ step \in [BookThread -> Place] /\ file \in Seq(Nat \cup {Torn})
      /\ Len(file) \in Nat /\ DOMAIN file = 1 .. Len(file)
  BY DEF IndexTyped, BookTypeOK
<1>2. /\ step' \in [BookThread -> Place] /\ step'[t] = p
      /\ \A u \in BookThread : u # t => step'[u] = step[u]
  BY <1>1, Moved
<1>3. PlaceTyped(t)'
  BY <1>2 DEF PlaceTyped
<1>4. ASSUME NEW u \in BookThread, u # t PROVE PlaceTyped(u)'
  <2>1. step'[u] = step[u] /\ PlaceTyped(u)
    BY <1>2, <1>4 DEF IndexTyped
  <2>2. DOMAIN file \subseteq DOMAIN file' /\ 1 .. Len(file) + 1 \subseteq 1 .. Len(file') + 1
    BY <1>1
  <2> QED BY <2>1, <2>2 DEF PlaceTyped
<1> QED BY <1>2, <1>3, <1>4

\* Every step keeps the types.
LEMMA IndexTypedStep == ASSUME IndexTyped, [BookNext]_bookVars PROVE IndexTyped'
<1>1. /\ file \in Seq(Nat \cup {Torn}) /\ Len(file) \in Nat /\ Len(file) <= MaxPieces
      /\ DOMAIN file = 1 .. Len(file) /\ offsets \in Seq(1 .. Len(file))
      /\ offFile \in Seq(1 .. Len(file)) /\ DOMAIN byIndex \subseteq Nat \cup {Torn}
      /\ step \in [BookThread -> Place] /\ calm \in {"whole", "torn", "crossed"}
      /\ meta # NoMeta => meta.size \in 0 .. Len(file) /\ meta.count \in Nat
      /\ metaFile # NoMeta => metaFile.size \in 0 .. Len(file) /\ metaFile.count \in Nat
      /\ MetaTyped(meta) /\ MetaTyped(metaFile)
      /\ \A t \in BookThread : PlaceTyped(t)
  BY DEF IndexTyped, BookTypeOK
<1>2. Len(file) <= Len(file) /\ Appender \in BookThread
  BY <1>1 DEF BookThread
<1>3. \A t \in BookThread : Meets(t) => calm' \in {"whole", "torn", "crossed"}
  BY <1>1 DEF Meets
<1>4. ASSUME NEW t \in BookThread, EnterEnsure(t) PROVE IndexTyped'
  <2> DEFINE p == [AtRest EXCEPT !.at = "ensure", !.for = IF t = Appender THEN "append" ELSE "read"]
  <2>1. p \in Place /\ p.at = "ensure" /\ p.for # "note" /\ step' = [step EXCEPT ![t] = p]
    BY <1>4 DEF EnterEnsure, AtRest, Place
  <2> HIDE DEF p
  <2>2. /\ file' = file /\ offsets' = offsets /\ byIndex' = byIndex /\ meta' = meta
        /\ offFile' = offFile /\ metaFile' = metaFile /\ calm' = calm
    BY <1>4 DEF EnterEnsure, index
  <2>3. step' \in [BookThread -> Place] /\ \A u \in BookThread : PlaceTyped(u)'
    BY <1>1, <1>2, <2>1, <2>2, PlacesStay
  <2> QED BY <1>1, <2>2, <2>3 DEF IndexTyped, BookTypeOK, MetaTyped
<1>5. ASSUME NEW t \in BookThread, Ensure(t) PROVE IndexTyped'
  <2>1. /\ file' = file /\ offsets' = offsets /\ byIndex' = byIndex /\ meta' = meta
        /\ offFile' = offFile /\ metaFile' = metaFile /\ calm' \in {"whole", "torn", "crossed"}
    BY <1>1, <1>3, <1>5 DEF Ensure, index
  <2>2. \E p \in Place : /\ step' = [step EXCEPT ![t] = p] /\ p.at \in {"rest", "tip", "load", "reset"}
                         /\ p.at = "load" => FilesFit
                         /\ p.at \in {"load", "reset"} => p.for # "note"
    <3> step[t].for # "note" /\ step[t] \in Place
      BY <1>1, <1>5 DEF Ensure, PlaceTyped
    <3>1. CASE Ensured(t)
      BY <1>1, <3>1, EnsuredMoves
    <3>2. CASE FilesFit /\ Go(t, "load")
      <4>1. [step[t] EXCEPT !.at = "load"].at = "load" /\ [step[t] EXCEPT !.at = "load"].for = step[t].for
        BY <1>1 DEF Place
      <4> QED BY <1>1, <3>2, <4>1, GoMoves
    <3>3. CASE Go(t, "reset")
      <4>1. [step[t] EXCEPT !.at = "reset"].at = "reset" /\ [step[t] EXCEPT !.at = "reset"].for = step[t].for
        BY <1>1 DEF Place
      <4> QED BY <1>1, <3>3, <4>1, GoMoves
    <3> QED BY <1>5, <3>1, <3>2, <3>3 DEF Ensure
  <2>3. step' \in [BookThread -> Place] /\ \A u \in BookThread : PlaceTyped(u)'
    <3>1. PICK p \in Place : /\ step' = [step EXCEPT ![t] = p]
                             /\ p.at \in {"rest", "tip", "load", "reset"}
                             /\ p.at = "load" => FilesFit
                             /\ p.at \in {"load", "reset"} => p.for # "note"
      BY <2>2
    <3>2. p.at = "load" => DOMAIN metaFile'.byIndex \subseteq Nat \cup {Torn}
      BY <1>1, <2>1, <3>1 DEF FilesFit, MetaTyped
    <3> QED BY <1>1, <1>2, <2>1, <3>1, <3>2, PlacesStay
  <2> QED BY <1>1, <2>1, <2>3 DEF IndexTyped, BookTypeOK, MetaTyped
<1>6. ASSUME NEW t \in BookThread, Load(t) PROVE IndexTyped'
  <2>1. /\ file' = file /\ offsets' = offFile /\ byIndex' = metaFile.byIndex /\ meta' = metaFile
        /\ offFile' = offFile /\ metaFile' = metaFile /\ calm' = calm
        /\ DOMAIN metaFile.byIndex \subseteq Nat \cup {Torn}
    BY <1>1, <1>6 DEF Load, PlaceTyped
  <2>2. step' \in [BookThread -> Place] /\ \A u \in BookThread : PlaceTyped(u)'
    <3>1. Ensured(t)
      BY <1>6 DEF Load
    <3> QED BY <1>1, <1>2, <2>1, <3>1, EnsuredMoves, PlacesStay
  <2> QED BY <1>1, <2>1, <2>2 DEF IndexTyped, BookTypeOK, MetaTyped
<1>7. ASSUME NEW t \in BookThread, Reset(t) PROVE IndexTyped'
  <2> DEFINE p == [step[t] EXCEPT !.at = "scan", !.pos = 1]
  <2>1. /\ p \in Place /\ p.at = "scan" /\ p.pos \in 1 .. Len(file) + 1 /\ p.for # "note"
        /\ step' = [step EXCEPT ![t] = p]
    <3>1. step' = [step EXCEPT ![t] = p]
      BY <1>7 DEF Reset
    <3>2. step[t] \in Place /\ step[t].for # "note" /\ 1 \in 1 .. Len(file) + 1
      BY <1>1, <1>7 DEF Reset, PlaceTyped
    <3> QED BY <3>1, <3>2 DEF Place
  <2> HIDE DEF p
  <2>2. /\ file' = file /\ offsets' = << >> /\ byIndex' = << >> /\ meta' = meta
        /\ offFile' = offFile /\ metaFile' = metaFile /\ calm' = calm
    BY <1>7 DEF Reset
  <2>3. step' \in [BookThread -> Place] /\ \A u \in BookThread : PlaceTyped(u)'
    BY <1>1, <1>2, <2>1, <2>2, PlacesStay
  <2>4. << >> \in Seq(1 .. Len(file)) /\ DOMAIN << >> = {}
    OBVIOUS
  <2> QED BY <1>1, <2>2, <2>3, <2>4 DEF IndexTyped, BookTypeOK, MetaTyped
<1>8. ASSUME NEW t \in BookThread, ScanLine(t) PROVE IndexTyped'
  <2>1. /\ step[t] \in Place /\ step[t].at = "scan" /\ step[t].pos \in DOMAIN file
        /\ step[t].pos \in 1 .. Len(file) /\ step[t].pos \in Nat /\ step[t].for # "note"
    BY <1>1, <1>8 DEF ScanLine, PlaceTyped
  <2>2. /\ file' = file /\ byIndex' = byIndex /\ meta' = meta
        /\ offFile' = offFile /\ metaFile' = metaFile /\ calm' = calm
        /\ offsets' = Append(offsets, step[t].pos)
    BY <1>8 DEF ScanLine
  <2>3. offsets' \in Seq(1 .. Len(file))
    BY <1>1, <2>1, <2>2
  <2>4. \E p \in Place : /\ step' = [step EXCEPT ![t] = p] /\ p.at \in {"scan", "number"}
                         /\ p.at = "scan" => p.pos \in 1 .. Len(file) + 1 /\ p.for # "note"
                         /\ p.at = "number" => p.pos \in DOMAIN file
    <3>1. CASE file[step[t].pos] = Torn
      <4>1. LineEnd(step[t].pos) \in step[t].pos .. Len(file)
        BY <1>1, <2>1, LineEnds
      <4> DEFINE q == LineEnd(step[t].pos) + 1
      <4>2. q \in Nat /\ q \in 1 .. Len(file) + 1
        BY <1>1, <2>1, <4>1
      <4>3. step' = [step EXCEPT ![t] = [step[t] EXCEPT !.pos = q]]
        BY <1>8, <3>1 DEF ScanLine
      <4> HIDE DEF q
      <4>4. /\ [step[t] EXCEPT !.pos = q] \in Place
            /\ [step[t] EXCEPT !.pos = q].at = "scan" /\ [step[t] EXCEPT !.pos = q].pos = q
            /\ [step[t] EXCEPT !.pos = q].for # "note"
        BY <2>1, <4>2 DEF Place
      <4> QED BY <4>2, <4>3, <4>4
    <3>2. CASE file[step[t].pos] # Torn
      <4>1. Go(t, "number")
        BY <1>8, <3>2 DEF ScanLine
      <4>2. [step[t] EXCEPT !.at = "number"].at = "number" /\ [step[t] EXCEPT !.at = "number"].pos = step[t].pos
        BY <2>1 DEF Place
      <4> QED BY <1>1, <2>1, <4>1, <4>2, GoMoves
    <3> QED BY <3>1, <3>2
  <2>5. step' \in [BookThread -> Place] /\ \A u \in BookThread : PlaceTyped(u)'
    BY <1>1, <1>2, <2>2, <2>4, PlacesStay
  <2> QED BY <1>1, <2>2, <2>3, <2>5 DEF IndexTyped, BookTypeOK, MetaTyped
<1>9. ASSUME NEW t \in BookThread, ScanEnd(t) PROVE IndexTyped'
  <2>1. /\ file' = file /\ offsets' = offsets /\ byIndex' = byIndex /\ meta' = meta
        /\ offFile' = offFile /\ metaFile' = metaFile /\ calm' = calm
    BY <1>9 DEF ScanEnd, index
  <2>2. Go(t, "off") /\ [step[t] EXCEPT !.at = "off"].at = "off"
    BY <1>1, <1>9 DEF ScanEnd, Place
  <2>3. step' \in [BookThread -> Place] /\ \A u \in BookThread : PlaceTyped(u)'
    BY <1>1, <1>2, <2>1, <2>2, GoMoves, PlacesStay
  <2> QED BY <1>1, <2>1, <2>3 DEF IndexTyped, BookTypeOK, MetaTyped
<1>10. ASSUME NEW t \in BookThread, TakeNumber(t) PROVE IndexTyped'
  <2> DEFINE p == [step[t] EXCEPT !.at = "enter", !.line = LineNumber(offsets)]
  <2>1. /\ p \in Place /\ p.at = "enter" /\ p.pos = step[t].pos /\ p.pos \in DOMAIN file
        /\ step' = [step EXCEPT ![t] = p]
    <3>1. LineNumber(offsets) \in Nat /\ step[t] \in Place /\ step[t].pos \in DOMAIN file
      BY <1>1, <1>10 DEF TakeNumber, LineNumber, PlaceTyped
    <3>2. step' = [step EXCEPT ![t] = p]
      BY <1>10 DEF TakeNumber
    <3> QED BY <3>1, <3>2 DEF Place
  <2> HIDE DEF p
  <2>2. /\ file' = file /\ offsets' = offsets /\ byIndex' = byIndex /\ meta' = meta
        /\ offFile' = offFile /\ metaFile' = metaFile /\ calm' = calm
    BY <1>10 DEF TakeNumber, index
  <2>3. step' \in [BookThread -> Place] /\ \A u \in BookThread : PlaceTyped(u)'
    BY <1>1, <1>2, <2>1, <2>2, PlacesStay
  <2> QED BY <1>1, <2>2, <2>3 DEF IndexTyped, BookTypeOK, MetaTyped
<1>11. ASSUME NEW t \in BookThread, EnterNumber(t) PROVE IndexTyped'
  <2>1. /\ file' = file /\ offsets' = offsets /\ meta' = meta
        /\ offFile' = offFile /\ metaFile' = metaFile /\ calm' = calm
    BY <1>11 DEF EnterNumber
  <2>2. step[t] \in Place /\ step[t].pos \in DOMAIN file /\ file[step[t].pos] \in Nat \cup {Torn}
    BY <1>1, <1>11 DEF EnterNumber, PlaceTyped
  <2>3. DOMAIN byIndex' \subseteq Nat \cup {Torn}
    BY <1>1, <1>11, <2>2 DEF EnterNumber
  <2>4. \E p \in Place : /\ step' = [step EXCEPT ![t] = p] /\ p.at \in {"scan", "off"}
                         /\ p.at = "scan" => p.pos \in 1 .. Len(file) + 1 /\ p.for # "note"
    <3>1. CASE step[t].for = "note"
      <4>1. step' = [step EXCEPT ![t] = [step[t] EXCEPT !.at = "off"]]
        BY <1>1, <1>11, <3>1, GoMoves DEF EnterNumber
      <4>2. [step[t] EXCEPT !.at = "off"] \in Place /\ [step[t] EXCEPT !.at = "off"].at = "off"
        BY <2>2 DEF Place
      <4> QED BY <4>1, <4>2
    <3>2. CASE step[t].for # "note"
      <4> DEFINE q == step[t].pos + 1
                 p == [step[t] EXCEPT !.at = "scan", !.pos = q]
      <4>1. step' = [step EXCEPT ![t] = p]
        <5>1. step' = [step EXCEPT ![t].at = "scan", ![t].pos = q]
          BY <1>11, <3>2 DEF EnterNumber
        <5> HIDE DEF q
        <5> QED BY <1>1, <5>1
      <4>2. q \in Nat /\ q \in 1 .. Len(file) + 1
        BY <1>1, <2>2
      <4> HIDE DEF q
      <4>3. p \in Place /\ p.at = "scan" /\ p.pos = q /\ p.for # "note"
        BY <2>2, <3>2, <4>2 DEF Place
      <4> QED BY <4>1, <4>2, <4>3
    <3> QED BY <3>1, <3>2
  <2>5. step' \in [BookThread -> Place] /\ \A u \in BookThread : PlaceTyped(u)'
    BY <1>1, <1>2, <2>1, <2>4, PlacesStay
  <2> QED BY <1>1, <2>1, <2>3, <2>5 DEF IndexTyped, BookTypeOK, MetaTyped
<1>12. ASSUME NEW t \in BookThread, WriteOff(t) PROVE IndexTyped'
  <2>1. /\ file' = file /\ offsets' = offsets /\ byIndex' = byIndex /\ meta' = meta
        /\ offFile' = offsets /\ metaFile' = metaFile /\ calm' = calm
    BY <1>12 DEF WriteOff, index
  <2>2. \E p \in Place : p.at = "meta" /\ step' = [step EXCEPT ![t] = p]
    <3>1. Go(t, "meta") /\ [step[t] EXCEPT !.at = "meta"].at = "meta"
      BY <1>1, <1>12 DEF WriteOff, Place
    <3> QED BY <1>1, <3>1, GoMoves
  <2>3. step' \in [BookThread -> Place] /\ \A u \in BookThread : PlaceTyped(u)'
    BY <1>1, <1>2, <2>1, <2>2, PlacesStay
  <2> QED BY <1>1, <2>1, <2>3 DEF IndexTyped, BookTypeOK, MetaTyped
<1>13. ASSUME NEW t \in BookThread, WriteMeta(t) PROVE IndexTyped'
  <2>1. /\ file' = file /\ offsets' = offsets /\ byIndex' = byIndex /\ meta' = NewMeta
        /\ offFile' = offFile /\ metaFile' = NewMeta /\ calm' = calm /\ Ensured(t)
    BY <1>13 DEF WriteMeta
  <2>2. /\ NewMeta.size \in 0 .. Len(file) /\ NewMeta.count \in Nat
        /\ DOMAIN NewMeta.byIndex \subseteq Nat \cup {Torn}
    BY <1>1 DEF NewMeta
  <2>3. step' \in [BookThread -> Place] /\ \A u \in BookThread : PlaceTyped(u)'
    <3>1. PICK p \in Place : p.at \in {"rest", "tip"} /\ step' = [step EXCEPT ![t] = p]
      BY <1>1, <2>1, EnsuredMoves
    <3> QED BY <1>1, <1>2, <2>1, <2>2, <3>1, PlacesStay
  <2> QED BY <1>1, <2>1, <2>2, <2>3 DEF IndexTyped, BookTypeOK, MetaTyped
<1>14. ASSUME ReadTip PROVE IndexTyped'
  <2> DEFINE p == [step[Appender] EXCEPT !.at = "write", !.for = "note", !.next = NextIndex]
  <2>1. NextIndex \in Nat
    <3>1. CASE offsets = << >>
      BY <3>1 DEF NextIndex
    <3>2. CASE offsets # << >>
      <4>1. Last(offsets) \in DOMAIN file /\ Len(offsets) \in Nat
        BY <1>1, <3>2 DEF Last
      <4>2. file[Last(offsets)] \in Nat \cup {Torn}
        BY <1>1, <4>1
      <4> QED BY <3>2, <4>1, <4>2 DEF NextIndex
    <3> QED BY <3>1, <3>2
  <2>2. p \in Place /\ p.at = "write" /\ step' = [step EXCEPT ![Appender] = p]
    BY <1>1, <1>2, <1>14, <2>1 DEF ReadTip, Place
  <2> HIDE DEF p
  <2>3. /\ file' = file /\ offsets' = offsets /\ byIndex' = byIndex /\ meta' = meta
        /\ offFile' = offFile /\ metaFile' = metaFile /\ calm' = calm
    BY <1>14 DEF ReadTip, index
  <2>4. step' \in [BookThread -> Place] /\ \A u \in BookThread : PlaceTyped(u)'
    BY <1>1, <1>2, <2>2, <2>3, PlacesStay
  <2> QED BY <1>1, <2>3, <2>4 DEF IndexTyped, BookTypeOK, MetaTyped
<1>15. ASSUME NEW x \in Nat \cup {Torn}, file' = Append(file, x)
       PROVE  /\ file' \in Seq(Nat \cup {Torn}) /\ Len(file') = Len(file) + 1
              /\ DOMAIN file' = 1 .. Len(file')
              /\ \A s : s \in Seq(1 .. Len(file)) => s \in Seq(1 .. Len(file'))
              /\ 0 .. Len(file) \subseteq 0 .. Len(file')
  <2>1. file' \in Seq(Nat \cup {Torn}) /\ Len(file') = Len(file) + 1 /\ DOMAIN file' = 1 .. Len(file')
    BY <1>1, <1>15
  <2>2. 1 .. Len(file) \subseteq 1 .. Len(file') /\ 0 .. Len(file) \subseteq 0 .. Len(file')
    BY <1>1, <2>1
  <2> QED BY <2>1, <2>2, WiderSeq
<1>16. ASSUME WriteLine PROVE IndexTyped'
  <2> DEFINE x == step[Appender].next
             p == [step[Appender] EXCEPT !.at = "note", !.pos = Len(file')]
  <2>1. /\ x \in Nat /\ file' = Append(file, x) /\ Len(file) < MaxPieces
        /\ step[Appender] \in Place
    BY <1>1, <1>2, <1>16 DEF WriteLine, Place
  <2> HIDE DEF x
  <2>2. /\ file' \in Seq(Nat \cup {Torn}) /\ Len(file') = Len(file) + 1 /\ Len(file') <= MaxPieces
        /\ DOMAIN file' = 1 .. Len(file') /\ Len(file') \in DOMAIN file'
        /\ Len(file') \in Nat /\ Len(file) <= Len(file')
        /\ offsets \in Seq(1 .. Len(file')) /\ offFile \in Seq(1 .. Len(file'))
        /\ 0 .. Len(file) \subseteq 0 .. Len(file')
    BY <1>1, <1>15, <2>1, BookAssumption
  <2>3. /\ p \in Place /\ p.at = "note" /\ p.pos \in DOMAIN file'
        /\ step' = [step EXCEPT ![Appender] = p]
    <3>1. step' = [step EXCEPT ![Appender] = p]
      BY <1>16 DEF WriteLine
    <3> QED BY <2>1, <2>2, <3>1 DEF Place
  <2> HIDE DEF p
  <2>4. /\ offsets' = offsets /\ byIndex' = byIndex /\ meta' = meta
        /\ offFile' = offFile /\ metaFile' = metaFile /\ calm' \in {"whole", "torn", "crossed"}
    BY <1>2, <1>3, <1>16 DEF WriteLine, index
  <2>5. step' \in [BookThread -> Place] /\ \A u \in BookThread : PlaceTyped(u)'
    <3>1. p.at \notin {"ensure", "load", "reset", "scan", "number", "enter"} /\ metaFile' = metaFile
      BY <2>3, <2>4
    <3> QED BY <1>2, <2>2, <2>3, <3>1, PlacesStay
  <2> QED BY <1>1, <2>2, <2>4, <2>5 DEF IndexTyped, BookTypeOK, MetaTyped
<1>17. ASSUME NoteAppended PROVE IndexTyped'
  <2>1. /\ file' = file /\ byIndex' = byIndex /\ meta' = meta
        /\ offFile' = offFile /\ metaFile' = metaFile /\ calm' = calm
        /\ offsets' = Append(offsets, step[Appender].pos)
    BY <1>17 DEF NoteAppended
  <2>2. step[Appender].pos \in DOMAIN file /\ Go(Appender, "number") /\ step[Appender] \in Place
    BY <1>1, <1>2, <1>17 DEF NoteAppended, PlaceTyped
  <2>3. offsets' \in Seq(1 .. Len(file))
    BY <1>1, <2>1, <2>2
  <2>4. /\ [step[Appender] EXCEPT !.at = "number"].at = "number"
        /\ [step[Appender] EXCEPT !.at = "number"].pos = step[Appender].pos
    BY <2>2 DEF Place
  <2>5. step' \in [BookThread -> Place] /\ \A u \in BookThread : PlaceTyped(u)'
    BY <1>1, <1>2, <2>1, <2>2, <2>4, GoMoves, PlacesStay
  <2> QED BY <1>1, <2>1, <2>3, <2>5 DEF IndexTyped, BookTypeOK, MetaTyped
<1>18. ASSUME Die PROVE IndexTyped'
  <2> DEFINE boot == [AtRest EXCEPT !.at = "ensure", !.for = "boot"]
  <2>1. boot \in Place /\ boot.at = "ensure" /\ boot.for = "boot" /\ AtRest \in Place /\ AtRest.at = "rest"
    BY DEF AtRest, Place
  <2>2. /\ offsets' = << >> /\ byIndex' = << >> /\ meta' = NoMeta
        /\ step' = [t \in BookThread |-> IF t = Appender THEN boot ELSE AtRest]
        /\ calm' \in {"whole", "torn", "crossed"}
    BY <1>1, <1>18 DEF Die
  <2> HIDE DEF boot
  <2>3. step' \in [BookThread -> Place] /\ \A u \in BookThread : PlaceTyped(u)'
    BY <2>1, <2>2 DEF PlaceTyped
  <2>4. \A S : << >> \in Seq(S) /\ DOMAIN << >> = {}
    OBVIOUS
  <2>5. CASE UNCHANGED <<file, offFile, metaFile>>
    BY <1>1, <2>2, <2>3, <2>4, <2>5 DEF IndexTyped, BookTypeOK, MetaTyped
  <2>6. CASE file' = Append(file, Torn) /\ Len(file) < MaxPieces /\ UNCHANGED <<offFile, metaFile>>
    <3>1. /\ file' \in Seq(Nat \cup {Torn}) /\ Len(file') = Len(file) + 1 /\ Len(file') <= MaxPieces
          /\ offFile \in Seq(1 .. Len(file')) /\ 0 .. Len(file) \subseteq 0 .. Len(file')
      BY <1>1, <1>15, <2>6, BookAssumption
    <3> QED BY <1>1, <2>2, <2>3, <2>4, <2>6, <3>1 DEF IndexTyped, BookTypeOK, MetaTyped
  <2>7. CASE (\E n \in 0 .. Len(offsets) : offFile' = SubSeq(offsets, 1, n)) /\ UNCHANGED <<file, metaFile>>
    <3>1. offFile' \in Seq(1 .. Len(file))
      BY <1>1, <2>7
    <3> QED BY <1>1, <2>2, <2>3, <2>4, <2>7, <3>1 DEF IndexTyped, BookTypeOK, MetaTyped
  <2>8. CASE metaFile' = NoMeta /\ UNCHANGED <<file, offFile>>
    BY <1>1, <2>2, <2>3, <2>4, <2>8 DEF IndexTyped, BookTypeOK, MetaTyped
  <2> QED BY <1>18, <2>5, <2>6, <2>7, <2>8 DEF Die
<1>19. CASE UNCHANGED bookVars
  BY <1>1, <1>19 DEF bookVars, index, IndexTyped, BookTypeOK, MetaTyped, PlaceTyped
<1> QED BY <1>4, <1>5, <1>6, <1>7, <1>8, <1>9, <1>10, <1>11, <1>12, <1>13, <1>14, <1>16,
           <1>17, <1>18, <1>19 DEF BookNext

-----------------------------------------------------------------------------
(* The index of a book: what it says                                       *)

\* Every entry leads to a line that begins with its index.
Leads(f, offs, by) == \A c \in DOMAIN by : by[c] \in DOMAIN offs /\ f[offs[by[c]]] = c

\* The first n pieces are the first n lines, ...
EveryLine(offs, n) == Len(offs) = n /\ \A k \in 1 .. n : offs[k] = k

\* ... and every index among them leads to the first of its lines.
Firsts(f, by, n) ==
    /\ \A c \in DOMAIN by : \E k \in 1 .. n : c = f[k]
    /\ \A k \in 1 .. n : f[k] \in DOMAIN by /\ by[f[k]] \in 1 .. k /\ f[by[f[k]]] = f[k]

\* The files on disk are none that ensure() would load.
Dull == file = << >> \/ metaFile = NoMeta \/ metaFile.size # Len(file) \/ metaFile.byIndex = << >>

\* The one thread that changes the index, step by step.
AtWork(t) ==
    /\ step[t].at \in {"note", "reset", "scan", "number", "enter", "off"} => Dull
    /\ step[t].at = "load" => FilesFit
    /\ step[t].at = "meta" => offFile = offsets
    /\ step[t].at = "number" => offsets # << >> /\ Last(offsets) = step[t].pos
    /\ step[t].at = "enter" =>
           step[t].line \in DOMAIN offsets /\ file[offsets[step[t].line]] = file[step[t].pos]

\* While the process starts, the appender is in ensure(), alone.
BootPlaces == {"load", "reset", "scan", "number", "enter", "off", "meta"}

Starting == Booting =>
    /\ \A t \in Reader : step[t] = AtRest
    /\ step[Appender].at \in {"ensure"} \cup BootPlaces
    /\ step[Appender].at = "ensure" => offsets = << >>

\* As long as no two threads have changed the index at once: it leads to right
\* lines, in memory and on disk, whatever lines are torn.
Sound ==
    /\ \A t, u \in BookThread : Changing(t) /\ Changing(u) => t = u
    /\ Leads(file, offsets, byIndex)
    /\ Dull \/ (metaFile.count = Len(offFile) /\ Leads(file, offFile, metaFile.byIndex))
    /\ \A t \in BookThread : AtWork(t)
    /\ Starting

\* As long as no line was torn either: how much of the file it holds.
Holding(t) ==
    /\ step[t].at = "note" =>
           /\ step[t].pos = Len(file)
           /\ EveryLine(offsets, Len(file) - 1) /\ Firsts(file, byIndex, Len(file) - 1)
    /\ step[t].at = "scan" => EveryLine(offsets, step[t].pos - 1) /\ Firsts(file, byIndex, step[t].pos - 1)
    /\ step[t].at \in {"number", "enter"} =>
           /\ EveryLine(offsets, step[t].pos) /\ Firsts(file, byIndex, step[t].pos - 1)
           /\ step[t].for = "note" => step[t].pos = Len(file)
    /\ step[t].at = "enter" => step[t].line = step[t].pos
    /\ step[t].at \in {"off", "meta"} => EveryLine(offsets, Len(file)) /\ Firsts(file, byIndex, Len(file))

Whole ==
    /\ \A k \in DOMAIN file : file[k] # Torn
    /\ (\A t \in BookThread : ~Changing(t)) /\ ~Booting =>
           EveryLine(offsets, Len(file)) /\ Firsts(file, byIndex, Len(file))
    /\ Dull \/ (EveryLine(offFile, Len(file)) /\ Firsts(file, metaFile.byIndex, Len(file)))
    /\ \A t \in BookThread : Holding(t)

\* The inductive invariant.
IndexInv ==
    /\ IndexTyped
    /\ calm # "crossed" => Sound
    /\ calm = "whole" => Whole

\* What the invariant says of the types a step needs.
LEMMA IndexFacts ==
    ASSUME IndexTyped
    PROVE  /\ file \in Seq(Nat \cup {Torn}) /\ Len(file) \in Nat /\ DOMAIN file = 1 .. Len(file)
           /\ offsets \in Seq(1 .. Len(file)) /\ Len(offsets) \in Nat
           /\ DOMAIN offsets = 1 .. Len(offsets)
           /\ offFile \in Seq(1 .. Len(file)) /\ DOMAIN offFile = 1 .. Len(offFile)
           /\ step \in [BookThread -> Place] /\ calm \in {"whole", "torn", "crossed"}
           /\ metaFile # NoMeta => metaFile.size \in 0 .. Len(file)
           /\ Appender \in BookThread
  BY DEF IndexTyped, BookTypeOK, BookThread

\* A line more changes nothing of what was said of the lines before.
LEMMA LeadsStill ==
    ASSUME NEW f \in Seq(Nat \cup {Torn}), NEW x, NEW g, g = Append(f, x),
           NEW offs \in Seq(1 .. Len(f)), NEW by, Leads(f, offs, by)
    PROVE  Leads(g, offs, by)
<1>1. \A k \in 1 .. Len(f) : g[k] = f[k]
  OBVIOUS
<1>2. \A l \in DOMAIN offs : offs[l] \in 1 .. Len(f)
  OBVIOUS
<1> QED BY <1>1, <1>2 DEF Leads

LEMMA LeadsMore ==
    ASSUME NEW f, NEW offs \in Seq(Nat), NEW p \in Nat, NEW by, Leads(f, offs, by)
    PROVE  Leads(f, Append(offs, p), by)
<1>1. \A l \in DOMAIN offs : l \in DOMAIN Append(offs, p) /\ Append(offs, p)[l] = offs[l]
  OBVIOUS
<1> QED BY <1>1 DEF Leads

LEMMA FirstsStill ==
    ASSUME NEW f \in Seq(Nat \cup {Torn}), NEW x, NEW g, g = Append(f, x),
           NEW by, NEW n, n = Len(f), Firsts(f, by, n)
    PROVE  Firsts(g, by, n)
<1>1. \A k \in 1 .. n : g[k] = f[k] /\ 1 .. k \subseteq 1 .. n
  OBVIOUS
<1> QED BY <1>1 DEF Firsts

LEMMA LinesMore ==
    ASSUME NEW offs \in Seq(Nat), NEW n \in Nat, EveryLine(offs, n)
    PROVE  EveryLine(Append(offs, n + 1), n + 1)
<1>1. /\ Len(Append(offs, n + 1)) = n + 1 /\ Append(offs, n + 1)[n + 1] = n + 1
      /\ \A k \in 1 .. n : Append(offs, n + 1)[k] = offs[k]
  BY DEF EveryLine
<1>2. \A k \in 1 .. n + 1 : k = n + 1 \/ k \in 1 .. n
  OBVIOUS
<1> QED BY <1>1, <1>2 DEF EveryLine

\* The entry of an index that may be there already.
Entered(by, c, line) ==
    IF c \in DOMAIN by THEN by
    ELSE [d \in DOMAIN by \cup {c} |-> IF d = c THEN line ELSE by[d]]

LEMMA LeadsEntered ==
    ASSUME NEW f, NEW offs, NEW by, NEW c, NEW line, Leads(f, offs, by),
           line \in DOMAIN offs, f[offs[line]] = c
    PROVE  Leads(f, offs, Entered(by, c, line))
  BY DEF Leads, Entered

LEMMA FirstsEntered ==
    ASSUME NEW f, NEW by, NEW p \in Nat \ {0}, Firsts(f, by, p - 1)
    PROVE  Firsts(f, Entered(by, f[p], p), p)
<1> DEFINE new == Entered(by, f[p], p)
<1> SUFFICES Firsts(f, new, p)
  OBVIOUS
<1>1. \A k \in 1 .. p : k = p \/ k \in 1 .. p - 1
  OBVIOUS
<1>2. 1 .. p - 1 \subseteq 1 .. p /\ p \in 1 .. p
  OBVIOUS
<1>5. ASSUME NEW m, \A c \in DOMAIN m : \E k \in 1 .. p : c = f[k],
             \A k \in 1 .. p - 1 : f[k] \in DOMAIN m /\ m[f[k]] \in 1 .. k /\ f[m[f[k]]] = f[k],
             f[p] \in DOMAIN m, m[f[p]] \in 1 .. p, f[m[f[p]]] = f[p]
      PROVE  Firsts(f, m, p)
  <2>1. ASSUME NEW k \in 1 .. p PROVE f[k] \in DOMAIN m /\ m[f[k]] \in 1 .. k /\ f[m[f[k]]] = f[k]
    <3>1. CASE k = p
      BY <3>1, <1>5
    <3>2. CASE k \in 1 .. p - 1
      BY <3>2, <1>5
    <3> QED BY <3>1, <3>2, <1>1
  <2> QED BY <2>1, <1>5 DEF Firsts
<1>3. CASE f[p] \in DOMAIN by
  <2>1. new = by
    BY <1>3 DEF Entered
  <2>2. PICK l \in 1 .. p - 1 : f[p] = f[l]
    BY <1>3 DEF Firsts
  <2>3. by[f[p]] \in 1 .. l /\ f[by[f[p]]] = f[p] /\ 1 .. l \subseteq 1 .. p
    BY <2>2 DEF Firsts
  <2>4. by[f[p]] \in 1 .. p
    BY <2>3
  <2> HIDE DEF new
  <2>5. \A c \in DOMAIN new : \E k \in 1 .. p : c = f[k]
    BY <2>1, <1>2 DEF Firsts
  <2>6. \A k \in 1 .. p - 1 : f[k] \in DOMAIN new /\ new[f[k]] \in 1 .. k /\ f[new[f[k]]] = f[k]
    BY <2>1 DEF Firsts
  <2>7. f[p] \in DOMAIN new /\ new[f[p]] \in 1 .. p /\ f[new[f[p]]] = f[p]
    BY <2>1, <2>3, <2>4, <1>3
  <2> QED BY <2>5, <2>6, <2>7, <1>5
<1>4. CASE f[p] \notin DOMAIN by
  <2>1. /\ DOMAIN new = DOMAIN by \cup {f[p]} /\ new[f[p]] = p
        /\ \A d \in DOMAIN by : new[d] = by[d]
    BY <1>4 DEF Entered
  <2> HIDE DEF new
  <2>2. \A c \in DOMAIN new : \E k \in 1 .. p : c = f[k]
    BY <2>1, <1>2 DEF Firsts
  <2>3. \A k \in 1 .. p - 1 : f[k] \in DOMAIN new /\ new[f[k]] \in 1 .. k /\ f[new[f[k]]] = f[k]
    BY <2>1 DEF Firsts
  <2>4. f[p] \in DOMAIN new /\ new[f[p]] \in 1 .. p /\ f[new[f[p]]] = f[p]
    BY <2>1, <1>2
  <2> QED BY <2>2, <2>3, <2>4, <1>5
<1> QED BY <1>3, <1>4

\* A thread that alone changes the index takes a step, or begins to.
LEMMA AloneGoesOn ==
    ASSUME IndexTyped, Sound, NEW t \in BookThread, NEW p \in Place,
           step' = [step EXCEPT ![t] = p],
           \A u \in BookThread : u # t => ~Changing(u),
           step[t].at # "rest",
           p.for = "boot" => step[t].for = "boot" /\ p.at \in BootPlaces,
           Leads(file', offsets', byIndex'),
           Dull' \/ (metaFile'.count = Len(offFile') /\ Leads(file', offFile', metaFile'.byIndex)),
           AtWork(t)'
    PROVE  Sound'
<1>1. /\ step' \in [BookThread -> Place] /\ step'[t] = p
      /\ \A u \in BookThread : u # t => step'[u] = step[u]
  BY IndexFacts, Moved
<1>2. \A u \in BookThread : u # t => ~Changing(u)' /\ AtWork(u)'
  BY <1>1 DEF Changing, AtWork
<1>3. \A u, v \in BookThread : Changing(u)' /\ Changing(v)' => u = v
  BY <1>2
<1>4. Starting'
  <2> SUFFICES ASSUME Booting'
               PROVE  /\ \A u \in Reader : step'[u] = AtRest
                      /\ step'[Appender].at \in BootPlaces
    BY DEF Starting, BootPlaces
  <2>1. Appender \in BookThread /\ Reader \subseteq BookThread /\ Appender \notin Reader
    BY BookAssumption DEF BookThread
  <2>2. CASE t = Appender
    <3>1. p.for = "boot" /\ Booting
      BY <2>2, <1>1 DEF Booting
    <3> QED BY <3>1, <2>1, <2>2, <1>1 DEF Sound, Starting
  <2>3. CASE t # Appender
    <3>1. Booting /\ t \in Reader
      BY <2>1, <2>3, <1>1 DEF Booting, BookThread
    <3>2. step[t].at = "rest"
      BY <3>1 DEF Sound, Starting, AtRest
    <3> QED BY <3>2
  <2> QED BY <2>2, <2>3
<1> QED BY <1>2, <1>3, <1>4 DEF Sound

LEMMA AloneHolds ==
    ASSUME IndexTyped, NEW t \in BookThread, NEW p \in Place,
           step' = [step EXCEPT ![t] = p],
           \A u \in BookThread : u # t => ~Changing(u),
           \A k \in DOMAIN file' : file'[k] # Torn,
           ~Changing(t)' => EveryLine(offsets', Len(file')) /\ Firsts(file', byIndex', Len(file')),
           Dull' \/ (EveryLine(offFile', Len(file')) /\ Firsts(file', metaFile'.byIndex, Len(file'))),
           Holding(t)'
    PROVE  Whole'
<1>1. /\ step' \in [BookThread -> Place] /\ step'[t] = p
      /\ \A u \in BookThread : u # t => step'[u] = step[u]
  BY IndexFacts, Moved
<1>2. \A u \in BookThread : u # t => Holding(u)'
  BY <1>1 DEF Changing, Holding
<1> QED BY <1>2 DEF Whole

\* A thread that does not change the index goes from one place to another.
LEMMA PassesBy ==
    ASSUME IndexTyped, NEW t \in BookThread, NEW p \in Place,
           step' = [step EXCEPT ![t] = p],
           step[t].at \in {"rest", "ensure", "tip", "write"},
           p.at \in {"rest", "ensure", "tip", "write"}, p.for # "boot",
           t = Appender \/ ~Booting, MemoryFits \/ ~Booting,
           file' = file, offsets' = offsets, byIndex' = byIndex, meta' = meta,
           offFile' = offFile, metaFile' = metaFile
    PROVE  /\ Sound => Sound'
           /\ Sound /\ Whole => Whole'
<1>1. /\ step' \in [BookThread -> Place] /\ step'[t] = p
      /\ \A u \in BookThread : u # t => step'[u] = step[u]
  BY IndexFacts, Moved
<1>2. \A u \in BookThread : Changing(u)' <=> Changing(u)
  BY <1>1 DEF Changing
<1>3. Dull' = Dull /\ FilesFit' = FilesFit
  BY DEF Dull, FilesFit
<1>4. \A u \in BookThread : (AtWork(u) => AtWork(u)') /\ (Holding(u) => Holding(u)')
  BY <1>1, <1>3 DEF AtWork, Holding
<1>5. Appender \in BookThread
  BY IndexFacts
<1>6. ASSUME Sound PROVE Sound' /\ (Whole => Whole')
  <2>1. CASE Booting
    <3>1. t = Appender /\ step[t].at = "ensure" /\ offsets = << >>
      BY <1>6, <2>1 DEF Sound, Starting, BootPlaces
    <3> QED BY <3>1, <2>1 DEF MemoryFits
  <2>2. CASE ~Booting
    <3>1. ~Booting'
      BY <2>2, <1>1, <1>5 DEF Booting
    <3>2. Sound'
      BY <1>2, <1>3, <1>4, <1>6, <3>1 DEF Sound, Starting
    <3>3. Whole => Whole'
      BY <1>2, <1>3, <1>4, <2>2 DEF Whole
    <3> QED BY <3>2, <3>3
  <2> QED BY <2>1, <2>2
<1> QED BY <1>6

\* calm, where a thread begins to change the index.
LEMMA NotMet ==
    ASSUME IndexTyped, NEW t \in BookThread, Meets(t), calm' # "crossed"
    PROVE  calm' = calm /\ \A u \in BookThread : u # t => ~Changing(u)
  BY DEF Meets

\* Where nothing crossed, the files that ensure() refuses are dull.
LEMMA Refused == ASSUME Sound, ~FilesFit PROVE Dull
<1>1. SUFFICES ASSUME ~Dull PROVE FALSE
  OBVIOUS
<1>2. metaFile.count = Len(offFile)
  BY <1>1 DEF Sound
<1> QED BY <1>1, <1>2 DEF FilesFit, Dull

-----------------------------------------------------------------------------
(* The index of a book: its steps                                          *)

LEMMA EnterEnsureKeeps ==
    ASSUME IndexInv, NEW t \in BookThread, EnterEnsure(t), calm' # "crossed"
    PROVE  Sound' /\ (calm' = "whole" => Whole')
<1> DEFINE p == [AtRest EXCEPT !.at = "ensure", !.for = IF t = Appender THEN "append" ELSE "read"]
<1>1. /\ p \in Place /\ p.at = "ensure" /\ p.for # "boot" /\ step' = [step EXCEPT ![t] = p]
      /\ step[t].at = "rest" /\ ~Booting
  <2>1. step' = [step EXCEPT ![t] = p] /\ step[t] = AtRest /\ ~Booting
    BY DEF EnterEnsure
  <2>2. p \in Place /\ p.at = "ensure" /\ p.for # "boot" /\ AtRest.at = "rest"
    BY DEF AtRest, Place
  <2> QED BY <2>1, <2>2
<1> HIDE DEF p
<1>2. /\ file' = file /\ offsets' = offsets /\ byIndex' = byIndex /\ meta' = meta
      /\ offFile' = offFile /\ metaFile' = metaFile /\ calm' = calm
  BY DEF EnterEnsure, index
<1> QED BY <1>1, <1>2, PassesBy DEF IndexInv

LEMMA EnsureKeeps ==
    ASSUME IndexInv, NEW t \in BookThread, Ensure(t), calm' # "crossed"
    PROVE  Sound' /\ (calm' = "whole" => Whole')
<1>1. /\ file' = file /\ offsets' = offsets /\ byIndex' = byIndex /\ meta' = meta
      /\ offFile' = offFile /\ metaFile' = metaFile /\ step[t].at = "ensure"
      /\ step \in [BookThread -> Place]
  BY IndexFacts DEF Ensure, index, IndexInv
<1>2. CASE MemoryFits /\ Ensured(t) /\ calm' = calm
  <2>1. Sound /\ (calm' = "whole" => Whole)
    BY <1>2 DEF IndexInv
  <2>2. t = Appender \/ ~Booting
    BY <2>1, <1>1 DEF Sound, Starting, AtRest, BookThread
  <2>3. PICK p \in Place : p.at \in {"rest", "tip"} /\ p.for # "boot" /\ step' = [step EXCEPT ![t] = p]
    BY <1>1, <1>2, EnsuredMoves
  <2> QED BY <1>1, <1>2, <2>1, <2>2, <2>3, PassesBy DEF IndexInv
<1>3. CASE /\ ~MemoryFits /\ Meets(t)
           /\ Go(t, IF FilesFit THEN "load" ELSE "reset")
  <2>1. calm' = calm /\ \A u \in BookThread : u # t => ~Changing(u)
    BY <1>3, NotMet DEF IndexInv
  <2>2. Sound /\ (calm' = "whole" => Whole) /\ IndexTyped
    BY <2>1 DEF IndexInv
  <2>3. PICK at \in {"load", "reset"} :
            Go(t, at) /\ (at = "load" => FilesFit) /\ (at = "reset" => ~FilesFit)
    <3>1. CASE FilesFit
      BY <1>3, <3>1
    <3>2. CASE ~FilesFit
      BY <1>3, <3>2
    <3> QED BY <3>1, <3>2
  <2> DEFINE p == [step[t] EXCEPT !.at = at]
  <2>4. /\ p \in Place /\ p.at = at /\ p.for = step[t].for /\ step' = [step EXCEPT ![t] = p]
    <3>1. p.at = at /\ p.for = step[t].for
      BY <1>1 DEF Place
    <3>2. p \in Place
      BY <1>1 DEF Place
    <3>3. step' = [step EXCEPT ![t] = p]
      BY <2>3 DEF Go
    <3> QED BY <3>1, <3>2, <3>3
  <2> HIDE DEF p
  <2>5. step'[t] = p /\ (Dull' <=> Dull) /\ (FilesFit' <=> FilesFit)
    <3>1. step'[t] = p
      BY <1>1, <2>4, Moved
    <3>2. file' = file /\ offFile' = offFile /\ metaFile' = metaFile
      BY <1>1
    <3>3. Dull' <=> Dull
      BY <3>2 DEF Dull
    <3>4. FilesFit' <=> FilesFit
      BY <3>2 DEF FilesFit
    <3> QED BY <3>1, <3>3, <3>4
  <2>6. AtWork(t)' /\ Holding(t)' /\ Changing(t)'
    <3>1. step'[t].at = at
      BY <2>4, <2>5
    <3>2. at = "reset" => Dull'
      BY <2>2, <2>3, <2>5, Refused
    <3>3. at = "load" => FilesFit'
      BY <2>3, <2>5
    <3> QED BY <3>1, <3>2, <3>3 DEF AtWork, Holding, Changing
  <2>7. /\ Leads(file', offsets', byIndex')
        /\ Dull' \/ (metaFile'.count = Len(offFile') /\ Leads(file', offFile', metaFile'.byIndex))
    BY <1>1, <2>2, <2>5 DEF Sound
  <2>8. Sound'
    BY <1>1, <2>1, <2>2, <2>4, <2>6, <2>7, AloneGoesOn DEF BootPlaces
  <2>9. ASSUME calm' = "whole" PROVE Whole'
    <3>1. /\ \A k \in DOMAIN file' : file'[k] # Torn
          /\ Dull' \/ (EveryLine(offFile', Len(file')) /\ Firsts(file', metaFile'.byIndex, Len(file')))
      BY <1>1, <2>2, <2>5, <2>9 DEF Whole
    <3>2. IndexTyped
      BY <2>2
    <3> QED BY <2>1, <2>4, <2>6, <3>1, <3>2, AloneHolds
  <2> QED BY <2>8, <2>9
<1> QED BY <1>2, <1>3 DEF Ensure

\* The thread that changes the index is the only one.
LEMMA TheOne ==
    ASSUME IndexInv, NEW t \in BookThread, Changing(t), calm # "crossed"
    PROVE  /\ Sound /\ (calm = "whole" => Whole) /\ IndexTyped /\ AtWork(t)
           /\ calm = "whole" => Holding(t)
           /\ \A u \in BookThread : u # t => ~Changing(u)
           /\ step[t] \in Place /\ step[t].at # "rest"
  BY IndexFacts DEF IndexInv, Sound, Whole, Changing

LEMMA LoadKeeps ==
    ASSUME IndexInv, NEW t \in BookThread, Load(t), calm' # "crossed"
    PROVE  Sound' /\ (calm' = "whole" => Whole')
<1>1. /\ file' = file /\ offsets' = offFile /\ byIndex' = metaFile.byIndex
      /\ offFile' = offFile /\ metaFile' = metaFile /\ calm' = calm /\ Ensured(t)
      /\ step[t].at = "load"
  BY DEF Load
<1>2. /\ Sound /\ (calm = "whole" => Whole) /\ IndexTyped /\ AtWork(t)
      /\ \A u \in BookThread : u # t => ~Changing(u)
      /\ step[t].at # "rest" /\ step \in [BookThread -> Place]
  BY <1>1, TheOne, IndexFacts DEF Changing
<1>3. PICK p \in Place : /\ p.at \in {"rest", "tip"} /\ p.for # "boot" /\ step' = [step EXCEPT ![t] = p]
  BY <1>1, <1>2, EnsuredMoves
<1>4. step'[t] = p /\ Dull' = Dull
  BY <1>1, <1>2, <1>3, Moved DEF Dull
<1>5. AtWork(t)' /\ Holding(t)' /\ ~Changing(t)'
  BY <1>3, <1>4 DEF AtWork, Holding, Changing
<1>6. ~Dull
  BY <1>1, <1>2 DEF AtWork, FilesFit, Dull
<1>7. metaFile.count = Len(offFile) /\ Leads(file, offFile, metaFile.byIndex)
  BY <1>2, <1>6 DEF Sound
<1>8. Sound'
  BY <1>1, <1>2, <1>3, <1>5, <1>7, AloneGoesOn
<1>9. ASSUME calm' = "whole" PROVE Whole'
  <2>1. /\ \A k \in DOMAIN file : file[k] # Torn
        /\ EveryLine(offFile, Len(file)) /\ Firsts(file, metaFile.byIndex, Len(file))
    BY <1>1, <1>2, <1>6, <1>9 DEF Whole
  <2> QED BY <1>1, <1>2, <1>3, <1>5, <2>1, AloneHolds
<1> QED BY <1>8, <1>9

LEMMA ResetKeeps ==
    ASSUME IndexInv, NEW t \in BookThread, Reset(t), calm' # "crossed"
    PROVE  Sound' /\ (calm' = "whole" => Whole')
<1>1. /\ file' = file /\ offsets' = << >> /\ byIndex' = << >>
      /\ offFile' = offFile /\ metaFile' = metaFile /\ calm' = calm
      /\ step[t].at = "reset"
  BY DEF Reset
<1>2. /\ Sound /\ (calm = "whole" => Whole) /\ IndexTyped /\ AtWork(t)
      /\ \A u \in BookThread : u # t => ~Changing(u)
      /\ step[t] \in Place /\ step[t].at # "rest" /\ step \in [BookThread -> Place]
  BY <1>1, TheOne, IndexFacts DEF Changing
<1> DEFINE p == [step[t] EXCEPT !.at = "scan", !.pos = 1]
<1>3. p \in Place /\ p.at = "scan" /\ p.pos = 1 /\ p.for = step[t].for
  BY <1>2 DEF Place
<1>4. step' = [step EXCEPT ![t] = p]
  BY <1>2 DEF Reset
<1> HIDE DEF p
<1>5. step'[t] = p /\ Dull' = Dull
  BY <1>1, <1>2, <1>3, <1>4, Moved DEF Dull
<1>6. EveryLine(<< >>, 0) /\ Firsts(file, << >>, 0) /\ Leads(file, << >>, << >>)
  BY DEF EveryLine, Firsts, Leads
<1>7. AtWork(t)' /\ Holding(t)' /\ Changing(t)'
  BY <1>1, <1>2, <1>3, <1>5, <1>6 DEF AtWork, Holding, Changing
<1>8. Sound'
  <2>1. Dull' \/ (metaFile'.count = Len(offFile') /\ Leads(file', offFile', metaFile'.byIndex))
    BY <1>1, <1>2, <1>5 DEF Sound
  <2> QED BY <1>1, <1>2, <1>3, <1>4, <1>6, <1>7, <2>1, AloneGoesOn DEF BootPlaces
<1>9. ASSUME calm' = "whole" PROVE Whole'
  <2>1. /\ \A k \in DOMAIN file' : file'[k] # Torn
        /\ Dull' \/ (EveryLine(offFile', Len(file')) /\ Firsts(file', metaFile'.byIndex, Len(file')))
    BY <1>1, <1>2, <1>5, <1>9 DEF Whole
  <2> QED BY <1>2, <1>3, <1>4, <1>7, <2>1, AloneHolds
<1> QED BY <1>8, <1>9

LEMMA LastAppended ==
    ASSUME NEW offs \in Seq(Nat), NEW p \in Nat
    PROVE  Append(offs, p) # << >> /\ Last(Append(offs, p)) = p
<1> DEFINE s == Append(offs, p)
<1>1. s \in Seq(Nat) /\ Len(s) = Len(offs) + 1 /\ s[Len(offs) + 1] = p /\ Len(offs) \in Nat
  OBVIOUS
<1> HIDE DEF s
<1>2. s # << >> /\ s[Len(s)] = p
  BY <1>1
<1> QED BY <1>2 DEF Last, s

LEMMA ScanLineKeeps ==
    ASSUME IndexInv, NEW t \in BookThread, ScanLine(t), calm' # "crossed"
    PROVE  Sound' /\ (calm' = "whole" => Whole')
<1> DEFINE pos == step[t].pos
<1>1. /\ file' = file /\ offsets' = Append(offsets, pos) /\ byIndex' = byIndex
      /\ offFile' = offFile /\ metaFile' = metaFile /\ calm' = calm
      /\ step[t].at = "scan" /\ pos <= Len(file)
  BY DEF ScanLine
<1>2. /\ Sound /\ (calm = "whole" => Whole) /\ IndexTyped /\ AtWork(t)
      /\ calm = "whole" => Holding(t)
      /\ \A u \in BookThread : u # t => ~Changing(u)
      /\ step[t] \in Place /\ step[t].at # "rest" /\ step \in [BookThread -> Place]
  BY <1>1, TheOne, IndexFacts DEF Changing
<1>3. /\ pos \in DOMAIN file /\ pos \in Nat \ {0} /\ step[t].for # "note"
      /\ offsets \in Seq(Nat) /\ Len(offsets) \in Nat
  <2>1. pos \in 1 .. Len(file) + 1 /\ step[t].for # "note"
    BY <1>1, <1>2 DEF IndexTyped, PlaceTyped
  <2>2. /\ offsets \in Seq(1 .. Len(file)) /\ Len(file) \in Nat /\ DOMAIN file = 1 .. Len(file)
        /\ Len(offsets) \in Nat /\ 1 .. Len(file) \subseteq Nat
    BY <1>2, IndexFacts
  <2> QED BY <1>1, <2>1, <2>2, WiderSeq
<1>4. Leads(file, Append(offsets, pos), byIndex)
  BY <1>2, <1>3, LeadsMore DEF Sound
<1>5. Append(offsets, pos) # << >> /\ Last(Append(offsets, pos)) = pos
  BY <1>3, LastAppended
<1>6. PICK p \in Place :
          /\ step' = [step EXCEPT ![t] = p] /\ p.for = step[t].for
          /\ \/ p.at = "scan" /\ file[pos] = Torn
             \/ p.at = "number" /\ p.pos = pos
  <2>1. CASE file[pos] = Torn
    <3>1. LineEnd(pos) \in pos .. Len(file)
      BY <1>2, <1>3, IndexFacts, LineEnds
    <3> DEFINE q == LineEnd(pos) + 1
    <3>2. q \in Nat
      BY <1>2, <1>3, <3>1, IndexFacts
    <3>3. step' = [step EXCEPT ![t] = [step[t] EXCEPT !.pos = q]]
      BY <2>1 DEF ScanLine
    <3> HIDE DEF q
    <3>4. /\ [step[t] EXCEPT !.pos = q] \in Place /\ [step[t] EXCEPT !.pos = q].at = "scan"
          /\ [step[t] EXCEPT !.pos = q].for = step[t].for
      BY <1>1, <1>2, <3>2 DEF Place
    <3> QED BY <2>1, <3>3, <3>4
  <2>2. CASE file[pos] # Torn
    <3>1. Go(t, "number")
      BY <2>2 DEF ScanLine
    <3>2. /\ [step[t] EXCEPT !.at = "number"].at = "number"
          /\ [step[t] EXCEPT !.at = "number"].pos = pos
          /\ [step[t] EXCEPT !.at = "number"].for = step[t].for
      BY <1>2 DEF Place
    <3> QED BY <1>2, <3>1, <3>2, GoMoves
  <2> QED BY <2>1, <2>2
<1> HIDE DEF pos
<1>7. step'[t] = p /\ (Dull' <=> Dull) /\ Dull
  <2>1. step'[t] = p
    BY <1>2, <1>6, Moved
  <2>2. Dull' <=> Dull
    BY <1>1 DEF Dull
  <2>3. Dull
    BY <1>1, <1>2 DEF AtWork
  <2> QED BY <2>1, <2>2, <2>3
<1>8. AtWork(t)' /\ Changing(t)'
  <2>1. step'[t].at \in {"scan", "number"} /\ (step'[t].at = "number" => step'[t].pos = pos)
    BY <1>6, <1>7
  <2>2. offsets' # << >> /\ Last(offsets') = pos
    BY <1>1, <1>5
  <2> QED BY <1>7, <2>1, <2>2 DEF AtWork, Changing
<1>9. Sound'
  <2>1. Leads(file', offsets', byIndex')
    BY <1>1, <1>4
  <2>2. p.for = "boot" => step[t].for = "boot" /\ p.at \in BootPlaces
    BY <1>6 DEF BootPlaces
  <2> QED BY <1>2, <1>6, <1>7, <1>8, <2>1, <2>2, AloneGoesOn
<1>10. ASSUME calm' = "whole" PROVE Whole'
  <2>1. \A k \in DOMAIN file : file[k] # Torn
    BY <1>1, <1>2, <1>10 DEF Whole
  <2>2. p.at = "number" /\ p.pos = pos
    BY <1>3, <1>6, <2>1
  <2>3. EveryLine(offsets, pos - 1) /\ Firsts(file, byIndex, pos - 1)
    BY <1>1, <1>2, <1>10 DEF Holding, pos
  <2>4. EveryLine(Append(offsets, pos), pos)
    BY <1>3, <2>3, LinesMore
  <2>5. EveryLine(offsets', pos) /\ Firsts(file', byIndex', pos - 1)
    BY <1>1, <2>3, <2>4
  <2>6. Holding(t)'
    BY <1>3, <1>6, <1>7, <2>2, <2>5 DEF Holding
  <2> QED BY <1>1, <1>2, <1>6, <1>7, <1>8, <2>1, <2>6, AloneHolds
<1> QED BY <1>9, <1>10

LEMMA ScanEndKeeps ==
    ASSUME IndexInv, NEW t \in BookThread, ScanEnd(t), calm' # "crossed"
    PROVE  Sound' /\ (calm' = "whole" => Whole')
<1>1. /\ file' = file /\ offsets' = offsets /\ byIndex' = byIndex
      /\ offFile' = offFile /\ metaFile' = metaFile /\ calm' = calm
      /\ step[t].at = "scan" /\ step[t].pos > Len(file) /\ Go(t, "off")
  BY DEF ScanEnd, index
<1>2. /\ Sound /\ (calm = "whole" => Whole) /\ IndexTyped /\ AtWork(t)
      /\ calm = "whole" => Holding(t)
      /\ \A u \in BookThread : u # t => ~Changing(u)
      /\ step[t] \in Place /\ step[t].at # "rest" /\ step \in [BookThread -> Place]
  BY <1>1, TheOne, IndexFacts DEF Changing
<1> DEFINE p == [step[t] EXCEPT !.at = "off"]
<1>3. p \in Place /\ p.at = "off" /\ p.for = step[t].for /\ step' = [step EXCEPT ![t] = p]
  <2>1. p.at = "off" /\ p.for = step[t].for
    BY <1>2 DEF Place
  <2> QED BY <1>1, <1>2, <2>1, GoMoves
<1> HIDE DEF p
<1>4. step'[t] = p /\ (Dull' <=> Dull) /\ Dull
  <2>1. step'[t] = p
    BY <1>2, <1>3, Moved
  <2>2. Dull' <=> Dull
    BY <1>1 DEF Dull
  <2>3. Dull
    BY <1>1, <1>2 DEF AtWork
  <2> QED BY <2>1, <2>2, <2>3
<1>5. AtWork(t)' /\ Changing(t)'
  BY <1>3, <1>4 DEF AtWork, Changing
<1>6. Sound'
  <2>1. Leads(file', offsets', byIndex')
    BY <1>1, <1>2 DEF Sound
  <2>2. p.for = "boot" => step[t].for = "boot" /\ p.at \in BootPlaces
    BY <1>3 DEF BootPlaces
  <2> QED BY <1>2, <1>3, <1>4, <1>5, <2>1, <2>2, AloneGoesOn
<1>7. ASSUME calm' = "whole" PROVE Whole'
  <2>1. \A k \in DOMAIN file' : file'[k] # Torn
    BY <1>1, <1>2, <1>7 DEF Whole
  <2>2. EveryLine(offsets, step[t].pos - 1) /\ Firsts(file, byIndex, step[t].pos - 1)
    BY <1>1, <1>2, <1>7 DEF Holding
  <2>3. step[t].pos - 1 = Len(file)
    <3>1. step[t].pos \in 1 .. Len(file) + 1 /\ Len(file) \in Nat
      BY <1>1, <1>2, IndexFacts DEF IndexTyped, PlaceTyped
    <3> QED BY <1>1, <3>1
  <2>4. EveryLine(offsets', Len(file')) /\ Firsts(file', byIndex', Len(file'))
    BY <1>1, <2>2, <2>3
  <2>5. Holding(t)'
    BY <1>3, <1>4, <2>4 DEF Holding
  <2> QED BY <1>2, <1>3, <1>4, <1>5, <2>1, <2>5, AloneHolds
<1> QED BY <1>6, <1>7

LEMMA TakeNumberKeeps ==
    ASSUME IndexInv, NEW t \in BookThread, TakeNumber(t), calm' # "crossed"
    PROVE  Sound' /\ (calm' = "whole" => Whole')
<1>1. /\ file' = file /\ offsets' = offsets /\ byIndex' = byIndex
      /\ offFile' = offFile /\ metaFile' = metaFile /\ calm' = calm
      /\ step[t].at = "number"
  BY DEF TakeNumber, index
<1>2. /\ Sound /\ (calm = "whole" => Whole) /\ IndexTyped /\ AtWork(t)
      /\ calm = "whole" => Holding(t)
      /\ \A u \in BookThread : u # t => ~Changing(u)
      /\ step[t] \in Place /\ step[t].at # "rest" /\ step \in [BookThread -> Place]
      /\ offsets \in Seq(1 .. Len(file)) /\ Len(offsets) \in Nat
  BY <1>1, TheOne, IndexFacts DEF Changing
<1> DEFINE p == [step[t] EXCEPT !.at = "enter", !.line = Len(offsets)]
<1>3. /\ p \in Place /\ p.at = "enter" /\ p.for = step[t].for /\ p.pos = step[t].pos
      /\ p.line = Len(offsets) /\ step' = [step EXCEPT ![t] = p]
  <2>1. step' = [step EXCEPT ![t] = p]
    BY <1>2 DEF TakeNumber, LineNumber
  <2>2. /\ p \in Place /\ p.at = "enter" /\ p.for = step[t].for /\ p.pos = step[t].pos
        /\ p.line = Len(offsets)
    BY <1>2 DEF Place
  <2> QED BY <2>1, <2>2
<1> HIDE DEF p
<1>4. step'[t] = p /\ (Dull' <=> Dull) /\ Dull
  <2>1. step'[t] = p
    BY <1>2, <1>3, Moved
  <2>2. Dull' <=> Dull
    BY <1>1 DEF Dull
  <2>3. Dull
    BY <1>1, <1>2 DEF AtWork
  <2> QED BY <2>1, <2>2, <2>3
<1>5. AtWork(t)' /\ Changing(t)'
  <2>1. offsets # << >> /\ Last(offsets) = step[t].pos
    BY <1>1, <1>2 DEF AtWork
  <2>2. Len(offsets) \in DOMAIN offsets /\ offsets[Len(offsets)] = step[t].pos
    BY <1>2, <2>1 DEF Last
  <2>3. step'[t].line \in DOMAIN offsets' /\ file'[offsets'[step'[t].line]] = file'[step'[t].pos]
    BY <1>1, <1>3, <1>4, <2>2
  <2> QED BY <1>3, <1>4, <2>3 DEF AtWork, Changing
<1>6. Sound'
  <2>1. Leads(file', offsets', byIndex')
    BY <1>1, <1>2 DEF Sound
  <2>2. p.for = "boot" => step[t].for = "boot" /\ p.at \in BootPlaces
    BY <1>3 DEF BootPlaces
  <2> QED BY <1>2, <1>3, <1>4, <1>5, <2>1, <2>2, AloneGoesOn
<1>7. ASSUME calm' = "whole" PROVE Whole'
  <2>1. \A k \in DOMAIN file' : file'[k] # Torn
    BY <1>1, <1>2, <1>7 DEF Whole
  <2>2. /\ EveryLine(offsets, step[t].pos) /\ Firsts(file, byIndex, step[t].pos - 1)
        /\ step[t].for = "note" => step[t].pos = Len(file)
    BY <1>1, <1>2, <1>7 DEF Holding
  <2>3. /\ EveryLine(offsets', p.pos) /\ Firsts(file', byIndex', p.pos - 1)
        /\ p.for = "note" => p.pos = Len(file')
        /\ p.line = p.pos
    BY <1>1, <1>3, <2>2 DEF EveryLine
  <2>4. Holding(t)'
    BY <1>3, <1>4, <2>3 DEF Holding
  <2> QED BY <1>2, <1>3, <1>4, <1>5, <2>1, <2>4, AloneHolds
<1> QED BY <1>6, <1>7

LEMMA EnterNumberKeeps ==
    ASSUME IndexInv, NEW t \in BookThread, EnterNumber(t), calm' # "crossed"
    PROVE  Sound' /\ (calm' = "whole" => Whole')
<1> DEFINE pos == step[t].pos
           new == Entered(byIndex, file[pos], step[t].line)
<1>1. /\ file' = file /\ offsets' = offsets /\ byIndex' = new
      /\ offFile' = offFile /\ metaFile' = metaFile /\ calm' = calm
      /\ step[t].at = "enter"
  BY DEF EnterNumber, Entered
<1>2. /\ Sound /\ (calm = "whole" => Whole) /\ IndexTyped /\ AtWork(t)
      /\ calm = "whole" => Holding(t)
      /\ \A u \in BookThread : u # t => ~Changing(u)
      /\ step[t] \in Place /\ step[t].at # "rest" /\ step \in [BookThread -> Place]
  BY <1>1, TheOne, IndexFacts DEF Changing
<1>3. pos \in DOMAIN file /\ pos \in Nat \ {0} /\ pos <= Len(file) /\ Len(file) \in Nat
  <2>1. pos \in DOMAIN file
    BY <1>1, <1>2 DEF IndexTyped, PlaceTyped
  <2> QED BY <1>2, <2>1, IndexFacts
<1>4. PICK p \in Place :
          /\ step' = [step EXCEPT ![t] = p] /\ p.for = step[t].for
          /\ IF step[t].for = "note" THEN p.at = "off" ELSE p.at = "scan" /\ p.pos = pos + 1
  <2>1. CASE step[t].for = "note"
    <3>1. Go(t, "off") /\ [step[t] EXCEPT !.at = "off"].at = "off"
          /\ [step[t] EXCEPT !.at = "off"].for = step[t].for
      BY <1>2, <2>1 DEF EnterNumber, Place
    <3> QED BY <1>2, <2>1, <3>1, GoMoves
  <2>2. CASE step[t].for # "note"
    <3> DEFINE q == pos + 1
               p == [step[t] EXCEPT !.at = "scan", !.pos = q]
    <3>1. q \in Nat
      BY <1>3
    <3>2. step' = [step EXCEPT ![t] = p]
      <4>1. step' = [step EXCEPT ![t].at = "scan", ![t].pos = q]
        BY <2>2 DEF EnterNumber
      <4> HIDE DEF q
      <4> QED BY <1>2, <4>1
    <3> HIDE DEF q
    <3>3. p \in Place /\ p.at = "scan" /\ p.pos = q /\ p.for = step[t].for
      BY <1>2, <3>1 DEF Place
    <3> QED BY <2>2, <3>2, <3>3 DEF q
  <2> QED BY <2>1, <2>2
<1>5. Leads(file, offsets, new)
  <2>1. step[t].line \in DOMAIN offsets /\ file[offsets[step[t].line]] = file[pos]
    BY <1>1, <1>2 DEF AtWork
  <2> QED BY <1>2, <2>1, LeadsEntered DEF Sound
<1> HIDE DEF new, pos
<1>6. step'[t] = p /\ (Dull' <=> Dull) /\ Dull
  <2>1. step'[t] = p
    BY <1>2, <1>4, Moved
  <2>2. Dull' <=> Dull
    BY <1>1 DEF Dull
  <2>3. Dull
    BY <1>1, <1>2 DEF AtWork
  <2> QED BY <2>1, <2>2, <2>3
<1>7. AtWork(t)' /\ Changing(t)'
  <2>1. p.at \in {"off", "scan"}
    BY <1>4
  <2> QED BY <1>6, <2>1 DEF AtWork, Changing
<1>8. Sound'
  <2>1. Leads(file', offsets', byIndex')
    BY <1>1, <1>5
  <2>2. p.for = "boot" => step[t].for = "boot" /\ p.at \in BootPlaces
    BY <1>4 DEF BootPlaces
  <2> QED BY <1>2, <1>4, <1>6, <1>7, <2>1, <2>2, AloneGoesOn
<1>9. ASSUME calm' = "whole" PROVE Whole'
  <2>1. \A k \in DOMAIN file' : file'[k] # Torn
    BY <1>1, <1>2, <1>9 DEF Whole
  <2>2. /\ EveryLine(offsets, pos) /\ Firsts(file, byIndex, pos - 1)
        /\ step[t].for = "note" => pos = Len(file)
        /\ step[t].line = pos
    BY <1>1, <1>2, <1>9 DEF Holding, pos
  <2>3. Firsts(file, new, pos)
    BY <1>3, <2>2, FirstsEntered DEF new
  <2>4. EveryLine(offsets', pos) /\ Firsts(file', byIndex', pos)
    BY <1>1, <2>2, <2>3
  <2>5. Holding(t)'
    <3>1. CASE step[t].for = "note"
      <4>1. p.at = "off" /\ EveryLine(offsets', Len(file')) /\ Firsts(file', byIndex', Len(file'))
        BY <1>1, <1>4, <2>2, <2>4, <3>1
      <4> QED BY <1>6, <4>1 DEF Holding
    <3>2. CASE step[t].for # "note"
      <4>1. p.at = "scan" /\ p.pos - 1 = pos
        BY <1>3, <1>4, <3>2
      <4> QED BY <1>6, <2>4, <4>1 DEF Holding
    <3> QED BY <3>1, <3>2
  <2> QED BY <1>2, <1>4, <1>6, <1>7, <2>1, <2>5, AloneHolds
<1> QED BY <1>8, <1>9

LEMMA WriteOffKeeps ==
    ASSUME IndexInv, NEW t \in BookThread, WriteOff(t), calm' # "crossed"
    PROVE  Sound' /\ (calm' = "whole" => Whole')
<1>1. /\ file' = file /\ offsets' = offsets /\ byIndex' = byIndex
      /\ offFile' = offsets /\ metaFile' = metaFile /\ calm' = calm
      /\ step[t].at = "off" /\ Go(t, "meta")
  BY DEF WriteOff, index
<1>2. /\ Sound /\ (calm = "whole" => Whole) /\ IndexTyped /\ AtWork(t)
      /\ calm = "whole" => Holding(t)
      /\ \A u \in BookThread : u # t => ~Changing(u)
      /\ step[t] \in Place /\ step[t].at # "rest" /\ step \in [BookThread -> Place]
  BY <1>1, TheOne, IndexFacts DEF Changing
<1> DEFINE p == [step[t] EXCEPT !.at = "meta"]
<1>3. p \in Place /\ p.at = "meta" /\ p.for = step[t].for /\ step' = [step EXCEPT ![t] = p]
  <2>1. p.at = "meta" /\ p.for = step[t].for
    BY <1>2 DEF Place
  <2> QED BY <1>1, <1>2, <2>1, GoMoves
<1> HIDE DEF p
<1>4. step'[t] = p /\ (Dull' <=> Dull) /\ Dull
  <2>1. step'[t] = p
    BY <1>2, <1>3, Moved
  <2>2. Dull' <=> Dull
    BY <1>1 DEF Dull
  <2>3. Dull
    BY <1>1, <1>2 DEF AtWork
  <2> QED BY <2>1, <2>2, <2>3
<1>5. AtWork(t)' /\ Changing(t)'
  BY <1>1, <1>3, <1>4 DEF AtWork, Changing
<1>6. Sound'
  <2>1. Leads(file', offsets', byIndex')
    BY <1>1, <1>2 DEF Sound
  <2>2. p.for = "boot" => step[t].for = "boot" /\ p.at \in BootPlaces
    BY <1>3 DEF BootPlaces
  <2> QED BY <1>2, <1>3, <1>4, <1>5, <2>1, <2>2, AloneGoesOn
<1>7. ASSUME calm' = "whole" PROVE Whole'
  <2>1. \A k \in DOMAIN file' : file'[k] # Torn
    BY <1>1, <1>2, <1>7 DEF Whole
  <2>2. EveryLine(offsets', Len(file')) /\ Firsts(file', byIndex', Len(file'))
    BY <1>1, <1>2, <1>7 DEF Holding
  <2>3. Holding(t)'
    BY <1>3, <1>4, <2>2 DEF Holding
  <2> QED BY <1>2, <1>3, <1>4, <1>5, <2>1, <2>3, AloneHolds
<1> QED BY <1>6, <1>7

LEMMA WriteMetaKeeps ==
    ASSUME IndexInv, NEW t \in BookThread, WriteMeta(t), calm' # "crossed"
    PROVE  Sound' /\ (calm' = "whole" => Whole')
<1>1. /\ file' = file /\ offsets' = offsets /\ byIndex' = byIndex
      /\ offFile' = offFile /\ metaFile' = NewMeta /\ calm' = calm
      /\ step[t].at = "meta" /\ Ensured(t)
  BY DEF WriteMeta
<1>2. /\ Sound /\ (calm = "whole" => Whole) /\ IndexTyped /\ AtWork(t)
      /\ calm = "whole" => Holding(t)
      /\ \A u \in BookThread : u # t => ~Changing(u)
      /\ step[t] \in Place /\ step[t].at # "rest" /\ step \in [BookThread -> Place]
  BY <1>1, TheOne, IndexFacts DEF Changing
<1>3. PICK p \in Place : p.at \in {"rest", "tip"} /\ p.for # "boot" /\ step' = [step EXCEPT ![t] = p]
  BY <1>1, <1>2, EnsuredMoves
<1>4. step'[t] = p
  BY <1>2, <1>3, Moved
<1>5. AtWork(t)' /\ Holding(t)' /\ ~Changing(t)'
  BY <1>3, <1>4 DEF AtWork, Holding, Changing
<1>6. /\ offFile = offsets /\ NewMeta.count = Len(offsets) /\ NewMeta.byIndex = byIndex
      /\ Leads(file, offsets, byIndex)
  BY <1>1, <1>2 DEF AtWork, NewMeta, Sound
<1>7. /\ Leads(file', offsets', byIndex')
      /\ metaFile'.count = Len(offFile') /\ Leads(file', offFile', metaFile'.byIndex)
  BY <1>1, <1>6
<1>8. Sound'
  BY <1>2, <1>3, <1>5, <1>7, AloneGoesOn
<1>9. ASSUME calm' = "whole" PROVE Whole'
  <2>1. \A k \in DOMAIN file' : file'[k] # Torn
    BY <1>1, <1>2, <1>9 DEF Whole
  <2>2. EveryLine(offsets, Len(file)) /\ Firsts(file, byIndex, Len(file))
    BY <1>1, <1>2, <1>9 DEF Holding
  <2>3. /\ EveryLine(offsets', Len(file')) /\ Firsts(file', byIndex', Len(file'))
        /\ EveryLine(offFile', Len(file')) /\ Firsts(file', metaFile'.byIndex, Len(file'))
    BY <1>1, <1>6, <2>2
  <2> QED BY <1>2, <1>3, <1>5, <2>1, <2>3, AloneHolds
<1> QED BY <1>8, <1>9

LEMMA ReadTipKeeps ==
    ASSUME IndexInv, ReadTip, calm' # "crossed"
    PROVE  Sound' /\ (calm' = "whole" => Whole')
<1>1. /\ file' = file /\ offsets' = offsets /\ byIndex' = byIndex /\ meta' = meta
      /\ offFile' = offFile /\ metaFile' = metaFile /\ calm' = calm
      /\ step[Appender].at = "tip"
  BY DEF ReadTip, index
<1>2. /\ Sound /\ (calm = "whole" => Whole) /\ IndexTyped /\ Appender \in BookThread
      /\ step \in [BookThread -> Place]
  BY <1>1, IndexFacts DEF IndexInv
<1> DEFINE p == [step[Appender] EXCEPT !.at = "write", !.for = "note", !.next = NextIndex]
<1>3. step' = [step EXCEPT ![Appender] = p] /\ p.at = "write" /\ p.for = "note"
  <2>1. step' = [step EXCEPT ![Appender] = p]
    BY <1>2 DEF ReadTip
  <2>2. p.at = "write" /\ p.for = "note"
    BY <1>2 DEF Place
  <2> QED BY <2>1, <2>2
<1>4. p \in Place
  <2>1. IndexTyped'
    BY <1>2, IndexTypedStep DEF BookNext
  <2>2. step' \in [BookThread -> Place] /\ step'[Appender] = p
    BY <1>2, <1>3, <2>1 DEF IndexTyped, BookTypeOK
  <2> QED BY <1>2, <2>2
<1> HIDE DEF p
<1>5. ~Booting
  BY <1>1, <1>2 DEF Sound, Starting, BootPlaces
<1> QED BY <1>1, <1>2, <1>3, <1>4, <1>5, PassesBy

\* A book that grew is of no size the files were written for.
LEMMA GrownIsDull ==
    ASSUME IndexTyped, NEW x, file' = Append(file, x), metaFile' = metaFile
    PROVE  Dull'
<1>1. file \in Seq(Nat \cup {Torn}) /\ Len(file) \in Nat
      /\ (metaFile # NoMeta => metaFile.size \in 0 .. Len(file))
  BY IndexFacts
<1>2. Len(file') = Len(file) + 1
  BY <1>1
<1> QED BY <1>1, <1>2 DEF Dull

LEMMA WriteLineKeeps ==
    ASSUME IndexInv, WriteLine, calm' # "crossed"
    PROVE  Sound' /\ (calm' = "whole" => Whole')
<1> DEFINE t == Appender
           x == step[t].next
           p == [step[t] EXCEPT !.at = "note", !.pos = Len(file')]
<1>1. /\ file' = Append(file, x) /\ offsets' = offsets /\ byIndex' = byIndex
      /\ offFile' = offFile /\ metaFile' = metaFile /\ Meets(t)
      /\ step[t].at = "write"
  BY DEF WriteLine, index
<1>2. IndexTyped /\ t \in BookThread
  BY IndexFacts DEF IndexInv
<1>3. calm' = calm /\ \A u \in BookThread : u # t => ~Changing(u)
  BY <1>1, <1>2, NotMet
<1>4. /\ Sound /\ (calm = "whole" => Whole)
      /\ step \in [BookThread -> Place] /\ step[t] \in Place /\ x \in Nat
      /\ file \in Seq(Nat \cup {Torn}) /\ Len(file) \in Nat /\ DOMAIN file = 1 .. Len(file)
      /\ offsets \in Seq(1 .. Len(file))
  BY <1>2, <1>3, IndexFacts DEF IndexInv, Place
<1>5. ~Booting
  BY <1>1, <1>4 DEF Sound, Starting, BootPlaces
<1>6. /\ Len(file') = Len(file) + 1 /\ Len(file') \in Nat /\ DOMAIN file' = 1 .. Len(file) + 1
      /\ file'[Len(file) + 1] = x /\ \A k \in 1 .. Len(file) : file'[k] = file[k]
  BY <1>1, <1>4
<1>7. step' = [step EXCEPT ![t] = p]
  BY <1>4 DEF WriteLine
<1>8. p \in Place /\ p.at = "note" /\ p.pos = Len(file') /\ p.for # "boot"
  BY <1>4, <1>5, <1>6 DEF Place, Booting
<1> HIDE DEF p, x
<1>9. Dull' /\ step'[t] = p
  BY <1>1, <1>2, <1>4, <1>7, <1>8, GrownIsDull, Moved
<1>10. AtWork(t)' /\ Changing(t)'
  BY <1>8, <1>9 DEF AtWork, Changing
<1>11. Sound'
  <2>1. Leads(file', offsets', byIndex')
    BY <1>1, <1>4, LeadsStill DEF Sound
  <2>2. step[t].at # "rest"
    BY <1>1
  <2> HIDE DEF t
  <2> QED BY <1>2, <1>3, <1>4, <1>7, <1>8, <1>9, <1>10, <2>1, <2>2, AloneGoesOn
<1>12. ASSUME calm' = "whole" PROVE Whole'
  <2>1. Whole
    BY <1>3, <1>4, <1>12
  <2>2. \A k \in DOMAIN file' : file'[k] # Torn
    <3>1. \A k \in 1 .. Len(file) : file[k] # Torn
      BY <1>4, <2>1 DEF Whole
    <3>2. x # Torn
      BY <1>4, BookAssumption
    <3>3. \A k \in 1 .. Len(file) + 1 : k = Len(file) + 1 \/ k \in 1 .. Len(file)
      BY <1>4
    <3> QED BY <1>6, <3>1, <3>2, <3>3
  <2>3. EveryLine(offsets, Len(file)) /\ Firsts(file, byIndex, Len(file))
    <3>1. \A u \in BookThread : ~Changing(u)
      BY <1>1, <1>3 DEF Changing
    <3> QED BY <1>5, <2>1, <3>1 DEF Whole
  <2>4. Firsts(file', byIndex, Len(file))
    BY <1>1, <1>4, <2>3, FirstsStill
  <2>5. Len(file') - 1 = Len(file)
    BY <1>4, <1>6
  <2>6. /\ p.pos = Len(file')
        /\ EveryLine(offsets', Len(file') - 1) /\ Firsts(file', byIndex', Len(file') - 1)
    BY <1>1, <1>8, <2>3, <2>4, <2>5
  <2>7. Holding(t)'
    BY <1>8, <1>9, <2>6 DEF Holding
  <2> HIDE DEF t
  <2> QED BY <1>2, <1>3, <1>7, <1>8, <1>9, <1>10, <2>2, <2>7, AloneHolds
<1> QED BY <1>11, <1>12

LEMMA NoteAppendedKeeps ==
    ASSUME IndexInv, NoteAppended, calm' # "crossed"
    PROVE  Sound' /\ (calm' = "whole" => Whole')
<1> DEFINE t == Appender
           pos == step[t].pos
           p == [step[t] EXCEPT !.at = "number"]
<1>1. /\ file' = file /\ offsets' = Append(offsets, pos) /\ byIndex' = byIndex
      /\ offFile' = offFile /\ metaFile' = metaFile /\ calm' = calm
      /\ step[t].at = "note" /\ Go(t, "number")
  BY DEF NoteAppended
<1>2. t \in BookThread
  BY IndexFacts DEF IndexInv
<1>3. /\ Sound /\ (calm = "whole" => Whole) /\ IndexTyped /\ AtWork(t)
      /\ calm = "whole" => Holding(t)
      /\ \A u \in BookThread : u # t => ~Changing(u)
      /\ step[t] \in Place /\ step[t].at # "rest" /\ step \in [BookThread -> Place]
  <2>1. Changing(t)
    BY <1>1 DEF Changing
  <2> HIDE DEF t
  <2> QED BY <1>1, <1>2, <2>1, TheOne, IndexFacts
<1>4. /\ pos \in DOMAIN file /\ pos \in Nat \ {0} /\ offsets \in Seq(Nat)
      /\ Len(file) \in Nat
  <2>1. pos \in DOMAIN file
    BY <1>1, <1>2, <1>3 DEF IndexTyped, PlaceTyped
  <2>2. /\ offsets \in Seq(1 .. Len(file)) /\ Len(file) \in Nat /\ DOMAIN file = 1 .. Len(file)
        /\ 1 .. Len(file) \subseteq Nat
    BY <1>3, IndexFacts
  <2> QED BY <2>1, <2>2, WiderSeq
<1>5. p \in Place /\ p.at = "number" /\ p.pos = pos /\ p.for = step[t].for /\ step' = [step EXCEPT ![t] = p]
  <2>1. p.at = "number" /\ p.pos = pos /\ p.for = step[t].for /\ p \in Place
    BY <1>3 DEF Place
  <2> QED BY <1>1, <1>2, <1>3, <2>1, GoMoves
<1> HIDE DEF p, pos
<1>6. step'[t] = p /\ (Dull' <=> Dull) /\ Dull
  <2>1. step'[t] = p
    BY <1>2, <1>3, <1>5, Moved
  <2>2. Dull' <=> Dull
    BY <1>1 DEF Dull
  <2>3. Dull
    BY <1>1, <1>3 DEF AtWork
  <2> QED BY <2>1, <2>2, <2>3
<1>7. AtWork(t)' /\ Changing(t)'
  <2>1. offsets' # << >> /\ Last(offsets') = pos
    BY <1>1, <1>4, LastAppended
  <2> QED BY <1>5, <1>6, <2>1 DEF AtWork, Changing
<1>8. Sound'
  <2>1. Leads(file', offsets', byIndex')
    BY <1>1, <1>3, <1>4, LeadsMore DEF Sound
  <2>2. p.for = "boot" => step[t].for = "boot" /\ p.at \in BootPlaces
    BY <1>5 DEF BootPlaces
  <2> HIDE DEF t
  <2> QED BY <1>2, <1>3, <1>5, <1>6, <1>7, <2>1, <2>2, AloneGoesOn
<1>9. ASSUME calm' = "whole" PROVE Whole'
  <2>1. \A k \in DOMAIN file' : file'[k] # Torn
    BY <1>1, <1>3, <1>9 DEF Whole
  <2>2. /\ pos = Len(file) /\ EveryLine(offsets, pos - 1) /\ Firsts(file, byIndex, pos - 1)
    BY <1>1, <1>3, <1>9 DEF Holding, pos
  <2>3. EveryLine(Append(offsets, pos), pos)
    BY <1>4, <2>2, LinesMore
  <2>4. /\ EveryLine(offsets', p.pos) /\ Firsts(file', byIndex', p.pos - 1) /\ p.pos = Len(file')
    BY <1>1, <1>5, <2>2, <2>3
  <2>5. Holding(t)'
    BY <1>5, <1>6, <2>4 DEF Holding
  <2> HIDE DEF t
  <2> QED BY <1>2, <1>3, <1>5, <1>6, <1>7, <2>1, <2>5, AloneHolds
<1> QED BY <1>8, <1>9

LEMMA DieKeeps ==
    ASSUME IndexInv, Die, calm' # "crossed"
    PROVE  Sound' /\ (calm' = "whole" => Whole')
<1> DEFINE boot == [AtRest EXCEPT !.at = "ensure", !.for = "boot"]
<1>1. boot.at = "ensure" /\ boot.for = "boot" /\ AtRest.at = "rest"
  BY DEF AtRest
<1>2. /\ offsets' = << >> /\ byIndex' = << >>
      /\ step' = [t \in BookThread |-> IF t = Appender THEN boot ELSE AtRest]
      /\ calm' = IF file' # file /\ calm = "whole" THEN "torn" ELSE calm
  BY DEF Die
<1> HIDE DEF boot
<1>3. Sound /\ (calm = "whole" => Whole) /\ IndexTyped /\ Appender \in BookThread
  BY <1>2, IndexFacts DEF IndexInv
<1>4. Booting' /\ \A t \in BookThread : ~Changing(t)' /\ AtWork(t)' /\ Holding(t)'
  BY <1>1, <1>2, <1>3 DEF Changing, AtWork, Holding, Booting
<1>5. Starting'
  BY <1>1, <1>2, <1>3, BookAssumption DEF Starting, BookThread
<1>6. Dull' \/ (file' = file /\ offFile' = offFile /\ metaFile' = metaFile /\ (Dull' <=> Dull))
  <2>1. CASE UNCHANGED <<file, offFile, metaFile>>
    BY <2>1 DEF Dull
  <2>2. CASE file' = Append(file, Torn) /\ UNCHANGED <<offFile, metaFile>>
    BY <1>3, <2>2, GrownIsDull
  <2>3. CASE (\E t \in BookThread : step[t].at = "off") /\ UNCHANGED <<file, metaFile>>
    <3>1. Dull
      BY <1>3, <2>3 DEF Sound, AtWork
    <3> QED BY <2>3, <3>1 DEF Dull
  <2>4. CASE metaFile' = NoMeta
    BY <2>4 DEF Dull
  <2> QED BY <2>1, <2>2, <2>3, <2>4 DEF Die
<1>7. Sound'
  <2>1. Leads(file', offsets', byIndex')
    BY <1>2 DEF Leads
  <2>2. Dull' \/ (metaFile'.count = Len(offFile') /\ Leads(file', offFile', metaFile'.byIndex))
    BY <1>3, <1>6 DEF Sound
  <2> QED BY <1>4, <1>5, <2>1, <2>2 DEF Sound
<1>8. ASSUME calm' = "whole" PROVE Whole'
  <2>1. calm = "whole" /\ file' = file
    BY <1>2, <1>8
  <2>2. \A k \in DOMAIN file' : file'[k] # Torn
    BY <1>3, <2>1 DEF Whole
  <2>3. Dull' \/ (EveryLine(offFile', Len(file')) /\ Firsts(file', metaFile'.byIndex, Len(file')))
    BY <1>3, <1>6, <2>1 DEF Whole
  <2> QED BY <1>4, <2>2, <2>3 DEF Whole
<1> QED BY <1>7, <1>8

\* Nothing moves.
LEMMA StutterKeeps ==
    ASSUME IndexInv, UNCHANGED bookVars, calm' # "crossed"
    PROVE  Sound' /\ (calm' = "whole" => Whole')
<1>1. /\ file' = file /\ offsets' = offsets /\ byIndex' = byIndex /\ meta' = meta
      /\ offFile' = offFile /\ metaFile' = metaFile /\ step' = step /\ calm' = calm
  BY DEF bookVars, index
<1>2. Sound /\ (calm = "whole" => Whole)
  BY <1>1 DEF IndexInv
<1>3. \A t \in BookThread : (Changing(t)' <=> Changing(t)) /\ (AtWork(t) => AtWork(t)') /\ (Holding(t) => Holding(t)')
  BY <1>1 DEF Changing, AtWork, Holding, FilesFit, Dull
<1>4. (Dull' <=> Dull) /\ (Booting' <=> Booting) /\ (Starting => Starting')
  BY <1>1 DEF Dull, Booting, Starting
<1>5. Sound'
  BY <1>1, <1>2, <1>3, <1>4 DEF Sound
<1>6. Whole => Whole'
  BY <1>1, <1>3, <1>4 DEF Whole
<1> QED BY <1>1, <1>2, <1>5, <1>6

LEMMA IndexInvStart == ASSUME BookInit PROVE IndexInv
<1>1. IndexTyped
  BY IndexTypedStart
<1>2. /\ file = << >> /\ offsets = << >> /\ byIndex = << >>
      /\ step = [t \in BookThread |-> AtRest]
  BY DEF BookInit
<1>3. AtRest.at = "rest" /\ AtRest.for = "none" /\ Appender \in BookThread
  BY DEF AtRest, BookThread
<1>4. Dull /\ ~Booting /\ \A t \in BookThread : ~Changing(t) /\ AtWork(t) /\ Holding(t)
  BY <1>2, <1>3 DEF Dull, Booting, Changing, AtWork, Holding
<1>5. Leads(file, offsets, byIndex) /\ EveryLine(offsets, Len(file)) /\ Firsts(file, byIndex, Len(file))
  BY <1>2 DEF Leads, EveryLine, Firsts
<1>6. Sound
  BY <1>4, <1>5 DEF Sound, Starting
<1>7. Whole
  BY <1>2, <1>4, <1>5 DEF Whole
<1> QED BY <1>1, <1>6, <1>7 DEF IndexInv

LEMMA IndexInvStep == ASSUME IndexInv, [BookNext]_bookVars PROVE IndexInv'
<1>1. IndexTyped'
  BY IndexTypedStep DEF IndexInv
<1>2. ASSUME calm' # "crossed" PROVE Sound' /\ (calm' = "whole" => Whole')
  <2>1. CASE UNCHANGED bookVars
    BY <1>2, <2>1, StutterKeeps
  <2>2. ASSUME NEW t \in BookThread,
               \/ EnterEnsure(t) \/ Ensure(t) \/ Load(t) \/ Reset(t)
               \/ ScanLine(t) \/ ScanEnd(t) \/ TakeNumber(t) \/ EnterNumber(t)
               \/ WriteOff(t) \/ WriteMeta(t)
        PROVE  Sound' /\ (calm' = "whole" => Whole')
    BY <1>2, <2>2, EnterEnsureKeeps, EnsureKeeps, LoadKeeps, ResetKeeps, ScanLineKeeps,
       ScanEndKeeps, TakeNumberKeeps, EnterNumberKeeps, WriteOffKeeps, WriteMetaKeeps
  <2>3. CASE ReadTip
    BY <1>2, <2>3, ReadTipKeeps
  <2>4. CASE WriteLine
    BY <1>2, <2>4, WriteLineKeeps
  <2>5. CASE NoteAppended
    BY <1>2, <2>5, NoteAppendedKeeps
  <2>6. CASE Die
    BY <1>2, <2>6, DieKeeps
  <2> QED BY <2>1, <2>2, <2>3, <2>4, <2>5, <2>6 DEF BookNext
<1>3. calm' # "crossed" => Sound'
  BY <1>2
<1>4. calm' = "whole" => Whole'
  BY <1>2
<1> QED BY <1>1, <1>3, <1>4 DEF IndexInv

\* The index of a book: until two threads change it at once, one thread at most
\* changes it, and what memory and the two files say leads to right lines; as
\* long as no line was torn either, it holds every line up to the one in work
\* (ensure, rebuild, note_appended, _persist, the append that feeds it).
THEOREM IndexInvariant == BookSpec => []IndexInv
  BY IndexInvStart, IndexInvStep, PTL DEF BookSpec

\* Between calls the index is the one a scan of the file would build, as long
\* as no line is torn and no two threads change it at once, for every number of
\* readers and every length of the book (ensure, _persist).
THEOREM IndexStaysExact == BookSpec => []IndexExact
<1>1. ASSUME IndexInv PROVE IndexExact
  <2> SUFFICES ASSUME calm = "whole", \A t \in BookThread : step[t] = AtRest
               PROVE  /\ offsets = [k \in 1 .. Len(file) |-> k]
                      /\ DOMAIN byIndex = Range(file)
                      /\ \A k \in DOMAIN file :
                             byIndex[file[k]] <= k /\ file[byIndex[file[k]]] = file[k]
    BY DEF IndexExact
  <2>1. /\ file \in Seq(Nat \cup {Torn}) /\ Len(file) \in Nat /\ DOMAIN file = 1 .. Len(file)
        /\ offsets \in Seq(1 .. Len(file)) /\ Appender \in BookThread
    BY <1>1, IndexFacts DEF IndexInv
  <2>2. (\A t \in BookThread : ~Changing(t)) /\ ~Booting
    BY <2>1 DEF Changing, Booting, AtRest
  <2>3. EveryLine(offsets, Len(file)) /\ Firsts(file, byIndex, Len(file))
    BY <1>1, <2>2 DEF IndexInv, Whole
  <2>4. offsets = [k \in 1 .. Len(file) |-> k]
    BY <2>1, <2>3 DEF EveryLine
  <2>5. DOMAIN byIndex = Range(file)
    BY <2>1, <2>3 DEF Firsts, Range
  <2>6. ASSUME NEW k \in DOMAIN file
        PROVE  byIndex[file[k]] <= k /\ file[byIndex[file[k]]] = file[k]
    <3>1. k \in 1 .. Len(file) /\ k \in Nat
      BY <2>1
    <3>2. byIndex[file[k]] \in 1 .. k /\ file[byIndex[file[k]]] = file[k]
      BY <2>3, <3>1 DEF Firsts
    <3> QED BY <3>1, <3>2
  <2> QED BY <2>4, <2>5, <2>6
<1> QED BY <1>1, IndexInvariant, PTL

\* Look-ups lead to a line of their index until two threads change the index at
\* once, whatever lines are torn or joined and wherever the process dies
\* (get_by_consensus_index).
THEOREM LookupsRight == BookSpec => []LookupRight
<1>1. ASSUME IndexInv PROVE LookupRight
  BY <1>1 DEF IndexInv, Sound, Leads, LookupRight
<1> QED BY <1>1, IndexInvariant, PTL
=============================================================================
