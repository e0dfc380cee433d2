------------------------ MODULE ChainLedger_proofs --------------------------
(***************************************************************************)
(* Proofs about ChainLedger: for any legacy book, peers, bounds and number *)
(* of threads, the books hold blocks, every line of theirs follows what    *)
(* was once their tip, the exclusive range of a replica's public book is   *)
(* certified, and a WorkID is paid once until two calls cross in the       *)
(* registry or a crash cuts its file.                                      *)
(***************************************************************************)
EXTENDS ChainLedger, TLAPS

\* What appending a line adds to the lines of a book.
LEMMA RangeAppend ==
    ASSUME NEW S, NEW s \in Seq(S), NEW b \in S
    PROVE  Range(Append(s, b)) = Range(s) \cup {b}
<1>1. DOMAIN Append(s, b) = 1 .. Len(s) + 1 /\ DOMAIN s = 1 .. Len(s)
    OBVIOUS
<1>2. \A k \in 1 .. Len(s) : Append(s, b)[k] = s[k]
    OBVIOUS
<1>3. Append(s, b)[Len(s) + 1] = b
    OBVIOUS
<1> QED
    BY <1>1, <1>2, <1>3 DEF Range

\* The block an append builds is a block.
LEMMA TipType ==
    ASSUME NEW book \in Seq(Block)
    PROVE  Tip(book).index + 1 \in Nat /\ Tip(book).hash \in Nat
<1>1. CASE book = << >>
    BY <1>1 DEF Tip, Genesis
<1>2. CASE book # << >>
  <2>1. book[Len(book)] \in Block
    BY <1>2
  <2> QED
    BY <1>2, <2>1 DEF Tip, Last, Block
<1> QED
    BY <1>1, <1>2

LEMMA RewardNat == BlockReward \in Nat
    BY LedgerAssumption, IssuedAssumption DEF BlockReward

-----------------------------------------------------------------------------
(* Type correctness. *)

LEMMA LegacyLine ==
    ASSUME NEW k \in 1 .. Len(Legacy)
    PROVE  /\ Legacy[k] \in Block
           /\ Legacy[k].work = NoWork
           /\ Legacy[k].public => Legacy[k].index < Exclusive
<1>1. Legacy \in Seq(Block)
    BY LedgerAssumption
<1>2. Legacy[k] \in Range(Legacy)
    BY <1>1 DEF Range
<1> QED
    BY <1>1, <1>2, LedgerAssumption

\* A thread that is at a step serves a call.
LEMMA Serving ==
    ASSUME TypeOK, NEW t \in Thread, NEW pc \in Pc, At(t, pc)
    PROVE  /\ call[t] \in Step
           /\ call[t] # NoCall
           /\ call[t].block \in Block
           /\ call[t].pc = pc
<1>1. call[t] \in Step \cup Rewriting
    BY DEF TypeOK, At
<1>2. call[t].pc = pc
    BY DEF At
<1>3. call[t] \notin Rewriting
    BY <1>2 DEF Rewriting, Pc
<1> QED
    BY <1>1, <1>2, <1>3 DEF At, Step

\* Moving a thread to another step, or ending its call, keeps the type.
LEMMA CallType ==
    ASSUME TypeOK, NEW t \in Thread
    PROVE  /\ Return(t) => call' \in [Thread -> Step \cup Rewriting \cup {NoCall}]
           /\ \A pc \in Pc : call[t] \in Step /\ Goto(t, pc) =>
                  call' \in [Thread -> Step \cup Rewriting \cup {NoCall}]
<1>1. call \in [Thread -> Step \cup Rewriting \cup {NoCall}]
    BY DEF TypeOK
<1>2. Return(t) => call' \in [Thread -> Step \cup Rewriting \cup {NoCall}]
    BY <1>1 DEF Return
<1>3. ASSUME NEW pc \in Pc, call[t] \in Step, Goto(t, pc)
      PROVE  call' \in [Thread -> Step \cup Rewriting \cup {NoCall}]
  <2>1. [call[t] EXCEPT !.pc = pc] \in Step
    BY <1>3 DEF Step
  <2> QED
    BY <1>1, <1>3, <2>1 DEF Goto
<1> QED
    BY <1>2, <1>3

LEMMA InitType == LedgerInit => TypeOK
<1> SUFFICES ASSUME LedgerInit PROVE TypeOK
    OBVIOUS
<1>1. Len(Legacy) \in Nat /\ Drawn \in Nat
    BY LedgerAssumption DEF LedgerAssumption
<1>2. copied \in 0 .. Len(Legacy)
    BY <1>1 DEF LedgerInit
<1>3. call \in [Thread -> Step \cup Rewriting \cup {NoCall}]
    BY DEF LedgerInit
<1>4. public \in Seq(Block) /\ private \in Seq(Block)
    BY DEF LedgerInit
<1>5. made \in Nat /\ marker \in BOOLEAN /\ phase \in {"down", "copying", "open"}
    BY <1>1 DEF LedgerInit
<1>6. settled \subseteq Work /\ torn \in BOOLEAN /\ crossed \in BOOLEAN /\ installed \subseteq certified /\ certified \subseteq Block
    BY DEF LedgerInit
<1> QED
    BY <1>2, <1>3, <1>4, <1>5, <1>6 DEF TypeOK

LEMMA NextType == TypeOK /\ [LedgerNext]_ledgerVars => TypeOK'
<1> SUFFICES ASSUME TypeOK, [LedgerNext]_ledgerVars PROVE TypeOK'
    OBVIOUS
<1> USE DEF TypeOK, books, opening, registry, network
<1>1. CASE OpenBooks
    BY <1>1 DEF OpenBooks
<1>2. CASE StartCopying
    BY <1>2, LedgerAssumption DEF StartCopying
<1>3. CASE CopyLine
  <2> DEFINE b == Legacy[copied + 1]
  <2>0. Len(Legacy) \in Nat
    BY LedgerAssumption
  <2>1. copied + 1 \in 1 .. Len(Legacy)
    BY <1>3, <2>0 DEF CopyLine
  <2>2. b \in Block
    BY <2>1, LegacyLine
  <2>3. public' \in Seq(Block) /\ private' \in Seq(Block)
    BY <1>3, <2>2 DEF CopyLine
  <2>4. copied' \in 0 .. Len(Legacy)
    BY <1>3, <2>1 DEF CopyLine
  <2> QED
    BY <1>3, <2>3, <2>4 DEF CopyLine
<1>4. CASE FinishCopying
    BY <1>4 DEF FinishCopying
<1>5. ASSUME Crash \/ \E t \in Thread : CutRegistry(t)
      PROVE  TypeOK'
    BY <1>5 DEF Crash, CutRegistry
<1>6. CASE NetworkCertifies
  <2>1. PICK p \in Known : NetworkCertifies!3!(p)
    BY <1>6 DEF NetworkCertifies
  <2>2. p \in Block
    BY LedgerAssumption DEF Known, Range
  <2> DEFINE b == [index |-> p.index + 1, hash |-> made + 1, prev |-> p.hash,
                   public |-> TRUE, reward |-> BlockReward, work |-> NoWork]
  <2>3. b \in Block
    BY <2>2, RewardNat DEF Block
  <2>4. certified' = certified \cup {b}
    BY <2>1
  <2>5. made' \in Nat
    BY <1>6 DEF NetworkCertifies
  <2> QED
    BY <1>6, <2>3, <2>4, <2>5 DEF NetworkCertifies
<1>7. ASSUME NEW t \in Thread, NEW vis \in BOOLEAN, NEW dry \in BOOLEAN,
             NEW w \in Work \cup {NoWork}, BeginAppend(t, vis, w, dry)
      PROVE  TypeOK'
  <2> DEFINE tip == Tip(IF vis THEN public ELSE private)
             b == [index |-> tip.index + 1, hash |-> made + 1, prev |-> tip.hash,
                   public |-> vis, reward |-> BlockReward, work |-> w]
  <2>1. tip.index + 1 \in Nat /\ tip.hash \in Nat
    BY TipType
  <2>2. b \in Block
    BY <2>1, RewardNat DEF Block
  <2>3. [pc |-> "check", dry |-> dry, rows |-> {}, block |-> b] \in Step
    BY <2>2 DEF Step, Pc
  <2>4. call' = [call EXCEPT ![t] = [pc |-> "check", dry |-> dry, rows |-> {}, block |-> b]]
    BY <1>7 DEF BeginAppend
  <2>5. call' \in [Thread -> Step \cup Rewriting \cup {NoCall}]
    BY <2>3, <2>4
  <2> QED
    BY <1>7, <2>5 DEF BeginAppend
<1>8. ASSUME NEW t \in Thread, CheckWork(t) \/ ReadWork(t) \/ TestImport(t)
      PROVE  TypeOK'
  <2>1. call[t] \in Step
    BY <1>8, Serving DEF CheckWork, ReadWork, TestImport, Pc
  <2>2. Return(t) \/ \E pc \in Pc : Goto(t, pc)
    BY <1>8 DEF CheckWork, ReadWork, TestImport, Pc
  <2>3. call' \in [Thread -> Step \cup Rewriting \cup {NoCall}]
    BY <2>1, <2>2, CallType
  <2>4. crossed' \in BOOLEAN
    BY <1>8 DEF CheckWork, ReadWork, TestImport, Enters
  <2> QED
    BY <1>8, <2>3, <2>4 DEF CheckWork, ReadWork, TestImport
<1>9. ASSUME NEW t \in Thread, SaveWork(t) PROVE TypeOK'
  <2>1. call[t] \in Step /\ call[t].block \in Block /\ call[t].rows \subseteq Work
    BY <1>9, Serving DEF SaveWork, Step, Pc
  <2>2. Return(t) \/ \E pc \in Pc : Goto(t, pc)
    BY <1>9 DEF SaveWork, AfterSettling, Pc
  <2>3. call' \in [Thread -> Step \cup Rewriting \cup {NoCall}]
    BY <2>1, <2>2, CallType
  <2>4. settled' \subseteq Work
    BY <1>9, <2>1 DEF SaveWork, Block
  <2> QED
    BY <1>9, <2>3, <2>4 DEF SaveWork
<1>10. ASSUME NEW t \in Thread, FinalizeFails(t) PROVE TypeOK'
    BY <1>10, CallType DEF FinalizeFails
<1>11. ASSUME NEW t \in Thread, FinalizeCertifies(t) PROVE TypeOK'
  <2>1. call[t] \in Step /\ call[t].block \in Block
    BY <1>11, Serving DEF FinalizeCertifies, Pc
  <2>2. Return(t) \/ \E pc \in Pc : Goto(t, pc)
    BY <1>11 DEF FinalizeCertifies, Pc
  <2>3. call' \in [Thread -> Step \cup Rewriting \cup {NoCall}]
    BY <2>1, <2>2, CallType
  <2> QED
    BY <1>11, <2>1, <2>3 DEF FinalizeCertifies
<1>12. ASSUME NEW t \in Thread, NEW b \in PeerBlocks \cup certified,
              BeginCertified(t, b) \/ BeginSync(t, b)
       PROVE  TypeOK'
  <2>1. b \in Block
    BY LedgerAssumption
  <2>2. [pc |-> "test", block |-> b, dry |-> FALSE, rows |-> {}] \in Step
    BY <2>1 DEF Step, Pc
  <2>3. call' \in [Thread -> Step \cup Rewriting \cup {NoCall}]
    BY <1>12, <2>2 DEF BeginCertified, BeginSync
  <2> QED
    BY <1>12, <2>3 DEF BeginCertified, BeginSync
<1>13. ASSUME NEW t \in Thread, WriteBlock(t) PROVE TypeOK'
  <2>1. call[t].block \in Block
    BY <1>13, Serving DEF WriteBlock, Pc
  <2>2. call' \in [Thread -> Step \cup Rewriting \cup {NoCall}]
    BY <1>13, CallType DEF WriteBlock
  <2>3. public' \in Seq(Block) /\ private' \in Seq(Block)
    BY <1>13, <2>1 DEF WriteBlock
  <2> QED
    BY <1>13, <2>2, <2>3 DEF WriteBlock
<1>14. CASE UNCHANGED ledgerVars
    BY <1>14 DEF ledgerVars
<1>15. ASSUME NEW t \in Thread, LoadRows(t) PROVE TypeOK'
  <2>1. call[t] \in Step
    BY <1>15, Serving DEF LoadRows, Pc
  <2>2. [call[t] EXCEPT !.pc = "save", !.rows = settled] \in Step
    BY <2>1 DEF Step, Pc
  <2>3. call' = [call EXCEPT ![t] = [call[t] EXCEPT !.pc = "save", !.rows = settled]]
    BY <1>15 DEF LoadRows
  <2>4. call' \in [Thread -> Step \cup Rewriting \cup {NoCall}]
    BY <2>2, <2>3
  <2> QED
    BY <1>15, <2>4 DEF LoadRows
<1>16. ASSUME NEW t \in Thread, BeginRewrite(t) PROVE TypeOK'
  <2>1. [pc |-> "rewrite", rows |-> settled] \in Rewriting
    BY DEF Rewriting
  <2>2. call' \in [Thread -> Step \cup Rewriting \cup {NoCall}]
    BY <1>16, <2>1 DEF BeginRewrite
  <2>3. crossed' \in BOOLEAN
    BY <1>16 DEF BeginRewrite, Enters
  <2> QED
    BY <1>16, <2>2, <2>3 DEF BeginRewrite
<1>17. ASSUME NEW t \in Thread, EndRewrite(t) PROVE TypeOK'
  <2>1. call' \in [Thread -> Step \cup Rewriting \cup {NoCall}]
    BY <1>17, CallType DEF EndRewrite
  <2>2. call[t] \in Step \cup Rewriting
    BY <1>17 DEF EndRewrite, At
  <2>3. settled' \subseteq Work
    BY <1>17, <2>2 DEF EndRewrite, Step, Rewriting
  <2> QED
    BY <1>17, <2>1, <2>3 DEF EndRewrite
<1> QED
    BY <1>1, <1>2, <1>3, <1>4, <1>5, <1>6, <1>7, <1>8, <1>9, <1>10, <1>11,
       <1>12, <1>13, <1>14, <1>15, <1>16, <1>17 DEF LedgerNext, AppendStep, ImportStep

\* Files and threads of a node hold entries of their kind, for any legacy
\* book, peers and threads (ChainManager, split_ledger).
THEOREM LedgerTypeCorrect == LedgerSpec => []TypeOK
    BY InitType, NextType, PTL DEF LedgerSpec

-----------------------------------------------------------------------------
(* The exclusive range of a replica. *)

\* A step that does not write keeps the invariant when the thread it moves
\* gets to write a certified block at most.
LEMMA RangeKept ==
    ASSUME TypeOK, RangeInv, public' = public, certified \subseteq certified',
           \A t \in Thread :
               \/ call'[t] = call[t]
               \/ ~At(t, "write")'
               \/ call'[t].block.public /\ call'[t].block.index >= Exclusive
                     => call'[t].block \in certified'
    PROVE  RangeInv'
    BY DEF RangeInv, ExclusiveRangeCertified, At

LEMMA InitRange == LedgerInit => RangeInv
    BY DEF LedgerInit, RangeInv, ExclusiveRangeCertified, At, Range

LEMMA NextRange ==
    ASSUME TypeOK, RangeInv, [LedgerNext]_ledgerVars, Replica
    PROVE  RangeInv'
<1> USE DEF books, opening, registry, network
<1>1. CASE OpenBooks \/ StartCopying \/ FinishCopying \/ UNCHANGED ledgerVars
    BY <1>1, RangeKept
       DEF OpenBooks, StartCopying, FinishCopying, ledgerVars
<1>2. CASE CopyLine
  <2> DEFINE b == Legacy[copied + 1]
  <2>1. copied + 1 \in 1 .. Len(Legacy)
    BY <1>2, LedgerAssumption DEF CopyLine, TypeOK, LedgerAssumption
  <2>2. b \in Block /\ (b.public => b.index < Exclusive)
    BY <2>1, LegacyLine
  <2>3. Range(public') \subseteq Range(public) \cup {b}
    BY <1>2, <2>2, RangeAppend DEF CopyLine, TypeOK
  <2>4. b.public \/ public' = public
    BY <1>2 DEF CopyLine
  <2>5. ASSUME NEW c \in Range(public'), c.index >= Exclusive
        PROVE  c \in certified
    <3>1. c \in Range(public) \/ (c = b /\ b.public)
      BY <2>3, <2>4
    <3>2. ~(c = b /\ b.public)
      BY <2>2, <2>5, LedgerAssumption DEF Block, LedgerAssumption
    <3> QED
      BY <2>5, <3>1, <3>2 DEF RangeInv, ExclusiveRangeCertified
  <2> QED
    BY <1>2, <2>5 DEF RangeInv, ExclusiveRangeCertified, CopyLine, At
<1>3. ASSUME Crash \/ \E t \in Thread : CutRegistry(t)
      PROVE  RangeInv'
  <2>1. \A t \in Thread : ~At(t, "write")'
    BY <1>3 DEF Crash, CutRegistry, At
  <2>2. public' = public /\ certified' = certified
    BY <1>3 DEF Crash, CutRegistry
  <2> QED
    BY <2>1, <2>2, RangeKept
<1>4. CASE NetworkCertifies
    BY <1>4, RangeKept DEF NetworkCertifies
<1>5. ASSUME NEW t \in Thread, NEW vis \in BOOLEAN, NEW dry \in BOOLEAN,
             NEW w \in Work \cup {NoWork}, BeginAppend(t, vis, w, dry)
      PROVE  RangeInv'
  <2>1. call'[t].pc = "check"
    BY <1>5 DEF BeginAppend, TypeOK
  <2>2. \A u \in Thread : u # t => call'[u] = call[u]
    BY <1>5 DEF BeginAppend, TypeOK
  <2> QED
    BY <1>5, <2>1, <2>2, RangeKept DEF BeginAppend, At
<1>6. ASSUME NEW t \in Thread,
             CheckWork(t) \/ ReadWork(t) \/ SaveWork(t) \/ FinalizeFails(t)
                 \/ FinalizeCertifies(t) \/ TestImport(t)
      PROVE  RangeInv'
  <2>1. call[t] # NoCall /\ call[t].block \in Block /\ call[t] \in Step
    BY <1>6, Serving DEF CheckWork, ReadWork, SaveWork, FinalizeFails,
                FinalizeCertifies, TestImport, Pc
  <2>2. \A u \in Thread : u # t => call'[u] = call[u]
    BY <1>6 DEF CheckWork, ReadWork, SaveWork, AfterSettling, FinalizeFails,
                FinalizeCertifies, TestImport, Return, Goto, TypeOK
  <2>3. public' = public /\ certified \subseteq certified'
    BY <1>6 DEF CheckWork, ReadWork, SaveWork, FinalizeFails, FinalizeCertifies,
                TestImport
  <2>4. \/ ~At(t, "write")'
        \/ call'[t].block.public /\ call'[t].block.index >= Exclusive
              => call'[t].block \in certified'
    <3>1. CASE Return(t)
      BY <3>1 DEF Return, At, TypeOK
    <3>2. ASSUME Goto(t, "write")
          PROVE  call'[t].block = call[t].block
      BY <2>1, <3>2 DEF Goto, TypeOK, Step
    <3>3. ASSUME NEW pc \in Pc, pc # "write", Goto(t, pc)
          PROVE  ~At(t, "write")'
      BY <2>1, <3>3 DEF Goto, At, TypeOK, Step
    <3>4. CASE SaveWork(t)
      <4>1. CASE ~call[t].dry /\ ~call[t].block.public
        BY <3>2, <3>4, <4>1 DEF SaveWork, AfterSettling
      <4>2. CASE call[t].dry \/ call[t].block.public
        BY <3>1, <3>3, <3>4, <4>2 DEF SaveWork, AfterSettling, Pc
      <4> QED
        BY <4>1, <4>2
    <3>5. CASE TestImport(t)
      BY <2>3, <3>1, <3>2, <3>5 DEF TestImport, MayImport
    <3>6. CASE CheckWork(t) \/ ReadWork(t) \/ FinalizeFails(t) \/ FinalizeCertifies(t)
      BY <3>1, <3>3, <3>6
         DEF CheckWork, ReadWork, FinalizeFails, FinalizeCertifies, Pc
    <3> QED
      BY <1>6, <3>4, <3>5, <3>6
  <2> QED
    BY <2>2, <2>3, <2>4, RangeKept
<1>7. ASSUME NEW t \in Thread, NEW b, BeginCertified(t, b) \/ BeginSync(t, b)
      PROVE  RangeInv'
  <2>1. \A u \in Thread : u # t => call'[u] = call[u]
    BY <1>7 DEF BeginCertified, BeginSync, TypeOK
  <2>2. call'[t] = call[t] \/ call'[t].pc = "test"
    BY <1>7 DEF BeginCertified, BeginSync, TypeOK
  <2> QED
    BY <1>7, <2>1, <2>2, RangeKept DEF BeginCertified, BeginSync, At
<1>8. ASSUME NEW t \in Thread, WriteBlock(t)
      PROVE  RangeInv'
  <2> DEFINE b == call[t].block
  <2>1. b \in Block
    BY <1>8, Serving DEF WriteBlock, Pc
  <2>2. Range(public') \subseteq Range(public) \cup {b}
    BY <1>8, <2>1, RangeAppend DEF WriteBlock, TypeOK
  <2>3. b.public \/ public' = public
    BY <1>8 DEF WriteBlock
  <2>4. b.public /\ b.index >= Exclusive => b \in certified
    BY <1>8 DEF WriteBlock, RangeInv
  <2>5. ExclusiveRangeCertified'
    BY <1>8, <2>2, <2>3, <2>4 DEF WriteBlock, RangeInv, ExclusiveRangeCertified
  <2>6. \A u \in Thread : u # t => call'[u] = call[u]
    BY <1>8 DEF WriteBlock, Return, TypeOK
  <2>7. ~At(t, "write")'
    BY <1>8 DEF WriteBlock, Return, At, TypeOK
  <2> QED
    BY <1>8, <2>5, <2>6, <2>7 DEF RangeInv, WriteBlock, At
<1>9. ASSUME NEW t \in Thread, LoadRows(t) \/ BeginRewrite(t) \/ EndRewrite(t)
      PROVE  RangeInv'
  <2>1. \A u \in Thread : u # t => call'[u] = call[u]
    BY <1>9 DEF LoadRows, BeginRewrite, EndRewrite, Return, TypeOK
  <2>2. CASE LoadRows(t)
    <3>1. call[t] \in Step
      BY <2>2, Serving DEF LoadRows, Pc
    <3>2. call'[t].pc = "save"
      BY <2>2, <3>1 DEF LoadRows, TypeOK, Step
    <3> QED
      BY <2>1, <2>2, <3>2, RangeKept DEF LoadRows, At
  <2>3. CASE BeginRewrite(t)
    <3>1. call'[t].pc = "rewrite"
      BY <2>3 DEF BeginRewrite, TypeOK
    <3> QED
      BY <2>1, <2>3, <3>1, RangeKept DEF BeginRewrite, At
  <2>4. CASE EndRewrite(t)
    <3>1. call'[t] = NoCall
      BY <2>4 DEF EndRewrite, Return, TypeOK
    <3> QED
      BY <2>1, <2>4, <3>1, RangeKept DEF EndRewrite, At
  <2> QED
    BY <1>9, <2>2, <2>3, <2>4
<1> QED
    BY <1>1, <1>2, <1>3, <1>4, <1>5, <1>6, <1>7, <1>8, <1>9
       DEF LedgerNext, AppendStep, ImportStep

\* On an official replica every line of the public book from the first
\* exclusive index on is certified, with any number of threads and crashes.
THEOREM RangeCertified ==
    ASSUME Replica
    PROVE  LedgerSpec => []ExclusiveRangeCertified
<1>1. LedgerInit => TypeOK /\ RangeInv
    BY InitType, InitRange
<1>2. TypeOK /\ RangeInv /\ [LedgerNext]_ledgerVars => (TypeOK /\ RangeInv)'
    BY NextType, NextRange
<1>3. RangeInv => ExclusiveRangeCertified
    BY DEF RangeInv
<1> QED
    BY <1>1, <1>2, <1>3, PTL DEF LedgerSpec

-----------------------------------------------------------------------------
(* A WorkID is paid once. *)

\* A step that lets no new block pay, and no thread into the registry, keeps
\* the invariant.
LEMMA WorkKept ==
    ASSUME SettledFirst, settled' = settled,
           \A b \in Paying' : b \in Paying \/ b.work = NoWork,
           \A t \in Thread :
               Busy(t)' => Busy(t) /\ call'[t] = call[t]
    PROVE  SettledFirst'
    BY DEF SettledFirst, Busy, At, Settleable

\* Lines come from the legacy book or from a thread about to write them.
LEMMA LinesGrow ==
    ASSUME TypeOK, NEW b \in Block,
           \/ public' = public \/ public' = Append(public, b),
           \/ private' = private \/ private' = Append(private, b)
    PROVE  Lines' \subseteq Lines \cup {b}
<1>0. /\ Range(Append(public, b)) = Range(public) \cup {b}
      /\ Range(Append(private, b)) = Range(private) \cup {b}
  <2>1. public \in Seq(Block) /\ private \in Seq(Block)
    BY DEF TypeOK
  <2> QED
    BY <2>1, RangeAppend
<1>1. Range(public') \subseteq Range(public) \cup {b}
    BY <1>0
<1>2. Range(private') \subseteq Range(private) \cup {b}
    BY <1>0
<1> QED
    BY <1>1, <1>2 DEF Lines

LEMMA InitWork == LedgerInit => SettledFirst
<1> SUFFICES ASSUME LedgerInit PROVE SettledFirst
    OBVIOUS
<1>1. \A t \in Thread : \A pc : ~At(t, pc)
    BY DEF LedgerInit, At
<1>2. Paying = {}
    BY <1>1 DEF LedgerInit, Paying, Lines, Range
<1> QED
    BY <1>1, <1>2 DEF SettledFirst, Busy

LEMMA NextWork ==
    ASSUME TypeOK, SettledFirst, [LedgerNext]_ledgerVars, ~torn', ~crossed'
    PROVE  SettledFirst'
<1> USE DEF books, opening, registry, network
<1>1. CASE OpenBooks \/ StartCopying \/ FinishCopying \/ UNCHANGED ledgerVars
  <2>1. Paying' = Paying /\ settled' = settled /\ call' = call
    BY <1>1 DEF OpenBooks, StartCopying, FinishCopying, ledgerVars, Paying, Lines, At
  <2> QED
    BY <2>1, WorkKept DEF Busy, At
<1>2. CASE CopyLine
  <2> DEFINE b == Legacy[copied + 1]
  <2>1. copied + 1 \in 1 .. Len(Legacy)
    BY <1>2, LedgerAssumption DEF CopyLine, TypeOK, LedgerAssumption
  <2>2. b \in Block /\ b.work = NoWork
    BY <2>1, LegacyLine
  <2>3. Lines' \subseteq Lines \cup {b}
    BY <1>2, <2>2, LinesGrow DEF CopyLine
  <2>4. certified' = certified /\ call' = call /\ settled' = settled
    BY <1>2 DEF CopyLine
  <2>5. Paying' \subseteq Paying \cup {b}
    BY <2>3, <2>4 DEF Paying, At
  <2> QED
    BY <2>2, <2>4, <2>5, WorkKept DEF Busy, At
<1>3. CASE Crash
  <2>1. \A t \in Thread, pc \in Pc \cup {"rewrite"} : ~At(t, pc)'
    BY <1>3 DEF Crash, At
  <2>2. Lines' = Lines /\ certified' = certified /\ settled' = settled
    BY <1>3 DEF Crash, Lines
  <2>3. Paying' \subseteq Paying
    BY <2>1, <2>2 DEF Paying, Pc
  <2> QED
    BY <2>1, <2>2, <2>3, WorkKept DEF Pc, Busy
<1>4. CASE NetworkCertifies
  <2>1. PICK p \in Known : NetworkCertifies!3!(p)
    BY <1>4 DEF NetworkCertifies
  <2> DEFINE b == [index |-> p.index + 1, hash |-> made + 1, prev |-> p.hash,
                   public |-> TRUE, reward |-> BlockReward, work |-> NoWork]
  <2>2. certified' = certified \cup {b} /\ b.work = NoWork
    BY <2>1
  <2>3. Lines' = Lines /\ call' = call /\ settled' = settled
    BY <1>4 DEF NetworkCertifies, Lines
  <2>4. Paying' \subseteq Paying \cup {b}
    BY <2>2, <2>3 DEF Paying, At
  <2> QED
    BY <2>2, <2>3, <2>4, WorkKept DEF Busy, At
<1>5. ASSUME NEW t \in Thread, NEW vis \in BOOLEAN, NEW dry \in BOOLEAN,
             NEW w \in Work \cup {NoWork}, BeginAppend(t, vis, w, dry)
      PROVE  SettledFirst'
  <2>1. call'[t].pc = "check" /\ \A u \in Thread : u # t => call'[u] = call[u]
    BY <1>5 DEF BeginAppend, TypeOK
  <2>2. Lines' = Lines /\ certified' = certified /\ settled' = settled
    BY <1>5 DEF BeginAppend, Lines
  <2>3. Paying' \subseteq Paying
    BY <2>1, <2>2 DEF Paying, At
  <2> QED
    BY <2>1, <2>2, <2>3, WorkKept DEF Busy, At
<1>6. ASSUME NEW t \in Thread, CheckWork(t) \/ (ReadWork(t) /\ ~Settleable(t))
      PROVE  SettledFirst'
  <2>1. call[t] \in Step
    BY <1>6, Serving DEF CheckWork, ReadWork, Pc
  <2>2. Lines' = Lines /\ certified' = certified /\ settled' = settled
    BY <1>6 DEF CheckWork, ReadWork, Lines
  <2>3. call'[t] = NoCall \/ call'[t].pc = "read"
    BY <1>6, <2>1 DEF CheckWork, ReadWork, Return, Goto, TypeOK, Step
  <2>4. \A u \in Thread : u # t => call'[u] = call[u]
    BY <1>6 DEF CheckWork, ReadWork, Return, Goto, TypeOK
  <2>5. Paying' \subseteq Paying
    BY <2>2, <2>3, <2>4 DEF Paying, At
  <2> QED
    BY <2>2, <2>3, <2>4, <2>5, WorkKept DEF Busy, At
<1>7. ASSUME NEW t \in Thread, ReadWork(t), Settleable(t)
      PROVE  SettledFirst'
  <2>1. call[t] \in Step
    BY <1>7, Serving DEF ReadWork, Pc
  <2>2. Lines' = Lines /\ certified' = certified /\ settled' = settled
    BY <1>7 DEF ReadWork, Lines
  <2>3. call'[t].pc = "load" /\ call'[t].block = call[t].block
    BY <1>7, <2>1 DEF ReadWork, Goto, TypeOK, Step
  <2>4. \A u \in Thread : u # t => call'[u] = call[u]
    BY <1>7 DEF ReadWork, Goto, TypeOK
  <2>5. \A u \in Thread : u # t => ~Busy(u) /\ ~Busy(u)'
    BY <1>7, <2>4 DEF ReadWork, Enters, Busy, At
  <2>6. \A b \in Paying' : b \in Paying
    BY <2>2, <2>3, <2>4 DEF Paying, At
  <2>7. Settleable(t)' /\ ~At(t, "save")' /\ ~At(t, "rewrite")'
    BY <1>7, <2>2, <2>3 DEF Settleable, At
  <2> QED
    BY <2>2, <2>5, <2>6, <2>7 DEF SettledFirst, Busy
<1>8. ASSUME NEW t \in Thread, LoadRows(t)
      PROVE  SettledFirst'
  <2>1. call[t] \in Step
    BY <1>8, Serving DEF LoadRows, Pc
  <2>2. Lines' = Lines /\ certified' = certified /\ settled' = settled
    BY <1>8 DEF LoadRows, Lines
  <2>3. /\ call'[t].pc = "save" /\ call'[t].block = call[t].block
        /\ call'[t].rows = settled
    BY <1>8, <2>1 DEF LoadRows, TypeOK, Step
  <2>4. \A u \in Thread : u # t => call'[u] = call[u]
    BY <1>8 DEF LoadRows, TypeOK
  <2>5. Busy(t) /\ Settleable(t)
    BY <1>8 DEF LoadRows, Busy, SettledFirst
  <2>6. \A u \in Thread : u # t => ~Busy(u) /\ ~Busy(u)'
    BY <2>4, <2>5 DEF SettledFirst, Busy, At
  <2>7. \A b \in Paying' : b \in Paying
    BY <2>2, <2>3, <2>4 DEF Paying, At
  <2>8. Settleable(t)' /\ ~At(t, "rewrite")' /\ call'[t].rows = settled'
    BY <2>2, <2>3, <2>5 DEF Settleable, At
  <2> QED
    BY <2>2, <2>6, <2>7, <2>8 DEF SettledFirst, Busy
<1>9. ASSUME NEW t \in Thread, SaveWork(t)
      PROVE  SettledFirst'
  <2> DEFINE b == call[t].block
  <2>1. call[t] \in Step /\ b \in Block
    BY <1>9, Serving DEF SaveWork, Pc
  <2>2. Lines' = Lines /\ certified' = certified
    BY <1>9 DEF SaveWork, Lines
  <2>3. /\ settled' = settled \cup ({b.work} \ {NoWork}) /\ b.work \notin settled
        /\ Busy(t)
    BY <1>9 DEF SaveWork, SettledFirst, Settleable, Busy
  <2>4. \/ call'[t] = NoCall
        \/ call'[t].block = b /\ call'[t].pc \in {"finalize", "write"}
    BY <1>9, <2>1 DEF SaveWork, AfterSettling, Return, Goto, TypeOK, Step
  <2>5. \A u \in Thread : u # t => call'[u] = call[u]
    BY <1>9 DEF SaveWork, AfterSettling, Return, Goto, TypeOK
  <2>6. Paying' \subseteq Paying \cup {b}
    BY <2>2, <2>4, <2>5 DEF Paying, At
  <2>7. \A u \in Thread : ~Busy(u)'
    BY <2>3, <2>4, <2>5 DEF SettledFirst, Busy, At
  <2>8. \A c \in Paying : c.work = b.work => c.work = NoWork
    BY <2>3 DEF SettledFirst
  <2>9. \A c \in Paying' : c.work # NoWork => c.work \in settled'
    BY <2>3, <2>6 DEF SettledFirst
  <2>10. \A c, d \in Paying' : c.work = d.work /\ c.work # NoWork => c = d
    BY <2>6, <2>8 DEF SettledFirst
  <2> QED
    BY <2>7, <2>9, <2>10 DEF SettledFirst, Busy
<1>10. ASSUME NEW t \in Thread, BeginRewrite(t)
       PROVE  SettledFirst'
  <2>1. Lines' = Lines /\ certified' = certified /\ settled' = settled
    BY <1>10 DEF BeginRewrite, Lines
  <2>2. call'[t].pc = "rewrite" /\ call'[t].rows = settled
    BY <1>10 DEF BeginRewrite, TypeOK
  <2>3. \A u \in Thread : u # t => call'[u] = call[u]
    BY <1>10 DEF BeginRewrite, TypeOK
  <2>4. \A u \in Thread : u # t => ~Busy(u) /\ ~Busy(u)'
    BY <1>10, <2>3 DEF BeginRewrite, Enters, Busy, At
  <2>5. \A b \in Paying' : b \in Paying
    BY <2>1, <2>2, <2>3 DEF Paying, At
  <2>6. ~At(t, "load")' /\ ~At(t, "save")' /\ call'[t].rows = settled'
    BY <2>1, <2>2 DEF At
  <2> QED
    BY <2>1, <2>4, <2>5, <2>6 DEF SettledFirst, Busy
<1>11. ASSUME NEW t \in Thread, EndRewrite(t)
       PROVE  SettledFirst'
  <2>1. Lines' = Lines /\ certified' = certified
    BY <1>11 DEF EndRewrite, Lines
  <2>2. settled' = settled
    BY <1>11 DEF EndRewrite, SettledFirst
  <2>3. call'[t] = NoCall /\ \A u \in Thread : u # t => call'[u] = call[u]
    BY <1>11 DEF EndRewrite, Return, TypeOK
  <2>4. Paying' \subseteq Paying
    BY <2>1, <2>3 DEF Paying, At
  <2> QED
    BY <2>2, <2>3, <2>4, WorkKept DEF Busy, At
<1>12. ASSUME NEW t \in Thread,
              FinalizeFails(t) \/ FinalizeCertifies(t) \/ TestImport(t)
       PROVE  SettledFirst'
  <2> DEFINE b == call[t].block
  <2>1. call[t] \in Step /\ (b \in Paying)
    BY <1>12, Serving DEF FinalizeFails, FinalizeCertifies, TestImport, Paying, Pc
  <2>2. Lines' = Lines /\ certified' \subseteq certified \cup {b} /\ settled' = settled
    BY <1>12 DEF FinalizeFails, FinalizeCertifies, TestImport, Lines
  <2>3. \/ call'[t] = NoCall
        \/ call'[t].block = b /\ call'[t].pc \in {"test", "write"}
    BY <1>12, <2>1
       DEF FinalizeFails, FinalizeCertifies, TestImport, Return, Goto, TypeOK, Step
  <2>4. \A u \in Thread : u # t => call'[u] = call[u]
    BY <1>12 DEF FinalizeFails, FinalizeCertifies, TestImport, Return, Goto, TypeOK
  <2>5. Paying' \subseteq Paying
    BY <2>1, <2>2, <2>3, <2>4 DEF Paying, At
  <2> QED
    BY <2>2, <2>3, <2>4, <2>5, WorkKept DEF Busy, At
<1>13. ASSUME NEW t \in Thread, NEW b \in PeerBlocks \cup certified,
              BeginCertified(t, b) \/ BeginSync(t, b)
       PROVE  SettledFirst'
  <2>1. b \in Paying \/ b.work = NoWork
    BY LedgerAssumption DEF LedgerAssumption, Paying
  <2>2. Lines' = Lines /\ certified' = certified /\ settled' = settled
    BY <1>13 DEF BeginCertified, BeginSync, Lines
  <2>3. \/ call' = call
        \/ call'[t].block = b /\ call'[t].pc = "test"
    BY <1>13 DEF BeginCertified, BeginSync, TypeOK
  <2>4. \A u \in Thread : u # t => call'[u] = call[u]
    BY <1>13 DEF BeginCertified, BeginSync, TypeOK
  <2>5. Paying' \subseteq Paying \cup {b}
    BY <2>2, <2>3, <2>4 DEF Paying, At
  <2> QED
    BY <2>1, <2>2, <2>3, <2>4, <2>5, WorkKept DEF Busy, At
<1>14. ASSUME NEW t \in Thread, WriteBlock(t)
       PROVE  SettledFirst'
  <2> DEFINE b == call[t].block
  <2>1. b \in Paying /\ b \in Block
    BY <1>14, Serving DEF WriteBlock, Paying, Pc
  <2>2. Lines' \subseteq Lines \cup {b}
    BY <1>14, <2>1, LinesGrow DEF WriteBlock
  <2>3. certified' = certified /\ settled' = settled /\ call'[t] = NoCall
    BY <1>14 DEF WriteBlock, Return, TypeOK
  <2>4. \A u \in Thread : u # t => call'[u] = call[u]
    BY <1>14 DEF WriteBlock, Return, TypeOK
  <2>5. Paying' \subseteq Paying
    BY <2>1, <2>2, <2>3, <2>4 DEF Paying, At
  <2> QED
    BY <2>3, <2>4, <2>5, WorkKept DEF Busy, At
<1>15. ASSUME NEW t \in Thread, CutRegistry(t)
       PROVE  FALSE
    BY <1>15 DEF CutRegistry
<1> QED
    BY <1>1, <1>2, <1>3, <1>4, <1>5, <1>6, <1>7, <1>8, <1>9, <1>10, <1>11,
       <1>12, <1>13, <1>14, <1>15 DEF LedgerNext, AppendStep, ImportStep, ReadWork

\* No step mends the history of a torn registry, or of two calls in it.
LEMMA HistoryStays ==
    ASSUME TypeOK, [LedgerNext]_ledgerVars
    PROVE  (~torn' => ~torn) /\ (~crossed' => ~crossed)
<1>1. CASE UNCHANGED ledgerVars
    BY <1>1 DEF ledgerVars
<1>2. CASE OpenBooks \/ StartCopying \/ CopyLine \/ FinishCopying \/ Crash
                \/ NetworkCertifies
    BY <1>2 DEF OpenBooks, StartCopying, CopyLine, FinishCopying, Crash,
                NetworkCertifies, registry
<1>3. ASSUME NEW t \in Thread, AppendStep(t)
      PROVE  (~torn' => ~torn) /\ (~crossed' => ~crossed)
  <2>1. CASE ReadWork(t) \/ BeginRewrite(t)
    <3>1. torn' = torn /\ Enters(t)
      BY <2>1 DEF ReadWork, BeginRewrite
    <3>2. crossed \in BOOLEAN
      BY DEF TypeOK
    <3> QED
      BY <3>1, <3>2 DEF Enters
  <2>2. CASE SaveWork(t) \/ EndRewrite(t) \/ CutRegistry(t)
    BY <2>2 DEF SaveWork, EndRewrite, CutRegistry
  <2>3. CASE UNCHANGED registry
    BY <2>3 DEF registry
  <2>4. ASSUME NEW vis, NEW dry, NEW w, BeginAppend(t, vis, w, dry)
        PROVE  UNCHANGED registry
    BY <2>4 DEF BeginAppend
  <2> QED
    BY <1>3, <2>1, <2>2, <2>3, <2>4 DEF AppendStep, CheckWork, LoadRows,
       FinalizeFails, FinalizeCertifies
<1>4. ASSUME NEW t \in Thread, ImportStep(t) \/ WriteBlock(t)
      PROVE  (~torn' => ~torn) /\ (~crossed' => ~crossed)
    BY <1>4 DEF ImportStep, BeginCertified, BeginSync, TestImport, WriteBlock, registry
<1> QED
    BY <1>1, <1>2, <1>3, <1>4 DEF LedgerNext

\* A node writes at most one block for a WorkID, however many threads serve
\* appends and imports, whatever finalizations fail and wherever it crashes,
\* until two calls are in the registry at once or a crash cuts its file.
THEOREM PaidOnce == LedgerSpec => []WorkPaidOnce
<1>1. LedgerInit => TypeOK /\ WorkInv
    BY InitType, InitWork DEF WorkInv
<1>2. TypeOK /\ WorkInv /\ [LedgerNext]_ledgerVars => (TypeOK /\ WorkInv)'
    BY NextType, NextWork, HistoryStays DEF WorkInv
<1>3. WorkInv => WorkPaidOnce
    BY DEF WorkInv, SettledFirst, WorkPaidOnce, PaidAtMostOnce, Paying
<1> QED
    BY <1>1, <1>2, <1>3, PTL DEF LedgerSpec

-----------------------------------------------------------------------------
(* Every line follows what was once a tip of its book.                     *)

\* The block follows the book as it is or as it was at some earlier line.
Grounded(b, book) == \E j \in 0 .. Len(book) : Follows(b, Tip(SubSeq(book, 1, j)))

\* The block of a thread may still have to be tested against the public book;
\* from then on, or from the start for an append, it follows what was a tip.
Placed(c, pub, priv) ==
    /\ c.pc \in {"test", "finalize"} => c.block.public
    /\ c.pc # "test" => Grounded(c.block, IF c.block.public THEN pub ELSE priv)

\* The inductive invariant: what is to be written is grounded.
LinksInv ==
    /\ LinesExtendLines
    /\ \A b \in certified : b.public
    /\ \A t \in Thread : call[t] \in Step => Placed(call[t], public, private)

\* The beginnings of a book stay when a line is appended.
LEMMA BeginningStays ==
    ASSUME NEW s \in Seq(Block), NEW b \in Block, NEW j \in 0 .. Len(s)
    PROVE  SubSeq(Append(s, b), 1, j) = SubSeq(s, 1, j)
<1>1. /\ Len(s) \in Nat /\ Len(Append(s, b)) = Len(s) + 1 /\ Append(s, b) \in Seq(Block)
      /\ \A i \in 1 .. Len(s) : Append(s, b)[i] = s[i]
    OBVIOUS
<1> QED
    BY <1>1

LEMMA GroundedStays ==
    ASSUME NEW s \in Seq(Block), NEW b \in Block, NEW c, Grounded(c, s)
    PROVE  Grounded(c, Append(s, b))
<1>1. PICK j \in 0 .. Len(s) : Follows(c, Tip(SubSeq(s, 1, j)))
    BY DEF Grounded
<1>2. SubSeq(Append(s, b), 1, j) = SubSeq(s, 1, j)
    BY BeginningStays
<1>3. j \in 0 .. Len(Append(s, b))
    OBVIOUS
<1> QED
    BY <1>1, <1>2, <1>3 DEF Grounded

\* What follows the tip of a book is grounded in it.
LEMMA TipGrounded ==
    ASSUME NEW s \in Seq(Block), NEW b, Follows(b, Tip(s))
    PROVE  Grounded(b, s)
<1>1. Len(s) \in 0 .. Len(s) /\ SubSeq(s, 1, Len(s)) = s
    OBVIOUS
<1> QED
    BY <1>1 DEF Grounded

\* A grounded line, or one of the legacy book, keeps the lines grounded.
LEMMA AppendFollows ==
    ASSUME NEW s \in Seq(Block), NEW b \in Block, FollowsPast(s),
           b \in Range(Legacy) \/ Grounded(b, s)
    PROVE  FollowsPast(Append(s, b))
<1> DEFINE a == Append(s, b)
<1>1. /\ Len(s) \in Nat /\ DOMAIN s = 1 .. Len(s) /\ DOMAIN a = 1 .. Len(s) + 1
      /\ \A i \in 1 .. Len(s) : a[i] = s[i]
      /\ a[Len(s) + 1] = b
    OBVIOUS
<1> HIDE DEF a
<1> SUFFICES ASSUME NEW k \in DOMAIN a, a[k] \notin Range(Legacy)
             PROVE  \E j \in 0 .. k - 1 : Follows(a[k], Tip(SubSeq(a, 1, j)))
    BY DEF FollowsPast, a
<1>2. CASE k \in 1 .. Len(s)
  <2>1. a[k] = s[k] /\ k \in DOMAIN s
    BY <1>1, <1>2
  <2>2. PICK j \in 0 .. k - 1 : Follows(s[k], Tip(SubSeq(s, 1, j)))
    BY <2>1 DEF FollowsPast
  <2>3. j \in 0 .. Len(s)
    BY <1>1, <1>2
  <2>4. SubSeq(a, 1, j) = SubSeq(s, 1, j)
    BY <2>3, BeginningStays DEF a
  <2> QED
    BY <2>1, <2>2, <2>4
<1>3. CASE k = Len(s) + 1
  <2>1. a[k] = b /\ Grounded(b, s)
    BY <1>1, <1>3
  <2>2. PICK j \in 0 .. Len(s) : Follows(b, Tip(SubSeq(s, 1, j)))
    BY <2>1 DEF Grounded
  <2>3. SubSeq(a, 1, j) = SubSeq(s, 1, j)
    BY BeginningStays DEF a
  <2>4. j \in 0 .. k - 1
    BY <1>1, <1>3
  <2> QED
    BY <2>1, <2>2, <2>3, <2>4
<1> QED
    BY <1>1, <1>2, <1>3

\* A book gains at most one line, grounded or of the legacy book.
Lengthened(book, longer, b) ==
    \/ longer = book
    \/ longer = Append(book, b) /\ (b \in Range(Legacy) \/ Grounded(b, book))

LEMMA BookGrows ==
    ASSUME NEW s \in Seq(Block), NEW a, NEW b \in Block, Lengthened(s, a, b)
    PROVE  /\ FollowsPast(s) => FollowsPast(a)
           /\ \A c : Grounded(c, s) => Grounded(c, a)
    BY AppendFollows, GroundedStays DEF Lengthened

\* A step keeps the invariant when the books grow by grounded lines and the
\* thread it moves is placed, or serves no append or import.
LEMMA LinksKept ==
    ASSUME TypeOK, LinksInv, NEW b \in Block,
           Lengthened(public, public', b), Lengthened(private, private', b),
           \A c \in certified' : c.public,
           \A t \in Thread : \/ call'[t] = call[t]
                             \/ call'[t] \notin Step
                             \/ Placed(call'[t], public, private)
    PROVE  LinksInv'
<1>1. public \in Seq(Block) /\ private \in Seq(Block)
    BY DEF TypeOK
<1>2. /\ FollowsPast(public') /\ FollowsPast(private')
      /\ \A c : Grounded(c, public) => Grounded(c, public')
      /\ \A c : Grounded(c, private) => Grounded(c, private')
    BY <1>1, BookGrows DEF LinksInv, LinesExtendLines
<1>3. ASSUME NEW t \in Thread, call'[t] \in Step
      PROVE  Placed(call'[t], public', private')
  <2>1. Placed(call'[t], public, private)
    BY <1>3 DEF LinksInv
  <2>2. CASE call'[t].block.public
    BY <1>2, <2>1, <2>2 DEF Placed
  <2>3. CASE ~call'[t].block.public
    BY <1>2, <2>1, <2>3 DEF Placed
  <2> QED
    BY <2>2, <2>3
<1>4. LinesExtendLines'
  <2> DEFINE past(book) == FollowsPast(book)
  <2>1. past(public)' /\ past(private)'
    BY <1>2 DEF FollowsPast, Follows, Tip
  <2> QED
    BY <2>1 DEF LinesExtendLines, FollowsPast, Follows, Tip
<1>5. \A t \in Thread : (call[t] \in Step => Placed(call[t], public, private))'
    BY <1>3 DEF Placed, Grounded, Follows, Tip
<1> QED
    BY <1>4, <1>5 DEF LinksInv

LEMMA InitLinks == LedgerInit => LinksInv
<1> SUFFICES ASSUME LedgerInit PROVE LinksInv
    OBVIOUS
<1>1. DOMAIN public = {} /\ DOMAIN private = {}
    BY DEF LedgerInit
<1>2. \A t \in Thread : call[t] \notin Step
    BY LedgerAssumption DEF LedgerInit
<1> QED
    BY <1>1, <1>2 DEF LedgerInit, LinksInv, LinesExtendLines, FollowsPast

\* A thread that goes on with its block keeps it placed, once it is tested.
LEMMA GoesOn ==
    ASSUME TypeOK, LinksInv, NEW t \in Thread, NEW pc \in Pc, Goto(t, pc),
           call[t] \in Step,
           pc \in {"test", "finalize"} => call[t].block.public,
           pc # "test" =>
               \/ call[t].pc # "test"
               \/ call[t].block.public /\ Follows(call[t].block, Tip(public))
    PROVE  \A u \in Thread : call'[u] = call[u] \/ Placed(call'[u], public, private)
<1>1. \A u \in Thread : u # t => call'[u] = call[u]
    BY DEF Goto, TypeOK
<1>2. call'[t].block = call[t].block /\ call'[t].pc = pc
    BY DEF Goto, TypeOK, Step
<1>3. public \in Seq(Block)
    BY DEF TypeOK
<1>4. Placed(call'[t], public, private)
    BY <1>2, <1>3, TipGrounded DEF LinksInv, Placed
<1> QED
    BY <1>1, <1>4

\* A thread that ends its call moves no block.
LEMMA GoesHome ==
    ASSUME TypeOK, NEW t \in Thread, Return(t)
    PROVE  \A u \in Thread : call'[u] = call[u] \/ call'[u] \notin Step
    BY LedgerAssumption DEF Return, TypeOK

LEMMA NextLinks ==
    ASSUME TypeOK, LinksInv, [LedgerNext]_ledgerVars
    PROVE  LinksInv'
<1> USE DEF books, opening, registry, network
<1> DEFINE anyBlock == [index |-> 0, hash |-> 0, prev |-> 0, public |-> TRUE,
                        reward |-> 0, work |-> NoWork]
<1>0. /\ anyBlock \in Block
      /\ \A c \in certified : c.public
      /\ Lengthened(public, public, anyBlock) /\ Lengthened(private, private, anyBlock)
    BY DEF Block, LinksInv, Lengthened
<1> HIDE DEF anyBlock
<1>1. CASE OpenBooks \/ StartCopying \/ FinishCopying \/ UNCHANGED ledgerVars
    BY <1>0, <1>1, LinksKept
       DEF OpenBooks, StartCopying, FinishCopying, ledgerVars
<1>2. CASE CopyLine
  <2> DEFINE b == Legacy[copied + 1]
  <2>1. copied + 1 \in 1 .. Len(Legacy)
    BY <1>2, LedgerAssumption DEF CopyLine, TypeOK, LedgerAssumption
  <2>2. b \in Block /\ b \in Range(Legacy)
    BY <2>1, LegacyLine, LedgerAssumption DEF Range
  <2>3. Lengthened(public, public', b) /\ Lengthened(private, private', b)
    BY <1>2, <2>2 DEF CopyLine, Lengthened
  <2> QED
    BY <1>0, <1>2, <2>2, <2>3, LinksKept DEF CopyLine
<1>3. ASSUME Crash \/ \E t \in Thread : CutRegistry(t)
      PROVE  LinksInv'
  <2>1. \A t \in Thread : call'[t] \notin Step
    BY <1>3, LedgerAssumption DEF Crash, CutRegistry
  <2>2. public' = public /\ private' = private /\ certified' = certified
    BY <1>3 DEF Crash, CutRegistry
  <2> QED
    BY <1>0, <2>1, <2>2, LinksKept
<1>4. CASE NetworkCertifies
  <2>1. PICK p \in Known : NetworkCertifies!3!(p)
    BY <1>4 DEF NetworkCertifies
  <2>2. \A c \in certified' : c.public
    BY <1>0, <2>1
  <2> QED
    BY <1>0, <1>4, <2>2, LinksKept DEF NetworkCertifies
<1>5. ASSUME NEW t \in Thread, NEW vis \in BOOLEAN, NEW dry \in BOOLEAN,
             NEW w \in Work \cup {NoWork}, BeginAppend(t, vis, w, dry)
      PROVE  LinksInv'
  <2> DEFINE book == IF vis THEN public ELSE private
  <2>1. book \in Seq(Block)
    BY DEF TypeOK
  <2>2. /\ call'[t].pc = "check" /\ call'[t].block.public = vis
        /\ call'[t].block.index = Tip(book).index + 1
        /\ call'[t].block.prev = Tip(book).hash
    BY <1>5 DEF BeginAppend, TypeOK
  <2>3. Grounded(call'[t].block, book)
    BY <2>1, <2>2, TipGrounded DEF Follows
  <2>4. Placed(call'[t], public, private)
    BY <2>2, <2>3 DEF Placed
  <2>5. \A u \in Thread : u # t => call'[u] = call[u]
    BY <1>5 DEF BeginAppend, TypeOK
  <2> QED
    BY <1>0, <1>5, <2>4, <2>5, LinksKept DEF BeginAppend
<1>6. ASSUME NEW t \in Thread,
             CheckWork(t) \/ ReadWork(t) \/ SaveWork(t) \/ FinalizeFails(t)
                 \/ FinalizeCertifies(t) \/ TestImport(t)
      PROVE  LinksInv'
  <2>1. call[t] \in Step /\ call[t].block \in Block
    BY <1>6, Serving DEF CheckWork, ReadWork, SaveWork, FinalizeFails,
                FinalizeCertifies, TestImport, Pc
  <2>2. public' = public /\ private' = private
    BY <1>6 DEF CheckWork, ReadWork, SaveWork, FinalizeFails, FinalizeCertifies,
                TestImport
  <2>3. \A c \in certified' : c.public
    <3>1. CASE FinalizeCertifies(t)
      <4>1. call[t].block.public
        BY <2>1, <3>1 DEF FinalizeCertifies, At, LinksInv, Placed
      <4> QED
        BY <1>0, <3>1, <4>1 DEF FinalizeCertifies
    <3> QED
      BY <1>0, <1>6, <3>1 DEF CheckWork, ReadWork, SaveWork, FinalizeFails, TestImport
  <2>4. \A u \in Thread : \/ call'[u] = call[u]
                          \/ call'[u] \notin Step
                          \/ Placed(call'[u], public, private)
    <3>1. CASE Return(t)
      BY <3>1, GoesHome
    <3>2. CASE CheckWork(t) /\ Goto(t, "read")
      BY <2>1, <3>2, GoesOn DEF CheckWork, At, Pc
    <3>3. CASE ReadWork(t) /\ Goto(t, "load")
      BY <2>1, <3>3, GoesOn DEF ReadWork, At, Pc
    <3>4. CASE SaveWork(t) /\ ~Return(t)
      <4>1. PICK pc \in {"finalize", "write"} :
                Goto(t, pc) /\ (pc = "finalize" => call[t].block.public)
        BY <3>4 DEF SaveWork, AfterSettling
      <4> QED
        BY <2>1, <3>4, <4>1, GoesOn DEF SaveWork, At, Pc
    <3>5. CASE FinalizeCertifies(t) /\ Goto(t, "test")
      <4>1. call[t].block.public
        BY <2>1, <3>5 DEF FinalizeCertifies, At, LinksInv, Placed
      <4> QED
        BY <2>1, <3>5, <4>1, GoesOn DEF Pc
    <3>6. CASE TestImport(t) /\ Goto(t, "write") /\ MayImport(call[t].block)
      <4>1. call[t].block.public /\ Follows(call[t].block, Tip(public))
        BY <2>1, <3>6 DEF TestImport, At, LinksInv, Placed, MayImport
      <4> QED
        BY <2>1, <3>6, <4>1, GoesOn DEF Pc
    <3> QED
      BY <1>6, <3>1, <3>2, <3>3, <3>4, <3>5, <3>6
         DEF CheckWork, ReadWork, SaveWork, FinalizeFails, FinalizeCertifies, TestImport
  <2> QED
    BY <1>0, <2>2, <2>3, <2>4, LinksKept
<1>7. ASSUME NEW t \in Thread, LoadRows(t)
      PROVE  LinksInv'
  <2>1. call[t] \in Step /\ call[t].pc = "load"
    BY <1>7, Serving DEF LoadRows, Pc
  <2>2. /\ call'[t].pc = "save" /\ call'[t].block = call[t].block
        /\ \A u \in Thread : u # t => call'[u] = call[u]
    BY <1>7, <2>1 DEF LoadRows, TypeOK, Step
  <2>3. Placed(call'[t], public, private)
    BY <2>1, <2>2 DEF LinksInv, Placed
  <2> QED
    BY <1>0, <1>7, <2>2, <2>3, LinksKept DEF LoadRows
<1>8. ASSUME NEW t \in Thread, BeginRewrite(t)
      PROVE  LinksInv'
  <2>1. \A u \in Thread : u # t => call'[u] = call[u]
    BY <1>8 DEF BeginRewrite, TypeOK
  <2>2. call'[t].pc = "rewrite"
    BY <1>8 DEF BeginRewrite, TypeOK
  <2>3. call'[t] \notin Step
    BY <2>2 DEF Step, Pc
  <2> QED
    BY <1>0, <1>8, <2>1, <2>3, LinksKept DEF BeginRewrite
<1>9. ASSUME NEW t \in Thread, EndRewrite(t)
      PROVE  LinksInv'
    BY <1>0, <1>9, GoesHome, LinksKept DEF EndRewrite
<1>10. ASSUME NEW t \in Thread, NEW b \in PeerBlocks \cup certified,
              BeginCertified(t, b) \/ BeginSync(t, b)
       PROVE  LinksInv'
  <2>1. b.public
    BY <1>0, LedgerAssumption DEF LedgerAssumption
  <2>2. \A u \in Thread : u # t => call'[u] = call[u]
    BY <1>10 DEF BeginCertified, BeginSync, TypeOK
  <2>3. call'[t] = call[t] \/ (call'[t].pc = "test" /\ call'[t].block = b)
    BY <1>10 DEF BeginCertified, BeginSync, TypeOK
  <2>4. call'[t] = call[t] \/ Placed(call'[t], public, private)
    BY <2>1, <2>3 DEF Placed
  <2> QED
    BY <1>0, <1>10, <2>2, <2>4, LinksKept DEF BeginCertified, BeginSync
<1>11. ASSUME NEW t \in Thread, WriteBlock(t)
       PROVE  LinksInv'
  <2> DEFINE b == call[t].block
  <2>1. call[t] \in Step /\ b \in Block /\ call[t].pc = "write"
    BY <1>11, Serving DEF WriteBlock, Pc
  <2>2. Grounded(b, IF b.public THEN public ELSE private)
    BY <2>1 DEF LinksInv, Placed
  <2>3. Lengthened(public, public', b) /\ Lengthened(private, private', b)
    BY <1>11, <2>2 DEF WriteBlock, Lengthened
  <2>4. \A u \in Thread : call'[u] = call[u] \/ call'[u] \notin Step
    BY <1>11, GoesHome DEF WriteBlock
  <2>5. \A c \in certified' : c.public
    BY <1>0, <1>11 DEF WriteBlock
  <2> HIDE DEF b
  <2> QED
    BY <2>1, <2>3, <2>4, <2>5, LinksKept
<1> QED
    BY <1>1, <1>2, <1>3, <1>4, <1>5, <1>6, <1>7, <1>8, <1>9, <1>10, <1>11
       DEF LedgerNext, AppendStep, ImportStep

\* Threads that read the tip long before they write, imports and crashes may
\* fork a book, but never leave a line without its predecessor: every line
\* follows what was the tip when its block was built or tested (append_block,
\* import_extending_block).
THEOREM LinesExtend == LedgerSpec => []LinesExtendLines
<1>1. LedgerInit => TypeOK /\ LinksInv
    BY InitType, InitLinks
<1>2. TypeOK /\ LinksInv /\ [LedgerNext]_ledgerVars => (TypeOK /\ LinksInv)'
    BY NextType, NextLinks
<1>3. LinksInv => LinesExtendLines
    BY DEF LinksInv
<1> QED
    BY <1>1, <1>2, <1>3, PTL DEF LedgerSpec
=============================================================================
