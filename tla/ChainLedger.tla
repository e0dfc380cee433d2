---------------------------- MODULE ChainLedger -----------------------------
(***************************************************************************)
(* The books of one node: the split of the legacy book, local appends and  *)
(* imports (ChainManager in src/artcb/chain/manager.py, ensure_split_      *)
(* ledgers in src/artcb/chain/split_ledger.py).                            *)
(*                                                                         *)
(* Files survive a crash: the two books, the marker of the split, the      *)
(* WorkID registry and the certificates.  An append or import is a thread  *)
(* of the server, a step for each file or store it reads or writes; no     *)
(* lock is held between them.  A line is written whole.  The registry of   *)
(* WorkIDs is one file, rewritten whole from the rows read before.         *)
(*                                                                         *)
(* The split is on (the default of ARTCB_SPLIT_LEDGER), so nothing writes  *)
(* to the legacy book, which is therefore a constant here.  A hash is a    *)
(* number drawn once: two blocks constructed at different moments differ.  *)
(***************************************************************************)
EXTENDS Integers, FiniteSets, SequencesExt

CONSTANTS
    Thread,            \* threads of the server
    Work,              \* WorkIDs
    NoWork,            \* a block that pays no WorkID
    NoCall,            \* an idle thread
    Legacy,            \* the lines of the legacy book
    PeerBlocks,        \* public blocks without a certificate that peers serve
    Exclusive,         \* exclusive_public_from: first index to be certified
    Replica,           \* the node is an official replica
    PopulationReward,  \* R(H)*dt/T, in whole units
    MaxSupply,         \* the cap on what is ever issued
    Drawn,             \* hashes of the legacy and the peers' blocks: 1 .. Drawn
    MaxHash            \* bound on the hashes drawn

Genesis == 0  \* GENESIS_PREV_HASH

Block == [index: Nat, hash: Nat, prev: Nat, public: BOOLEAN, reward: Nat,
          work: Work \cup {NoWork}]

\* What a thread is doing: the next step of its append or import.
Pc   == {"check", "read", "load", "save", "finalize", "test", "write"}
Step == [pc: Pc, block: Block, dry: BOOLEAN, rows: SUBSET Work]

\* Another call that rewrites the registry: WorkRegistry.create, or transition
\* to another status, which keeps the count of settlements it read.
Rewriting == [pc: {"rewrite"}, rows: SUBSET Work]

ASSUME LedgerAssumption ==
    /\ Exclusive \in Nat /\ PopulationReward \in Nat /\ MaxSupply \in Nat
    /\ Drawn \in Nat /\ MaxHash \in Nat /\ Replica \in BOOLEAN
    /\ NoWork \notin Work
    /\ Legacy \in Seq(Block) /\ PeerBlocks \subseteq Block
    /\ \A b \in Range(Legacy) : b.work = NoWork /\ b.hash <= Drawn
    /\ \A b \in Range(Legacy) : b.public => b.index < Exclusive
    /\ \A b \in PeerBlocks : b.work = NoWork /\ b.hash <= Drawn /\ b.public
    /\ NoCall \notin Step \cup Rewriting

VARIABLES
    public,     \* chain/public/blocks.jsonl
    private,    \* chain/private/blocks.jsonl
    marker,     \* the marker file of the split exists
    phase,      \* "down", "copying" (the split runs) or "open"
    copied,     \* lines of the legacy book this run of the split has read
    settled,    \* WorkIDs the registry has as SETTLED
    torn,       \* a crash has cut the registry's file (history)
    crossed,    \* two calls were reading and rewriting it at once (history)
    certified,  \* blocks the replicas have certified
    installed,  \* those whose certificate this node has stored
    made,       \* hashes drawn
    call        \* call[t]: the append, import or rewrite thread t is serving

ledgerVars == <<public, private, marker, phase, copied, settled, torn,
                crossed, certified, installed, made, call>>
books    == <<public, private>>
opening  == <<marker, phase, copied>>
registry == <<settled, torn, crossed>>
network  == <<certified, installed>>

-----------------------------------------------------------------------------
\* _public_tip_fields, _private_tip_fields: index -1 for an empty book.
Tip(book) == IF book = << >> THEN [index |-> -1, hash |-> Genesis]
             ELSE [index |-> Last(book).index, hash |-> Last(book).hash]

Follows(b, tip) == b.index = tip.index + 1 /\ b.prev = tip.hash

\* _issued_so_far_satoshi sums the legacy book.
IssuedSoFar == FoldLeft(LAMBDA sum, b : sum + b.reward, 0, Legacy)

\* An induction over the book, which the provers cannot make.
ASSUME IssuedAssumption == IssuedSoFar \in Nat

\* issued_reward_satoshi: what the population earns, up to what is left.
BlockReward ==
    LET remaining == MaxSupply - IssuedSoFar
    IN  IF remaining <= 0 THEN 0
        ELSE IF PopulationReward < remaining THEN PopulationReward ELSE remaining

\* consensus_gate: the lines of the legacy book are linked, their indexes
\* without gap or duplicate.
GateOpen ==
    LET indexes == {Legacy[k].index : k \in DOMAIN Legacy}
    IN  /\ \A k \in 2 .. Len(Legacy) : Legacy[k].prev = Legacy[k - 1].hash
        /\ \A i, j \in indexes : i .. j \subseteq indexes
        /\ Cardinality(indexes) = Len(Legacy)

-----------------------------------------------------------------------------
(* Start, split and crash.                                                 *)

LedgerInit ==
    /\ public = << >> /\ private = << >>
    /\ marker = FALSE /\ phase = "down" /\ copied = 0
    /\ settled = {} /\ torn = FALSE /\ crossed = FALSE
    /\ certified = {} /\ installed = {}
    /\ made = Drawn
    /\ call = [t \in Thread |-> NoCall]

\* ensure_split_ledgers when there is nothing to copy: the marker is there,
\* or the legacy book is empty, or the public book is not.
OpenBooks ==
    /\ phase = "down"
    /\ marker \/ Legacy = << >> \/ public # << >>
    /\ marker' = TRUE
    /\ phase' = "open"
    /\ UNCHANGED <<books, copied, registry, network, made, call>>

StartCopying ==
    /\ phase = "down"
    /\ ~marker /\ Legacy # << >> /\ public = << >>
    /\ phase' = "copying"
    /\ copied' = 0
    /\ UNCHANGED <<books, marker, registry, network, made, call>>

\* A hash this run has already copied to the book is skipped.
Seen(b) == \E k \in 1 .. copied : /\ Legacy[k].hash = b.hash
                                  /\ Legacy[k].public = b.public

CopyLine ==
    /\ phase = "copying"
    /\ copied < Len(Legacy)
    /\ LET b == Legacy[copied + 1]
       IN  /\ public'  = IF b.public /\ ~Seen(b) THEN Append(public, b) ELSE public
           /\ private' = IF ~b.public /\ ~Seen(b) THEN Append(private, b) ELSE private
    /\ copied' = copied + 1
    /\ UNCHANGED <<marker, phase, registry, network, made, call>>

FinishCopying ==
    /\ phase = "copying"
    /\ copied = Len(Legacy)
    /\ marker' = TRUE
    /\ phase' = "open"
    /\ UNCHANGED <<books, copied, registry, network, made, call>>

\* The process ends; what its threads were doing is lost.
Crash ==
    /\ phase # "down"
    /\ phase' = "down"
    /\ call' = [t \in Thread |-> NoCall]
    /\ UNCHANGED <<books, marker, copied, registry, network, made>>

-----------------------------------------------------------------------------
(* append_block.                                                           *)

Idle(t)   == phase = "open" /\ call[t] = NoCall
At(t, pc) == call[t] # NoCall /\ call[t].pc = pc
Return(t) == call' = [call EXCEPT ![t] = NoCall]
Goto(t, pc) == call' = [call EXCEPT ![t].pc = pc]

\* The block is placed after the tip of its book, read now.
BeginAppend(t, vis, w, dry) ==
    /\ Idle(t)
    /\ made < MaxHash
    /\ made' = made + 1
    /\ LET tip == Tip(IF vis THEN public ELSE private)
       IN  call' = [call EXCEPT ![t] =
               [pc |-> "check", dry |-> dry, rows |-> {},
                block |-> [index |-> tip.index + 1, hash |-> made + 1,
                           prev |-> tip.hash, public |-> vis,
                           reward |-> BlockReward, work |-> w]]]
    /\ UNCHANGED <<books, opening, registry, network>>

Settleable(t) == call[t].block.work \notin settled

\* Where an append goes once its WorkID is settled.
AfterSettling(t) ==
    IF call[t].dry THEN Return(t)
    ELSE Goto(t, IF call[t].block.public /\ Replica THEN "finalize" ELSE "write")

\* _assert_workids_unsettleable.
CheckWork(t) ==
    /\ At(t, "check")
    /\ IF Settleable(t) THEN Goto(t, "read") ELSE Return(t)
    /\ UNCHANGED <<books, opening, registry, network, made>>

\* Between reading the registry and rewriting it.
Busy(t) == At(t, "load") \/ At(t, "save") \/ At(t, "rewrite")

Enters(t) == crossed' = (crossed \/ \E u \in Thread \ {t} : Busy(u))

\* _mark_workids_settled: WorkRegistry.transition reads the record, ...
ReadWork(t) ==
    /\ At(t, "read")
    /\ IF Settleable(t) THEN Goto(t, "load") ELSE Return(t)
    /\ Enters(t)
    /\ UNCHANGED <<books, opening, settled, torn, network, made>>

\* ... _save reads all rows again ...
LoadRows(t) ==
    /\ At(t, "load")
    /\ call' = [call EXCEPT ![t].pc = "save", ![t].rows = settled]
    /\ UNCHANGED <<books, opening, registry, network, made>>

\* Seeded fault: a public work is left to be settled after finalization.
SaveWorkLater(t) ==
    /\ At(t, "save")
    /\ settled' = IF call[t].block.public THEN call[t].rows
                  ELSE call[t].rows \cup ({call[t].block.work} \ {NoWork})
    /\ AfterSettling(t)
    /\ UNCHANGED <<books, opening, torn, crossed, network, made>>

\* ... and writes them back with the work settled, before the block is
\* finalized or written, and on a dry run too.
SaveWork(t) ==
    /\ At(t, "save")
    /\ settled' = call[t].rows \cup ({call[t].block.work} \ {NoWork})
    /\ AfterSettling(t)
    /\ UNCHANGED <<books, opening, torn, crossed, network, made>>

\* Mining creates WorkIDs and moves them between other states.
BeginRewrite(t) ==
    /\ Idle(t)
    /\ call' = [call EXCEPT ![t] = [pc |-> "rewrite", rows |-> settled]]
    /\ Enters(t)
    /\ UNCHANGED <<books, opening, settled, torn, network, made>>

EndRewrite(t) ==
    /\ At(t, "rewrite")
    /\ settled' = call[t].rows
    /\ Return(t)
    /\ UNCHANGED <<books, opening, torn, crossed, network, made>>

\* The process ends between the truncation of the registry's file and its
\* rewriting: _read answers the unreadable file with an empty registry.
CutRegistry(t) ==
    /\ At(t, "save") \/ At(t, "rewrite")
    /\ settled' = {}
    /\ torn' = TRUE
    /\ phase' = "down"
    /\ call' = [u \in Thread |-> NoCall]
    /\ UNCHANGED <<books, marker, copied, crossed, network, made>>

\* Seeded fault: a block that is not finalized is written all the same.
WriteUnfinalized(t) ==
    /\ At(t, "finalize")
    /\ Goto(t, "write")
    /\ UNCHANGED <<books, opening, registry, network, made>>

\* The pbft_finalize hook is missing, or gives no certificate.
FinalizeFails(t) ==
    /\ At(t, "finalize")
    /\ Return(t)
    /\ UNCHANGED <<books, opening, registry, network, made>>

\* The replicas certify at most one block of an index.
Undecided(b) == \A c \in certified : c.index # b.index

\* Seeded fault: a certificate is stored that the replicas did not give.
InstallOwn(t) ==
    /\ At(t, "finalize")
    /\ installed' = installed \cup {call[t].block}
    /\ IF GateOpen THEN Goto(t, "test") ELSE Return(t)
    /\ UNCHANGED <<books, opening, registry, certified, made>>

\* The hook has the block certified, stores the certificate and calls
\* write_certified_block.
FinalizeCertifies(t) ==
    /\ At(t, "finalize")
    /\ Undecided(call[t].block)
    /\ certified' = certified \cup {call[t].block}
    /\ installed' = installed \cup {call[t].block}
    /\ IF GateOpen THEN Goto(t, "test") ELSE Return(t)
    /\ UNCHANGED <<books, opening, registry, made>>

-----------------------------------------------------------------------------
(* import_extending_block.                                                 *)

\* Public blocks the network can extend.
Known == Range(public) \cup certified \cup PeerBlocks
             \cup {b \in Range(Legacy) : b.public}

\* Other replicas certify a block of theirs.
NetworkCertifies ==
    /\ made < MaxHash
    /\ made' = made + 1
    /\ \E p \in Known :
           LET b == [index |-> p.index + 1, hash |-> made + 1, prev |-> p.hash,
                     public |-> TRUE, reward |-> BlockReward, work |-> NoWork]
           IN  Undecided(b) /\ certified' = certified \cup {b}
    /\ UNCHANGED <<books, opening, registry, installed, call>>

\* POST /pbft/certificate: install the certificate, write_certified_block.
BeginCertified(t, b) ==
    /\ Idle(t)
    /\ b \in certified
    /\ installed' = installed \cup {b}
    /\ call' = IF GateOpen
               THEN [call EXCEPT ![t] =
                        [pc |-> "test", block |-> b, dry |-> FALSE, rows |-> {}]]
               ELSE call
    /\ UNCHANGED <<books, opening, registry, certified, made>>

\* A peer's block, with its certificate if it has one.
BeginSync(t, b) ==
    /\ Idle(t)
    /\ b \in PeerBlocks \cup certified
    /\ call' = [call EXCEPT ![t] = [pc |-> "test", block |-> b, dry |-> FALSE, rows |-> {}]]
    /\ UNCHANGED <<books, opening, registry, network, made>>

\* Seeded fault: the index is compared with the tip, prev_hash is not.
MayImportByIndex(b) ==
    /\ \A c \in installed : c.index = b.index => c = b
    /\ b.index >= Exclusive => b \in certified
    /\ \A k \in DOMAIN public : public[k].index # b.index
    /\ b.index = Tip(public).index + 1

MayImport(b) ==
    /\ \A c \in installed : c.index = b.index => c = b    \* pbft_finalized_conflict
    /\ b.index >= Exclusive => b \in certified            \* pbft_cert_required
    /\ \A k \in DOMAIN public : public[k].index # b.index  \* equivocation, duplicate
    /\ Follows(b, Tip(public))

TestImport(t) ==
    /\ At(t, "test")
    /\ IF MayImport(call[t].block) THEN Goto(t, "write") ELSE Return(t)
    /\ UNCHANGED <<books, opening, registry, network, made>>

\* _append_line_to_book, for an append and an import alike.
WriteBlock(t) ==
    /\ At(t, "write")
    /\ LET b == call[t].block
       IN  /\ public'  = IF b.public THEN Append(public, b) ELSE public
           /\ private' = IF b.public THEN private ELSE Append(private, b)
    /\ Return(t)
    /\ UNCHANGED <<opening, registry, network, made>>

AppendStep(t) ==
    \/ \E vis, dry \in BOOLEAN, w \in Work \cup {NoWork} : BeginAppend(t, vis, w, dry)
    \/ CheckWork(t)
    \/ ReadWork(t)
    \/ LoadRows(t)
    \/ SaveWork(t)
    \/ BeginRewrite(t)
    \/ EndRewrite(t)
    \/ CutRegistry(t)
    \/ FinalizeFails(t)
    \/ FinalizeCertifies(t)

ImportStep(t) ==
    \/ \E b \in certified : BeginCertified(t, b)
    \/ \E b \in PeerBlocks \cup certified : BeginSync(t, b)
    \/ TestImport(t)

LedgerNext ==
    \/ OpenBooks
    \/ StartCopying
    \/ CopyLine
    \/ FinishCopying
    \/ Crash
    \/ NetworkCertifies
    \/ \E t \in Thread : AppendStep(t) \/ ImportStep(t) \/ WriteBlock(t)

LedgerSpec == LedgerInit /\ [][LedgerNext]_ledgerVars

-----------------------------------------------------------------------------
(* Properties.                                                             *)

TypeOK ==
    /\ public \in Seq(Block) /\ private \in Seq(Block)
    /\ marker \in BOOLEAN /\ phase \in {"down", "copying", "open"}
    /\ copied \in 0 .. Len(Legacy)
    /\ settled \subseteq Work /\ torn \in BOOLEAN /\ crossed \in BOOLEAN
    /\ installed \subseteq certified /\ certified \subseteq Block
    /\ made \in Nat
    /\ call \in [Thread -> Step \cup Rewriting \cup {NoCall}]

Lines == Range(public) \cup Range(private)

\* Each line of a book but the legacy ones follows the book as it once was, to
\* its whole length or to an earlier line: a tip read long before the line is
\* written was a tip, whatever threads and crashes came between.  Two threads may
\* fork a book; no line is ever left without its predecessor.
FollowsPast(book) ==
    \A k \in DOMAIN book :
        \/ book[k] \in Range(Legacy)
        \/ \E j \in 0 .. k - 1 : Follows(book[k], Tip(SubSeq(book, 1, j)))

LinesExtendLines == FollowsPast(public) /\ FollowsPast(private)

\* From the first exclusive index on, every line of the public book is the
\* block the replicas certified at that index.
ExclusiveRangeCertified ==
    \A b \in Range(public) : b.index >= Exclusive => b \in certified

\* No two blocks pay one WorkID as long as no crash cuts the registry's file:
\* the "unique settlement" of workid.py's first line, whatever calls overlap.
PaidAtMostOnce ==
    ~torn => \A b, c \in Lines : b.work = c.work /\ b.work # NoWork => b = c

\* What the code does ensure: no two blocks pay one WorkID, whatever appends
\* fail, run dry or are cut short by a crash, until a crash cuts the registry's
\* file or two calls read and rewrite it at once.
WorkPaidOnce == ~crossed => PaidAtMostOnce

\* Blocks that pay their WorkID or may still be written: the lines, the
\* certified blocks and those of the threads past the registry.
Paying ==
    Lines \cup certified
        \cup {call[t].block : t \in {u \in Thread :
                  At(u, "finalize") \/ At(u, "test") \/ At(u, "write")}}

\* A WorkID is settled before its block pays, and the thread about to settle
\* one knows it free, and has the rows of the file.
SettledFirst ==
    /\ \A b \in Paying : b.work # NoWork => b.work \in settled
    /\ \A b, c \in Paying : b.work = c.work /\ b.work # NoWork => b = c
    /\ \A t \in Thread : At(t, "load") \/ At(t, "save") => Settleable(t)
    /\ \A t \in Thread : At(t, "save") \/ At(t, "rewrite") => call[t].rows = settled
    /\ \A t, u \in Thread : Busy(t) /\ Busy(u) => t = u

\* The invariant behind WorkPaidOnce.
WorkInv == ~torn /\ ~crossed => SettledFirst

\* The invariant behind ExclusiveRangeCertified: a thread that is about to
\* write in the exclusive range holds a certified block.
RangeInv ==
    /\ ExclusiveRangeCertified
    /\ \A t \in Thread :
           /\ At(t, "write")
           /\ call[t].block.public
           /\ call[t].block.index >= Exclusive
           => call[t].block \in certified

\* What the books issue in all stays within the cap.
SupplyCapped ==
    MapThenSumSet(LAMBDA b : b.reward, Lines) <= MaxSupply
=============================================================================
