------------------------ MODULE PbftFinality_proofs -------------------------
(***************************************************************************)
(* Proofs about PbftFinality for every membership, block tree, set of      *)
(* faulty rows and choice of routes: the stores hold signed rows only, so  *)
(* the stores implement PbftVotes, and the rows behind a prepared slot     *)
(* stay in their table.  Then about PbftThreads: what the threads of a     *)
(* server may do between the tests of a PRE-PREPARE and its lock.          *)
(***************************************************************************)
EXTENDS PbftFinality, PbftThreads, PbftVotes_proofs

StoresInv ==
    /\ prepareMsgs \in [Replica -> SUBSET Vote]
    /\ commitMsgs \in [Replica -> SUBSET Vote]
    /\ StoresTypeOK

-----------------------------------------------------------------------------
(* What a table counts. *)

\* A row is what Row makes of its fields.
LEMMA VoteIsRow ==
    ASSUME NEW m \in Vote
    PROVE  /\ m = Row(m.kind, m.view, m.seq, m.digest, m.by)
           /\ m.view \in Views /\ m.seq \in Seqs /\ m.digest \in Block /\ m.by \in Replica
BY DEF Vote, Row

\* The signers counted for a digest have signed for it.
LEMMA CountedSigned ==
    ASSUME NEW k \in VoteKind, NEW held \in SUBSET Vote, NEW rows,
           \A m \in held : m.kind = k /\ m \in rows \cup FaultySends,
           NEW v, NEW s, NEW d
    PROVE  Matching(held, v, s, d) \subseteq VotersIn(rows, k, v, s, d)
BY VoteIsRow DEF Matching, VotersIn

\* A quorum counted is a quorum signed.
LEMMA QuorumSigned ==
    ASSUME NEW k \in VoteKind, NEW held \in SUBSET Vote, NEW rows,
           \A m \in held : m.kind = k /\ m \in rows \cup FaultySends,
           NEW v, NEW s, NEW d, Cardinality(Matching(held, v, s, d)) >= Q
    PROVE  Cardinality(VotersIn(rows, k, v, s, d)) >= Q
<1> DEFINE S == Matching(held, v, s, d)
           T == VotersIn(rows, k, v, s, d)
<1>1. S \subseteq T /\ T \in SUBSET Replica
    BY CountedSigned DEF VotersIn
<1>2. IsFiniteSet(T) /\ Cardinality(T) \in Nat
    BY <1>1, SubsetFinite
<1>3. Cardinality(S) <= Cardinality(T) /\ Cardinality(S) \in Nat
    BY <1>1, <1>2, FS_Subset, FS_CardinalityType
<1> QED
    BY <1>2, <1>3, QuorumIsInt

\* The table after a row went in.
LEMMA StoreKinds ==
    ASSUME NEW k \in VoteKind, NEW held \in SUBSET Vote, NEW rows, NEW more,
           \A m \in held : m.kind = k /\ m \in rows \cup FaultySends,
           rows \subseteq more, NEW n \in Vote, n.kind = k, n \in more \cup FaultySends
    PROVE  /\ Store(held, n) \in SUBSET Vote
           /\ \A m \in Store(held, n) : m.kind = k /\ m \in more \cup FaultySends
BY DEF Store

-----------------------------------------------------------------------------
(* The requests that store a row. *)

LEMMA StorePrepareStep ==
    ASSUME StoresInv, msgs \subseteq msgs', NEW r \in Replica, NEW m \in Vote,
           m.kind = "prepare", m \in msgs' \cup FaultySends, StorePrepare(r, m)
    PROVE  /\ StoresInv'
           /\ UNCHANGED prepared \/ BecomesPrepared(r, m.view, m.seq, m.digest)
<1> DEFINE held == Store(prepareMsgs[r], m)
<1>1. /\ prepareMsgs[r] \in SUBSET Vote
      /\ \A n \in prepareMsgs[r] : n.kind = "prepare" /\ n \in msgs \cup FaultySends
    BY DEF StoresInv, StoresTypeOK, Signed
<1>2. /\ held \in SUBSET Vote
      /\ \A n \in held : n.kind = "prepare" /\ n \in msgs' \cup FaultySends
    BY <1>1, StoreKinds DEF VoteKind
<1>3. /\ prepareMsgs' = [prepareMsgs EXCEPT ![r] = held] /\ commitMsgs' = commitMsgs
      /\ prepareMsgs'[r] = held
    BY DEF StorePrepare, StoresInv
<1> HIDE DEF held
<1>4. StoresInv'
  <2>1. prepareMsgs' \in [Replica -> SUBSET Vote]
      BY <1>2, <1>3 DEF StoresInv
  <2>2. ASSUME NEW q \in Replica
        PROVE  \A n \in prepareMsgs'[q] : n \in Vote /\ n.kind = "prepare" /\ Signed(n)'
      BY <1>2, <1>3 DEF StoresInv, StoresTypeOK, Signed
  <2>3. ASSUME NEW q \in Replica
        PROVE  \A n \in commitMsgs'[q] : n \in Vote /\ n.kind = "commit" /\ Signed(n)'
      BY <1>3 DEF StoresInv, StoresTypeOK, Signed
  <2> QED
      BY <1>3, <2>1, <2>2, <2>3 DEF StoresInv, StoresTypeOK
<1>5. CASE Cardinality(Matching(held, m.view, m.seq, m.digest)) >= Q
  <2>1. Cardinality(VotersIn(msgs', "prepare", m.view, m.seq, m.digest)) >= Q
      BY <1>2, <1>5, QuorumSigned DEF VoteKind
  <2> QED
      BY <1>3, <1>4, <1>5, <2>1 DEF StorePrepare, BecomesPrepared
<1>6. CASE ~(Cardinality(Matching(held, m.view, m.seq, m.digest)) >= Q)
    BY <1>3, <1>4, <1>6 DEF StorePrepare
<1> QED
    BY <1>5, <1>6

LEMMA StoreCommitStep ==
    ASSUME StoresInv, msgs \subseteq msgs', NEW r \in Replica, NEW m \in Vote,
           m.kind = "commit", m \in msgs' \cup FaultySends, StoreCommit(r, m)
    PROVE  /\ StoresInv'
           /\ UNCHANGED certificates \/ Certifies(r, m.view, m.seq, m.digest)
<1> DEFINE held == Store(commitMsgs[r], m)
<1>1. /\ commitMsgs[r] \in SUBSET Vote
      /\ \A n \in commitMsgs[r] : n.kind = "commit" /\ n \in msgs \cup FaultySends
    BY DEF StoresInv, StoresTypeOK, Signed
<1>2. /\ held \in SUBSET Vote
      /\ \A n \in held : n.kind = "commit" /\ n \in msgs' \cup FaultySends
    BY <1>1, StoreKinds DEF VoteKind
<1>3. /\ commitMsgs' = [commitMsgs EXCEPT ![r] = held] /\ prepareMsgs' = prepareMsgs
      /\ commitMsgs'[r] = held
    BY DEF StoreCommit, StoresInv
<1> HIDE DEF held
<1>4. StoresInv'
  <2>1. commitMsgs' \in [Replica -> SUBSET Vote]
      BY <1>2, <1>3 DEF StoresInv
  <2>2. ASSUME NEW q \in Replica
        PROVE  \A n \in commitMsgs'[q] : n \in Vote /\ n.kind = "commit" /\ Signed(n)'
      BY <1>2, <1>3 DEF StoresInv, StoresTypeOK, Signed
  <2>3. ASSUME NEW q \in Replica
        PROVE  \A n \in prepareMsgs'[q] : n \in Vote /\ n.kind = "prepare" /\ Signed(n)'
      BY <1>3 DEF StoresInv, StoresTypeOK, Signed
  <2> QED
      BY <1>3, <2>1, <2>2, <2>3 DEF StoresInv, StoresTypeOK
<1>5. CASE /\ Cardinality(Matching(held, m.view, m.seq, m.digest)) >= Q
           /\ FinalizedDigest(r, m.seq) \in {None, m.digest}
  <2>1. Cardinality(VotersIn(msgs', "commit", m.view, m.seq, m.digest)) >= Q
      BY <1>2, <1>5, QuorumSigned DEF VoteKind
  <2> QED
      BY <1>3, <1>4, <1>5, <2>1 DEF StoreCommit, Certifies
<1>6. CASE ~(/\ Cardinality(Matching(held, m.view, m.seq, m.digest)) >= Q
             /\ FinalizedDigest(r, m.seq) \in {None, m.digest})
    BY <1>3, <1>4, <1>6 DEF StoreCommit
<1> QED
    BY <1>5, <1>6

\* The rows of a slot that honest replicas lock, prepare and sign are votes.
LEMMA RowFields ==
    ASSUME NEW k \in VoteKind, NEW v \in Views, NEW s \in Seqs, NEW d \in Block,
           NEW r \in Replica
    PROVE  LET m == Row(k, v, s, d, r) IN
             m \in Vote /\ m.kind = k /\ m.view = v /\ m.seq = s /\ m.digest = d /\ m.by = r
BY DEF Row, Vote

-----------------------------------------------------------------------------
(* Every step is a step of PbftVotes, and keeps the stores signed. *)

LEMMA PrepareStep ==
    ASSUME TypeOK, StoresInv, NEW r \in Honest, NEW s \in Seqs,
           EmitPrepare(r, s) \/ \E from \in Replica : AcceptPrepare(r, s, from)
    PROVE  StoresInv' /\ (SignPrepare(r, s) \/ ReceivePrepare(r, s) \/ UNCHANGED votesVars)
<1> DEFINE v == view[r]
           d == accepted[r][<<v, s>>]
           m(from) == Row("prepare", v, s, d, from)
<1>1. r \in Replica /\ v \in Views /\ d \in Block \cup {None}
    BY DEF Honest, TypeOK, Slot
<1>2. d # None
    BY DEF EmitPrepare, AcceptPrepare
<1>3. ASSUME NEW from \in Replica
      PROVE  /\ m(from) \in Vote /\ m(from).kind = "prepare" /\ m(from).view = v
             /\ m(from).seq = s /\ m(from).digest = d
    BY <1>1, <1>2, <1>3, RowFields DEF VoteKind
<1>4. CASE EmitPrepare(r, s)
  <2>1. /\ StorePrepare(r, m(r)) /\ msgs' = msgs \cup {m(r)}
        /\ UNCHANGED <<view, accepted, certificates, mustRepropose, entering, tip>>
      BY <1>4 DEF EmitPrepare
  <2> HIDE DEF m, d, v
  <2>2. StoresInv' /\ (UNCHANGED prepared \/ BecomesPrepared(r, v, s, d))
      BY <1>1, <1>3, <2>1, StorePrepareStep
  <2> QED
      BY <1>2, <2>1, <2>2 DEF SignPrepare, m, d, v
<1>5. ASSUME NEW from \in Replica, AcceptPrepare(r, s, from)
      PROVE  StoresInv' /\ (ReceivePrepare(r, s) \/ UNCHANGED votesVars)
  <2>1. /\ StorePrepare(r, m(from)) /\ m(from) \in msgs' \cup FaultySends
        /\ UNCHANGED <<view, accepted, certificates, mustRepropose, entering, tip, msgs>>
      BY <1>5 DEF AcceptPrepare, Signed
  <2> HIDE DEF m, d, v
  <2>2. StoresInv' /\ (UNCHANGED prepared \/ BecomesPrepared(r, v, s, d))
      BY <1>1, <1>3, <2>1, StorePrepareStep
  <2> QED
      BY <1>2, <2>1, <2>2 DEF ReceivePrepare, votesVars, d, v
<1> QED
    BY <1>4, <1>5

LEMMA CommitStep ==
    ASSUME TypeOK, StoresInv, NEW r \in Honest, NEW s \in Seqs
    PROVE  /\ \A v \in Views : EmitCommit(r, v, s) => StoresInv' /\ SignCommit(r, v, s)
           /\ \A from \in Replica : AcceptCommit(r, s, from) =>
                  StoresInv' /\ (ReceiveCommit(r, s) \/ UNCHANGED votesVars)
<1>1. r \in Replica /\ view[r] \in Views
    BY DEF Honest, TypeOK
<1>2. ASSUME NEW v \in Views, NEW from \in Replica, prepared[r][<<v, s>>] # None
      PROVE  LET m == Row("commit", v, s, prepared[r][<<v, s>>], from) IN
                 /\ m \in Vote /\ m.kind = "commit" /\ m.view = v /\ m.seq = s
                 /\ m.digest = prepared[r][<<v, s>>]
  <2>1. prepared[r][<<v, s>>] \in Block
      BY <1>1, <1>2 DEF TypeOK, Slot
  <2> QED
      BY <2>1, RowFields DEF VoteKind
<1>3. ASSUME NEW v \in Views, EmitCommit(r, v, s)
      PROVE  StoresInv' /\ SignCommit(r, v, s)
  <2> DEFINE d == prepared[r][<<v, s>>]
             m == Row("commit", v, s, d, r)
  <2>1. /\ d # None /\ StoreCommit(r, m) /\ msgs' = msgs \cup {m}
        /\ UNCHANGED <<view, accepted, prepared, mustRepropose, entering, tip>>
      BY <1>3 DEF EmitCommit
  <2>2. m \in Vote /\ m.kind = "commit" /\ m.view = v /\ m.seq = s /\ m.digest = d
      BY <1>1, <1>2, <2>1
  <2> HIDE DEF m, d
  <2>3. StoresInv' /\ (UNCHANGED certificates \/ Certifies(r, v, s, d))
      BY <1>1, <2>1, <2>2, StoreCommitStep
  <2> QED
      BY <2>1, <2>3 DEF SignCommit, m, d
<1>4. ASSUME NEW from \in Replica, AcceptCommit(r, s, from)
      PROVE  StoresInv' /\ (ReceiveCommit(r, s) \/ UNCHANGED votesVars)
  <2> DEFINE v == view[r]
             d == prepared[r][<<v, s>>]
             m == Row("commit", v, s, d, from)
  <2>1. /\ d # None /\ StoreCommit(r, m) /\ m \in msgs' \cup FaultySends
        /\ UNCHANGED <<view, accepted, prepared, mustRepropose, entering, tip, msgs>>
      BY <1>4 DEF AcceptCommit, Signed
  <2>2. m \in Vote /\ m.kind = "commit" /\ m.view = v /\ m.seq = s /\ m.digest = d
      BY <1>1, <1>2, <2>1
  <2> HIDE DEF m, d, v
  <2>3. StoresInv' /\ (UNCHANGED certificates \/ Certifies(r, v, s, d))
      BY <1>1, <2>1, <2>2, StoreCommitStep
  <2> QED
      BY <2>1, <2>3 DEF ReceiveCommit, votesVars, d, v
<1> QED
    BY <1>3, <1>4

\* The requests that store no row, and signatures that are never taken back.
LEMMA OtherStep ==
    ASSUME StoresInv, NEW r \in Honest, OtherRequest(r), UNCHANGED stores
    PROVE  StoresInv' /\ Step(r)
<1>1. Step(r)
    BY DEF OtherRequest, Step
<1>2. msgs \subseteq msgs'
    BY DEF OtherRequest, EmitPrePrepare, AcceptPrePrepare, InstallCertificate,
           WriteCertifiedBlock, EnterView, Environment, EmitViewChange, EmitViewChange265,
           EmitNewView, InstallNewView, BindPrepared, Restart
<1> QED
    BY <1>1, <1>2 DEF StoresInv, StoresTypeOK, Signed, stores

LEMMA LoseStep ==
    ASSUME StoresInv, NEW r \in Honest, "truncate" \in Routes[r], LoseStores(r)
    PROVE  StoresInv' /\ Step(r)
<1>1. Step(r)
    BY DEF LoseStores, Step, Truncation
<1>2. msgs' = msgs /\ r \in Replica
    BY DEF LoseStores, RestartTruncated, Honest
<1> QED
    BY <1>1, <1>2 DEF LoseStores, StoresInv, StoresTypeOK, Signed

LEMMA ViewLostStep ==
    ASSUME StoresInv, NEW r \in Honest, "truncate" \in Routes[r], RestartViewLost(r),
           UNCHANGED stores
    PROVE  StoresInv' /\ Step(r)
<1>1. Step(r)
    BY DEF Step, Truncation
<1> QED
    BY <1>1 DEF RestartViewLost, StoresInv, StoresTypeOK, Signed, stores

LEMMA FinalityStep ==
    ASSUME TypeOK, StoresInv, NEW r \in Honest,
           \/ \E s \in Seqs : EmitPrepare(r, s)
           \/ \E s \in Seqs, from \in Replica : AcceptPrepare(r, s, from) \/ AcceptCommit(r, s, from)
           \/ \E v \in Views, s \in Seqs : EmitCommit(r, v, s)
           \/ OtherRequest(r) /\ UNCHANGED stores
           \/ "truncate" \in Routes[r] /\ LoseStores(r)
           \/ "truncate" \in Routes[r] /\ RestartViewLost(r) /\ UNCHANGED stores
    PROVE  StoresInv' /\ (Step(r) \/ UNCHANGED votesVars)
BY PrepareStep, CommitStep, OtherStep, LoseStep, ViewLostStep DEF Step

LEMMA FinalityMaps ==
    ASSUME TypeOK, StoresInv, [FinalityNext]_finalityVars
    PROVE  TypeOK' /\ StoresInv' /\ [VotesNext]_votesVars
<1>1. CASE FinalityNext
  <2>1. PICK r \in Honest : StoresInv' /\ (Step(r) \/ UNCHANGED votesVars)
      BY <1>1, FinalityStep DEF FinalityNext
  <2>2. [VotesNext]_votesVars
      BY <2>1 DEF Step, VotesNext
  <2>3. TypeOK'
      BY <2>1, TypeStep DEF votesVars, TypeOK
  <2> QED
      BY <2>1, <2>2, <2>3
<1>2. CASE UNCHANGED finalityVars
    BY <1>2 DEF finalityVars, stores, votesVars, TypeOK, StoresInv, StoresTypeOK, Signed
<1> QED
    BY <1>1, <1>2

LEMMA FinalityStart == FinalityInit => TypeOK /\ StoresInv
<1> SUFFICES ASSUME FinalityInit PROVE TypeOK /\ StoresInv
    OBVIOUS
<1>1. VotesInit
    BY DEF FinalityInit
<1> QED
    BY <1>1, TypeInit DEF FinalityInit, StoresInv, StoresTypeOK

\* Every row a replica stored was signed by the replica it names, and is of
\* the table's kind (verify_prepare, verify_commit in pbft_finality.py).
THEOREM StoresCorrect == FinalitySpec => []StoresTypeOK
<1>1. TypeOK /\ StoresInv /\ [FinalityNext]_finalityVars => (TypeOK /\ StoresInv)'
    BY FinalityMaps
<1>2. StoresInv => StoresTypeOK
    BY DEF StoresInv
<1> QED
    BY <1>1, <1>2, FinalityStart, PTL DEF FinalitySpec

\* Hiding the two tables, the finality stores do only what PbftVotes allows:
\* what a replica counts as a quorum is a quorum that was signed, whatever
\* rows are late, repeated or replaced (_store_prepare, _store_commit).
THEOREM StoresRefine == FinalitySpec => VotesSpec
<1>1. TypeOK /\ StoresInv /\ [FinalityNext]_finalityVars
          => (TypeOK /\ StoresInv)' /\ [VotesNext]_votesVars
    BY FinalityMaps
<1>2. FinalityInit => VotesInit
    BY DEF FinalityInit
<1> QED
    BY <1>1, <1>2, FinalityStart, PTL DEF FinalitySpec, VotesSpec

-----------------------------------------------------------------------------
(* The rows behind a prepared slot. *)

\* A prepared slot of the current view is still locked on its digest.
LockedFor(r) ==
    \A v \in Views, s \in Seqs :
        prepared[r][<<v, s>>] # None =>
            /\ v <= view[r]
            /\ v = view[r] => accepted[r][<<v, s>>] = prepared[r][<<v, s>>]

ProvenFor(r) ==
    \A v \in Views, s \in Seqs :
        prepared[r][<<v, s>>] # None =>
            Cardinality(Matching(prepareMsgs[r], v, s, prepared[r][<<v, s>>])) >= Q

ProvenInv == \A r \in Honest \ Amnesic : LockedFor(r) /\ ProvenFor(r)

\* A request of one replica leaves what the others hold.
LEMMA OthersKeep ==
    ASSUME ProvenInv, NEW r \in Honest,
           \A q \in Replica \ {r} : /\ prepared'[q] = prepared[q] /\ view'[q] = view[q]
                                    /\ accepted'[q] = accepted[q]
                                    /\ prepareMsgs'[q] = prepareMsgs[q],
           r \notin Amnesic => (LockedFor(r) /\ ProvenFor(r))'
    PROVE  ProvenInv'
<1> SUFFICES ASSUME NEW q \in Honest \ Amnesic PROVE (LockedFor(q) /\ ProvenFor(q))'
    BY DEF ProvenInv
<1>1. CASE q = r
    BY <1>1
<1>2. CASE q # r
  <2>1. q \in Replica \ {r} /\ LockedFor(q) /\ ProvenFor(q)
      BY <1>2 DEF ProvenInv, Honest
  <2> QED
      BY <2>1 DEF LockedFor, ProvenFor
<1> QED
    BY <1>1, <1>2

\* A row that goes into the table takes no vote for its own digest away, and
\* none of another slot.
LEMMA StoreKeepsVotes ==
    ASSUME NEW held \in SUBSET Vote, NEW m \in Vote, NEW v, NEW s, NEW d,
           m.view = v /\ m.seq = s => m.digest = d
    PROVE  Matching(held, v, s, d) \subseteq Matching(Store(held, m), v, s, d)
<1> SUFFICES ASSUME NEW n \in held, n.view = v, n.seq = s, n.digest = d
             PROVE  n.by \in Matching(Store(held, m), v, s, d)
    BY DEF Matching
<1>1. CASE n \in Store(held, m)
    BY <1>1 DEF Matching
<1>2. CASE n \notin Store(held, m)
  <2>1. m.view = v /\ m.seq = s /\ m.by = n.by /\ m \in Store(held, m)
      BY <1>2 DEF Store
  <2> QED
      BY <2>1 DEF Matching
<1> QED
    BY <1>1, <1>2

LEMMA QuorumStays ==
    ASSUME NEW held \in SUBSET Vote, NEW m \in Vote, NEW v, NEW s, NEW d,
           m.view = v /\ m.seq = s => m.digest = d,
           Cardinality(Matching(held, v, s, d)) >= Q
    PROVE  Cardinality(Matching(Store(held, m), v, s, d)) >= Q
<1> DEFINE S == Matching(held, v, s, d)
           T == Matching(Store(held, m), v, s, d)
<1>1. Store(held, m) \in SUBSET Vote
    BY DEF Store
<1>2. S \subseteq T /\ T \in SUBSET Replica
  <2>1. S \subseteq T
      BY StoreKeepsVotes
  <2>2. T \in SUBSET Replica
      BY <1>1, VoteIsRow DEF Matching
  <2> QED
      BY <2>1, <2>2
<1>3. IsFiniteSet(T) /\ Cardinality(T) \in Nat
    BY <1>2, SubsetFinite
<1>4. Cardinality(S) <= Cardinality(T) /\ Cardinality(S) \in Nat
    BY <1>2, <1>3, FS_Subset, FS_CardinalityType
<1> QED
    BY <1>3, <1>4, QuorumIsInt

\* A PREPARE row for the lock of the current slot goes in.
LEMMA ProvenPrepare ==
    ASSUME TypeOK, StoresInv, ProvenInv, NEW r \in Honest, NEW s \in Seqs, NEW from \in Replica,
           accepted[r][<<view[r], s>>] # None,
           StorePrepare(r, Row("prepare", view[r], s, accepted[r][<<view[r], s>>], from)),
           UNCHANGED <<view, accepted>>
    PROVE  ProvenInv'
<1> DEFINE d == accepted[r][<<view[r], s>>]
           m == Row("prepare", view[r], s, d, from)
           held == Store(prepareMsgs[r], m)
<1>1. r \in Replica /\ view[r] \in Views /\ d \in Block
    BY DEF Honest, TypeOK, Slot
<1>2. m \in Vote /\ m.view = view[r] /\ m.seq = s /\ m.digest = d
    BY <1>1, RowFields DEF VoteKind
<1>3. StorePrepare(r, m)
    OBVIOUS
<1>4. prepareMsgs[r] \in SUBSET Vote /\ <<view[r], s>> \in Slot
    BY <1>1 DEF StoresInv, Slot
<1> HIDE DEF m
<1>5. prepareMsgs' = [prepareMsgs EXCEPT ![r] = held] /\ prepareMsgs'[r] = held
    BY <1>1, <1>3 DEF StorePrepare, StoresInv
<1>6. \/ prepared' = prepared
      \/ /\ prepared' = [prepared EXCEPT ![r][<<view[r], s>>] = d]
         /\ Cardinality(Matching(held, view[r], s, d)) >= Q
    BY <1>2, <1>3, <1>5 DEF StorePrepare
<1>7. \A q \in Replica \ {r} : prepared'[q] = prepared[q] /\ prepareMsgs'[q] = prepareMsgs[q]
    BY <1>5, <1>6 DEF TypeOK, StoresInv
<1>8. ASSUME r \notin Amnesic PROVE LockedFor(r)' /\ ProvenFor(r)'
  <2>1. LockedFor(r) /\ ProvenFor(r)
      BY <1>8 DEF ProvenInv
  <2> SUFFICES ASSUME NEW v \in Views, NEW t \in Seqs, prepared'[r][<<v, t>>] # None
               PROVE  /\ v <= view[r]
                      /\ v = view[r] => accepted[r][<<v, t>>] = prepared'[r][<<v, t>>]
                      /\ Cardinality(Matching(held, v, t, prepared'[r][<<v, t>>])) >= Q
      BY <1>5 DEF LockedFor, ProvenFor
  <2>2. <<v, t>> \in Slot
      BY DEF Slot
  <2>3. CASE prepared'[r][<<v, t>>] = prepared[r][<<v, t>>]
    <3>1. /\ v <= view[r]
          /\ v = view[r] => accepted[r][<<v, t>>] = prepared[r][<<v, t>>]
          /\ Cardinality(Matching(prepareMsgs[r], v, t, prepared[r][<<v, t>>])) >= Q
        BY <2>1, <2>3 DEF LockedFor, ProvenFor
    <3>2. m.view = v /\ m.seq = t => m.digest = prepared[r][<<v, t>>]
        BY <1>2, <3>1
    <3> QED
        BY <1>2, <1>4, <2>3, <3>1, <3>2, QuorumStays
  <2>4. CASE prepared'[r][<<v, t>>] # prepared[r][<<v, t>>]
    <3>1. prepared' = [prepared EXCEPT ![r][<<view[r], s>>] = d]
        BY <1>6, <2>4
    <3>2. v = view[r] /\ t = s /\ prepared'[r][<<v, t>>] = d
        BY <1>1, <1>4, <2>2, <2>4, <3>1 DEF TypeOK
    <3>3. view[r] <= view[r]
        BY <1>1, MembershipAssumption DEF Views
    <3> QED
        BY <1>6, <2>4, <3>2, <3>3
  <2> QED
      BY <2>3, <2>4
<1> QED
    BY <1>7, <1>8, OthersKeep

\* A replica locks a block where it was unlocked, or locked on the same one.
LEMMA ProvenLock ==
    ASSUME TypeOK, ProvenInv, NEW r \in Honest, NEW b \in Block,
           EmitPrePrepare(r, b) \/ AcceptPrePrepare(r, b), UNCHANGED stores
    PROVE  ProvenInv'
<1> DEFINE x == <<view[r], Index[b]>>
<1>1. /\ accepted' = [accepted EXCEPT ![r][x] = b] /\ accepted[r][x] \in {None, b}
      /\ UNCHANGED <<view, prepared, prepareMsgs>>
    BY DEF EmitPrePrepare, AcceptPrePrepare, Accept, MayAccept, stores
<1>2. r \in Replica
    BY DEF Honest
<1>3. /\ \A q \in Replica \ {r} : accepted'[q] = accepted[q]
      /\ \A y \in Slot : y # x => accepted'[r][y] = accepted[r][y]
      /\ x \in Slot => accepted'[r][x] = b
    BY <1>1, <1>2 DEF TypeOK
<1> HIDE DEF x
<1>4. ASSUME r \notin Amnesic PROVE LockedFor(r)' /\ ProvenFor(r)'
  <2>1. LockedFor(r) /\ ProvenFor(r)
      BY <1>4 DEF ProvenInv
  <2>2. ProvenFor(r)'
      BY <1>1, <2>1 DEF ProvenFor
  <2>3. ASSUME NEW v \in Views, NEW s \in Seqs, prepared[r][<<v, s>>] # None
        PROVE  /\ v <= view[r]
               /\ v = view[r] => accepted'[r][<<v, s>>] = prepared[r][<<v, s>>]
    <3>1. <<v, s>> \in Slot
        BY DEF Slot
    <3>2. /\ v <= view[r]
          /\ v = view[r] => accepted[r][<<v, s>>] = prepared[r][<<v, s>>]
        BY <2>1, <2>3 DEF LockedFor
    <3> QED
        BY <1>1, <1>3, <2>3, <3>1, <3>2
  <2> QED
      BY <1>1, <2>2, <2>3 DEF LockedFor
<1> QED
    BY <1>1, <1>3, <1>4, OthersKeep

\* enter_view erases locks of views below it only, which were installed.
LEMMA ProvenEnter ==
    ASSUME TypeOK, EnteringBelow, ProvenInv, NEW r \in Honest, NEW e \in entering[r],
           EnterView(r, e), UNCHANGED stores
    PROVE  ProvenInv'
<1>1. r \in Replica /\ view[r] \in Views /\ e.view \in Views /\ e.view <= view[r]
    BY DEF Honest, TypeOK, EnteringBelow
<1>2. UNCHANGED <<view, prepared, prepareMsgs>>
    BY DEF EnterView, stores
<1>3. /\ accepted' = [accepted EXCEPT ![r] =
                         [x \in Slot |-> IF x[1] < e.view THEN None ELSE accepted[r][x]]]
      /\ \A q \in Replica \ {r} : accepted'[q] = accepted[q]
    BY DEF EnterView, TypeOK
<1>4. ASSUME NEW s \in Seqs
      PROVE  accepted'[r][<<view[r], s>>] = accepted[r][<<view[r], s>>]
  <2>1. <<view[r], s>> \in Slot /\ ~(view[r] < e.view)
      BY <1>1, MembershipAssumption DEF Slot, Views
  <2> QED
      BY <1>1, <1>3, <2>1 DEF TypeOK
<1>5. ASSUME r \notin Amnesic PROVE LockedFor(r)' /\ ProvenFor(r)'
  <2>1. LockedFor(r) /\ ProvenFor(r)
      BY <1>5 DEF ProvenInv
  <2> QED
      BY <1>2, <1>4, <2>1 DEF LockedFor, ProvenFor
<1> QED
    BY <1>2, <1>3, <1>5, OthersKeep

\* A replica's view only grows.
LEMMA ProvenView ==
    ASSUME TypeOK, ProvenInv, NEW r \in Honest, NEW v \in Views, NEW rows \in CallerRows,
           EmitNewView(r, v, rows) \/ InstallNewView(r, v, rows), UNCHANGED stores
    PROVE  ProvenInv'
<1>1. r \in Replica /\ view[r] \in Views
    BY DEF Honest, TypeOK
<1>2. UNCHANGED <<accepted, prepared, prepareMsgs>>
    BY DEF EmitNewView, InstallNewView, stores
<1>3. view' = view \/ (v > view[r] /\ view' = [view EXCEPT ![r] = v])
    BY DEF EmitNewView, InstallNewView
<1>4. \A q \in Replica \ {r} : view'[q] = view[q]
    BY <1>3 DEF TypeOK
<1>5. view' = view \/ view'[r] > view[r]
    BY <1>1, <1>3 DEF TypeOK
<1>6. view'[r] \in Int /\ view[r] \in Int
    BY <1>1, <1>3, MembershipAssumption DEF TypeOK, Views
<1>7. ASSUME r \notin Amnesic PROVE LockedFor(r)' /\ ProvenFor(r)'
  <2>1. LockedFor(r) /\ ProvenFor(r)
      BY <1>7 DEF ProvenInv
  <2>2. ASSUME NEW w \in Views, NEW s \in Seqs, prepared[r][<<w, s>>] # None
        PROVE  /\ w <= view'[r]
               /\ w = view'[r] => accepted[r][<<w, s>>] = prepared[r][<<w, s>>]
    <3>1. /\ w \in Int /\ w <= view[r]
          /\ w = view[r] => accepted[r][<<w, s>>] = prepared[r][<<w, s>>]
        BY <2>1, <2>2, MembershipAssumption DEF LockedFor, Views
    <3> QED
        BY <1>5, <1>6, <3>1
  <2> QED
      BY <1>2, <2>1, <2>2 DEF LockedFor, ProvenFor
<1> QED
    BY <1>2, <1>4, <1>7, OthersKeep

\* Nothing that matters changes, or the replica loses its file.
LEMMA ProvenQuiet ==
    ASSUME ProvenInv, UNCHANGED <<view, accepted, prepared, prepareMsgs>>
    PROVE  ProvenInv'
BY DEF ProvenInv, LockedFor, ProvenFor

LEMMA ProvenLose ==
    ASSUME TypeOK, StoresInv, ProvenInv, NEW r \in Honest, "truncate" \in Routes[r],
           LoseStores(r) \/ (RestartViewLost(r) /\ UNCHANGED stores)
    PROVE  ProvenInv'
<1>1. r \in Replica /\ r \in Amnesic
    BY DEF Honest, Amnesic
<1>2. \A q \in Replica \ {r} : /\ prepared'[q] = prepared[q] /\ view'[q] = view[q]
                               /\ accepted'[q] = accepted[q]
                               /\ prepareMsgs'[q] = prepareMsgs[q]
    BY DEF LoseStores, RestartTruncated, RestartViewLost, TypeOK, StoresInv, stores
<1> QED
    BY <1>1, <1>2, OthersKeep

LEMMA ProvenOther ==
    ASSUME TypeOK, EnteringBelow, ProvenInv, NEW r \in Honest, OtherRequest(r), UNCHANGED stores
    PROVE  ProvenInv'
<1>1. ASSUME NEW v \in Views, NEW b \in Block,
             InstallCertificate(r, v, b) \/ WriteCertifiedBlock(r, v, b)
      PROVE  ProvenInv'
    BY <1>1, ProvenQuiet DEF InstallCertificate, WriteCertifiedBlock, stores
<1>2. ASSUME NEW v \in Views, EmitViewChange(r, v) \/ EmitViewChange265(r, v)
      PROVE  ProvenInv'
    BY <1>2, ProvenQuiet DEF EmitViewChange, EmitViewChange265, stores
<1>3. ASSUME NEW c \in PCert, BindPrepared(r, c)
      PROVE  ProvenInv'
    BY <1>3, ProvenQuiet DEF BindPrepared, BindConstraint, stores
<1>4. ASSUME Restart(r)
      PROVE  ProvenInv'
    BY <1>4, ProvenQuiet DEF Restart, stores
<1> QED
    BY <1>1, <1>2, <1>3, <1>4, ProvenLock, ProvenEnter, ProvenView
    DEF OtherRequest, Environment

LEMMA ProvenStep ==
    ASSUME TypeOK, StoresInv, EnteringBelow, ProvenInv, [FinalityNext]_finalityVars
    PROVE  ProvenInv'
<1>1. ASSUME NEW r \in Honest, NEW s \in Seqs, EmitPrepare(r, s)
      PROVE  ProvenInv'
    BY <1>1, ProvenPrepare DEF EmitPrepare, Honest
<1>2. ASSUME NEW r \in Honest, NEW s \in Seqs, NEW from \in Replica, AcceptPrepare(r, s, from)
      PROVE  ProvenInv'
    BY <1>2, ProvenPrepare DEF AcceptPrepare
<1>3. ASSUME NEW r \in Honest, NEW s \in Seqs, NEW v \in Views, EmitCommit(r, v, s)
      PROVE  ProvenInv'
    BY <1>3, ProvenQuiet DEF EmitCommit, StoreCommit
<1>4. ASSUME NEW r \in Honest, NEW s \in Seqs, NEW from \in Replica, AcceptCommit(r, s, from)
      PROVE  ProvenInv'
    BY <1>4, ProvenQuiet DEF AcceptCommit, StoreCommit
<1>5. CASE UNCHANGED finalityVars
    BY <1>5, ProvenQuiet DEF finalityVars, votesVars, stores
<1> QED
    BY <1>1, <1>2, <1>3, <1>4, <1>5, ProvenOther, ProvenLose DEF FinalityNext

LEMMA ProvenStart == FinalityInit => ProvenInv
<1> SUFFICES ASSUME FinalityInit PROVE ProvenInv
    OBVIOUS
<1>1. \A r \in Replica, v \in Views, s \in Seqs : prepared[r][<<v, s>>] = None
    BY DEF FinalityInit, VotesInit, Slot
<1> QED
    BY <1>1 DEF ProvenInv, LockedFor, ProvenFor, Honest

\* As long as a replica keeps its file, the PREPARE rows that prepared a slot
\* stay in its table: a later row of the same signer for another digest is
\* stored only for another slot, whatever views it installs and locks it erases
\* (_store_prepare, _maybe_mark_prepared, enter_view).
THEOREM PreparedStaysProven == FinalitySpec => []PreparedStillProven
<1>1. /\ TypeOK /\ StoresInv /\ EnteringBelow /\ ProvenInv
      /\ [FinalityNext]_finalityVars
      => TypeOK' /\ StoresInv' /\ ProvenInv'
    BY FinalityMaps, ProvenStep
<1>2. VotesInv => EnteringBelow
    BY DEF VotesInv
<1>3. ProvenInv => PreparedStillProven
    BY DEF ProvenInv, ProvenFor, PreparedStillProven
<1> QED
    BY <1>1, <1>2, <1>3, FinalityStart, ProvenStart, StoresRefine, VotesInvariant, PTL
    DEF FinalitySpec

\* Agreement within a view, for the stores.
COROLLARY StoresAgree ==
    ASSUME QuorumsMeet
    PROVE  FinalitySpec => []SameViewAgreement
BY StoresRefine, Agreement, PTL

\* What the votes say of books and certificates, for the stores: whatever rows are
\* late, repeated or replaced, the block a replica wrote at an index is the one its
\* certificate names, unless two verifiable certificates name different ones.
COROLLARY StoresMatchBook == FinalitySpec => []BookFollowsCertificates
BY StoresRefine, BookFollows, PTL

\* A certificate once stored stays, for the stores too.
COROLLARY StoresKeepCertificates == FinalitySpec => CertifiedIndexKept
BY StoresRefine, CertificatesStay, PTL

\* Nobody claiming prepared values for others, a replica with one prepared value at an
\* index votes for no other there, for the stores too.
COROLLARY StoresHoldPrepared ==
    ASSUME NobodyClaims
    PROVE  FinalitySpec => PreparedValueHeld
BY StoresRefine, PreparedIsHeld, PTL

\* Agreement across views, for the stores: two certificates of an index name
\* different hashes only where a correct replica was overruled by one it held.
COROLLARY StoresAgreeAcrossViews ==
    ASSUME QuorumsMeet, NobodyClaims
    PROVE  FinalitySpec => []((CertificatesAgree /\ CertificateAgreement) \/ Overruled)
BY StoresRefine, AgreementAcrossViews, PTL
-----------------------------------------------------------------------------
(* The handlers of PRE-PREPARE as threads (PbftThreads).                    *)

\* What survives of VotesInv when a lock may be replaced: what is prepared and
\* committed still has its PREPARE quorum.
QuorumInv == TypeOK /\ PreparedBacked /\ CommitBacked

\* A replica that is neither faulty nor forgetful voted for both.
VotedTwice(v, s, d, e) ==
    \E r \in Correct : {Row("prepare", v, s, d, r), Row("prepare", v, s, e, r)} \subseteq msgs

\* Two certificates of a view name different hashes only over two signed PREPAREs
\* of a correct replica (emit_prepare, try_build_certificate).
TwoCertificatesOneCulprit ==
    \A v \in Views, s \in Seqs, d, e \in Block :
        ValidCertificate(v, s, d) /\ ValidCertificate(v, s, e) /\ d # e =>
            VotedTwice(v, s, d, e)

\* A slot is written with the digest of its quorum, or forgotten.
SlotBacked(t, rows) ==
    \/ t = prepared
    \/ \E r \in Replica, v \in Views, s \in Seqs, d \in Block :
          t = [prepared EXCEPT ![r][<<v, s>>] = d] /\ Backed(rows, v, s, d)
    \/ \E r \in Replica : t = [prepared EXCEPT ![r] = [x \in Slot |-> None]]

\* Tables written like that keep their quorums, whatever the locks are.
LEMMA QuorumInvKept ==
    ASSUME QuorumInv, TypeOK', msgs \subseteq msgs', SlotBacked(prepared', msgs'),
           \A m \in msgs' \ msgs :
              m.kind = "commit" => Backed(msgs', m.view, m.seq, m.digest)
    PROVE  QuorumInv'
<1>1. prepared \in [Replica -> [Slot -> Block \cup {None}]]
    BY DEF QuorumInv, TypeOK
<1>2. ASSUME NEW q \in Replica, NEW w \in Views, NEW u \in Seqs
      PROVE  \/ prepared'[q][<<w, u>>] \in {None, prepared[q][<<w, u>>]}
             \/ Backed(msgs', w, u, prepared'[q][<<w, u>>])
  <2>0. <<w, u>> \in Slot
      BY DEF Slot
  <2>1. CASE prepared' = prepared
      BY <2>1
  <2>2. ASSUME NEW r \in Replica, NEW v \in Views, NEW s \in Seqs, NEW d \in Block,
               prepared' = [prepared EXCEPT ![r][<<v, s>>] = d], Backed(msgs', v, s, d)
        PROVE  \/ prepared'[q][<<w, u>>] \in {None, prepared[q][<<w, u>>]}
               \/ Backed(msgs', w, u, prepared'[q][<<w, u>>])
    <3>1. CASE q = r /\ w = v /\ u = s
        BY <1>1, <2>0, <2>2, <3>1
    <3>2. CASE ~(q = r /\ w = v /\ u = s)
        BY <1>1, <2>0, <2>2, <3>2
    <3> QED
        BY <3>1, <3>2
  <2>3. ASSUME NEW r \in Replica, prepared' = [prepared EXCEPT ![r] = [x \in Slot |-> None]]
        PROVE  prepared'[q][<<w, u>>] \in {None, prepared[q][<<w, u>>]}
      BY <1>1, <2>0, <2>3
  <2> QED
      BY <2>1, <2>2, <2>3 DEF SlotBacked
<1> QED
    BY <1>2, QuorumsKept DEF QuorumInv

\* A PREPARE stored may prepare its slot, on the quorum of the lock.
LEMMA PrepareBacks ==
    ASSUME TypeOK, NEW r \in Honest, NEW s \in Seqs, SignPrepare(r, s) \/ ReceivePrepare(r, s)
    PROVE  SlotBacked(prepared', msgs')
<1>1. r \in Replica /\ view[r] \in Views
    BY DEF Honest, TypeOK
<1>2. accepted[r][<<view[r], s>>] \in Block
    BY <1>1 DEF TypeOK, Slot, SignPrepare, ReceivePrepare
<1>3. prepared' = prepared \/ BecomesPrepared(r, view[r], s, accepted[r][<<view[r], s>>])
    BY DEF SignPrepare, ReceivePrepare
<1> QED
    BY <1>1, <1>2, <1>3 DEF SlotBacked, BecomesPrepared, Backed

\* Every request PbftVotes serves in one step, and every crash.
LEMMA QuorumInvStep ==
    ASSUME QuorumInv, NEW r \in Honest, Step(r)
    PROVE  QuorumInv'
<1>0. TypeOK /\ TypeOK' /\ r \in Replica
    BY TypeStep DEF QuorumInv, Honest
<1>1. ASSUME UNCHANGED prepared, msgs \subseteq msgs',
             \A m \in msgs' \ msgs : m.kind # "commit"
      PROVE  QuorumInv'
    BY <1>0, <1>1, QuorumInvKept DEF SlotBacked
<1>2. ASSUME NEW s \in Seqs, SignPrepare(r, s) \/ ReceivePrepare(r, s)
      PROVE  QuorumInv'
  <2>1. SlotBacked(prepared', msgs')
      BY <1>0, <1>2, PrepareBacks
  <2>2. msgs \subseteq msgs' /\ \A m \in msgs' \ msgs : m.kind # "commit"
      BY <1>2 DEF SignPrepare, ReceivePrepare, Row
  <2> QED
      BY <1>0, <2>1, <2>2, QuorumInvKept
<1>3. ASSUME NEW v \in Views, NEW s \in Seqs, SignCommit(r, v, s)
      PROVE  QuorumInv'
  <2> DEFINE d == prepared[r][<<v, s>>]
             m == Row("commit", v, s, d, r)
  <2>1. d # None /\ msgs' = msgs \cup {m} /\ UNCHANGED prepared
      BY <1>3 DEF SignCommit
  <2>2. m.view = v /\ m.seq = s /\ m.digest = d
      BY DEF Row
  <2> HIDE DEF m
  <2>3. Backed(msgs', v, s, d)
      BY <1>0, <2>1, BackedKept DEF QuorumInv, PreparedBacked
  <2> QED
      BY <1>0, <2>1, <2>2, <2>3, QuorumInvKept DEF SlotBacked
<1>4. ASSUME NEW b \in Block, EmitPrePrepare(r, b) \/ AcceptPrePrepare(r, b)
      PROVE  QuorumInv'
    BY <1>1, <1>4 DEF EmitPrePrepare, AcceptPrePrepare, Row
<1>5. ASSUME NEW s \in Seqs, ReceiveCommit(r, s)
      PROVE  QuorumInv'
    BY <1>1, <1>5 DEF ReceiveCommit
<1>6. ASSUME NEW v \in Views, NEW b \in Block,
             InstallCertificate(r, v, b) \/ WriteCertifiedBlock(r, v, b)
      PROVE  QuorumInv'
    BY <1>1, <1>6 DEF InstallCertificate, WriteCertifiedBlock
<1>7. ASSUME NEW e \in entering[r], EnterView(r, e)
      PROVE  QuorumInv'
    BY <1>1, <1>7 DEF EnterView
<1>8. ASSUME NEW v \in Views, EmitViewChange(r, v) \/ EmitViewChange265(r, v)
      PROVE  QuorumInv'
    BY <1>1, <1>8 DEF EmitViewChange, EmitViewChange265
<1>9. ASSUME NEW v \in Views, NEW rows, EmitNewView(r, v, rows) \/ InstallNewView(r, v, rows)
      PROVE  QuorumInv'
    BY <1>1, <1>9 DEF EmitNewView, InstallNewView
<1>10. ASSUME NEW c \in PCert, BindPrepared(r, c)
       PROVE  QuorumInv'
    BY <1>1, <1>10 DEF BindPrepared, BindConstraint
<1>11. ASSUME Restart(r) \/ RestartTruncated(r) \/ RestartViewLost(r)
       PROVE  QuorumInv'
  <2>1. SlotBacked(prepared', msgs') /\ msgs' = msgs
      BY <1>0, <1>11 DEF SlotBacked, Restart, RestartTruncated, RestartViewLost
  <2> QED
      BY <1>0, <2>1, QuorumInvKept
<1> QED
    BY <1>2, <1>3, <1>4, <1>5, <1>6, <1>7, <1>8, <1>9, <1>10, <1>11
    DEF Step, Environment, Truncation

\* A handler between its tests and _accept is one for a block.
Handler == [view: Views, digest: Block, signs: BOOLEAN]

ThreadsInv == QuorumInv /\ tested \in [Replica -> SUBSET Handler]

\* Whatever the threads write over the locks of one another.
LEMMA ThreadsStep == ThreadsInv /\ [ThreadsNext]_threadsVars => ThreadsInv'
<1> SUFFICES ASSUME ThreadsInv, [ThreadsNext]_threadsVars PROVE ThreadsInv'
    OBVIOUS
<1>0. TypeOK /\ QuorumInv /\ Honest \subseteq Replica
    BY DEF ThreadsInv, QuorumInv, Honest
<1>1. ASSUME UNCHANGED votesVars PROVE QuorumInv'
    BY <1>0, <1>1 DEF votesVars, QuorumInv, TypeOK, PreparedBacked, CommitBacked, Backed
<1>2. ASSUME NEW r \in Honest, NEW b \in Block,
             TestEmitPrePrepare(r, b) \/ TestAcceptPrePrepare(r, b)
      PROVE  ThreadsInv'
  <2>1. PICK signs \in BOOLEAN : Passes(r, b, signs)
      BY <1>2 DEF TestEmitPrePrepare, TestAcceptPrePrepare
  <2>2. Served(r, b, signs) \in Handler
      BY <1>0 DEF Served, Handler, TypeOK
  <2> QED
      BY <1>0, <1>1, <2>1, <2>2 DEF Passes, ThreadsInv
<1>3. ASSUME NEW r \in Honest, NEW h \in tested[r], WriteAccepted(r, h)
      PROVE  ThreadsInv'
  <2> DEFINE w == Row("pre-prepare", h.view, Index[h.digest], h.digest, r)
             x == <<h.view, Index[h.digest]>>
  <2>1. h \in Handler /\ r \in Replica
      BY <1>0 DEF ThreadsInv
  <2>2. x \in Slot /\ h.digest \in Block /\ h.view \in Views /\ Index[h.digest] \in Seqs
      BY <2>1, IndexIsSeq DEF Handler, Slot
  <2>3. w.kind = "pre-prepare" /\ w \in Message
      BY <2>1, <2>2, RowIsVote DEF Row, VoteKind
  <2>4. /\ accepted' = [accepted EXCEPT ![r][x] = h.digest]
        /\ msgs' = msgs \/ msgs' = msgs \cup {w}
        /\ UNCHANGED <<view, prepared, certificates, mustRepropose, entering, tip>>
        /\ tested' = [tested EXCEPT ![r] = @ \ {h}]
      BY <1>3 DEF WriteAccepted, Accept
  <2> HIDE DEF w, x
  <2>5. accepted' \in [Replica -> [Slot -> Block \cup {None}]]
      BY <1>0, <2>1, <2>2, <2>4, TableEntry DEF TypeOK
  <2>6. TypeOK'
      BY <1>0, <2>3, <2>4, <2>5 DEF TypeOK
  <2>7. QuorumInv'
      BY <1>0, <2>3, <2>4, <2>6, QuorumInvKept DEF SlotBacked
  <2> QED
      BY <2>1, <2>4, <2>7 DEF ThreadsInv
<1>4. ASSUME NEW r \in Honest, WholeRequest(r), UNCHANGED tested
      PROVE  ThreadsInv'
  <2>1. Step(r)
      BY <1>4 DEF WholeRequest, Step
  <2> QED
      BY <1>0, <1>4, <2>1, QuorumInvStep DEF ThreadsInv
<1>5. ASSUME NEW r \in Honest, CrashThreads(r)
      PROVE  ThreadsInv'
  <2>1. tested' \in [Replica -> SUBSET Handler]
      BY <1>0, <1>5 DEF CrashThreads, ThreadsInv
  <2>2. Step(r) \/ UNCHANGED votesVars
      BY <1>5 DEF CrashThreads, Step, Environment
  <2> QED
      BY <1>0, <1>1, <2>1, <2>2, QuorumInvStep DEF ThreadsInv
<1>6. CASE UNCHANGED threadsVars
    BY <1>0, <1>1, <1>6 DEF threadsVars, ThreadsInv
<1> QED
    BY <1>2, <1>3, <1>4, <1>5, <1>6 DEF ThreadsNext

\* Behind two certificates of a slot are two PREPARE quorums, and a correct replica
\* in both.
LEMMA CulpritFromInv ==
    ASSUME QuorumInv, QuorumsMeet
    PROVE  TwoCertificatesOneCulprit
<1> SUFFICES ASSUME NEW v \in Views, NEW s \in Seqs, NEW d \in Block, NEW e \in Block,
                    ValidCertificate(v, s, d), ValidCertificate(v, s, e)
             PROVE  VotedTwice(v, s, d, e)
    BY DEF TwoCertificatesOneCulprit
<1> DEFINE S(x) == VotersIn(msgs, "prepare", v, s, x)
<1>1. Backed(msgs, v, s, d) /\ Backed(msgs, v, s, e)
    BY CertificateBacked DEF QuorumInv
<1>2. /\ S(d) \in SUBSET Replica /\ Cardinality(S(d)) >= Q
      /\ S(e) \in SUBSET Replica /\ Cardinality(S(e)) >= Q
    BY <1>1 DEF Backed, VotersIn
<1>3. PICK r \in S(d) \cap S(e) : r \notin Faulty \cup Amnesic
    BY <1>2, CorrectInBoth
<1>4. r \in Correct
    BY <1>2, <1>3 DEF Correct, Honest
<1>5. \A x : Row("prepare", v, s, x, r).by = r
    BY DEF Row
<1>6. \A x : Row("prepare", v, s, x, r) \notin FaultySends
    BY <1>3, <1>5, FaultySendsAssumption
<1>7. Row("prepare", v, s, d, r) \in msgs /\ Row("prepare", v, s, e, r) \in msgs
    BY <1>3, <1>6 DEF VotersIn
<1> QED
    BY <1>4, <1>7 DEF VotedTwice

\* However the threads of a server interleave, lock over one another, crash and enter
\* views, two certificates of one view convict a correct replica by its own rows: two
\* PREPAREs of the slot, which the unlocked tests of emit_preprepare and
\* accept_preprepare let it sign.
THEOREM ThreadsConvict ==
    ASSUME QuorumsMeet
    PROVE  ThreadsSpec => []TwoCertificatesOneCulprit
<1>1. ThreadsInit => ThreadsInv
  <2> SUFFICES ASSUME ThreadsInit PROVE ThreadsInv
      OBVIOUS
  <2>1. VotesInv
      BY VotesInvInit DEF ThreadsInit
  <2> QED
      BY <2>1 DEF ThreadsInit, ThreadsInv, QuorumInv, VotesInv
<1>2. ThreadsInv => TwoCertificatesOneCulprit
    BY CulpritFromInv DEF ThreadsInv
<1> QED
    BY <1>1, <1>2, ThreadsStep, PTL DEF ThreadsSpec
=============================================================================
