-------------------------- MODULE PbftVotes_proofs --------------------------
(***************************************************************************)
(* Proofs about PbftVotes: its type invariant for every membership, block  *)
(* tree, set of faulty rows and choice of routes; for every membership     *)
(* whose quorums meet in a correct replica, agreement within a view, and   *)
(* what any disagreement across views rests on.                            *)
(***************************************************************************)
EXTENDS PbftVotes, FiniteSetTheorems, TLAPS

\* The requests and events of one replica, without their parameters.
Step(r) ==
    \/ \E b \in Block : EmitPrePrepare(r, b) \/ AcceptPrePrepare(r, b)
    \/ \E s \in Seqs : SignPrepare(r, s) \/ ReceivePrepare(r, s)
    \/ \E v \in Views, s \in Seqs : SignCommit(r, v, s)
    \/ \E s \in Seqs : ReceiveCommit(r, s)
    \/ \E v \in Views, b \in Block :
          InstallCertificate(r, v, b) \/ WriteCertifiedBlock(r, v, b)
    \/ \E e \in entering[r] : EnterView(r, e)
    \/ Environment(r)
    \/ Truncation(r)

-----------------------------------------------------------------------------
(* Membership. *)

\* The primary of a view is a replica (primary_of).
LEMMA PrimaryIsReplica ==
    ASSUME NEW v \in Views
    PROVE  PrimaryOf(v) \in Replica
<1>1. N \in Nat /\ N >= 4
    BY MembershipAssumption DEF N
<1>2. v \in Nat
    BY MembershipAssumption DEF Views
<1>3. (v % N) + 1 \in 1 .. N
    BY <1>1, <1>2
<1> QED
    BY <1>3 DEF PrimaryOf, Replica, N

\* The rows a replica signs are messages.
LEMMA RowIsVote ==
    ASSUME NEW k \in VoteKind, NEW v \in Views, NEW s \in Seqs,
           NEW d \in Block, NEW r \in Replica
    PROVE  Row(k, v, s, d, r) \in Message
BY DEF Row, Message, Vote

\* The index of a block is a sequence number.
LEMMA IndexIsSeq == ASSUME NEW b \in Block PROVE Index[b] \in Seqs
BY DEF Seqs

-----------------------------------------------------------------------------
(* Type correctness. *)

\* Writing one entry of one replica's table keeps the type of the tables.
LEMMA TableEntry ==
    ASSUME NEW D, NEW V, NEW f \in [Replica -> [D -> V]],
           NEW r \in Replica, NEW x \in D, NEW d \in V
    PROVE  [f EXCEPT ![r][x] = d] \in [Replica -> [D -> V]]
OBVIOUS

\* The initial tables are empty.
LEMMA TypeInit == VotesInit => TypeOK
<1> SUFFICES ASSUME VotesInit PROVE TypeOK
    OBVIOUS
<1>1. 0 \in Views
    BY MembershipAssumption DEF Views
<1> QED
    BY <1>1 DEF VotesInit, TypeOK

\* What NEW-VIEW chooses names the slot and digest of a prepared certificate.
LEMMA ChosenType ==
    ASSUME TypeOK, NEW r \in Replica, NEW rows \in SUBSET ViewChange265
    PROVE  Chosen(r, rows) \subseteq PCert
<1>1. Selected(rows) \subseteq PCert
    BY DEF Selected, Consistent, Carried, ViewChange265
<1>2. LocalPending(r) \subseteq PCert
    <2> SUFFICES ASSUME NEW x \in Slot, prepared[r][x] # None
                 PROVE  [view |-> x[1], seq |-> x[2], digest |-> prepared[r][x]]
                            \in PCert
        BY DEF LocalPending
    <2>1. prepared[r][x] \in Block
        BY DEF TypeOK
    <2> QED
        BY <2>1 DEF PCert, Slot
<1> QED
    BY <1>1, <1>2 DEF Chosen

\* A step of any replica keeps the type of every table.
LEMMA TypeStep ==
    ASSUME TypeOK, NEW r \in Honest, Step(r)
    PROVE  TypeOK'
<1> r \in Replica
    BY DEF Honest
<1> USE DEF TypeOK
<1>0. Slot = Views \X Seqs /\ view[r] \in Views
    BY DEF Slot
<1>1. ASSUME NEW b \in Block, EmitPrePrepare(r, b)
      PROVE  TypeOK'
    <2>1. Row("pre-prepare", view[r], Index[b], b, r) \in Message
        BY <1>0, RowIsVote, IndexIsSeq DEF VoteKind
    <2>2. accepted' \in [Replica -> [Slot -> Block \cup {None}]]
        BY <1>0, <1>1, IndexIsSeq DEF EmitPrePrepare, Accept
    <2> QED
        BY <1>1, <2>1, <2>2 DEF EmitPrePrepare
<1>2. ASSUME NEW b \in Block, AcceptPrePrepare(r, b)
      PROVE  TypeOK'
    BY <1>0, <1>2, IndexIsSeq DEF AcceptPrePrepare, Accept
<1>3. ASSUME NEW s \in Seqs, SignPrepare(r, s)
      PROVE  TypeOK'
    <2> DEFINE d == accepted[r][<<view[r], s>>]
    <2>1. d \in Block
        BY <1>0, <1>3 DEF SignPrepare
    <2>2. Row("prepare", view[r], s, d, r) \in Message
        BY <1>0, <2>1, RowIsVote DEF VoteKind
    <2>3. \/ prepared' = prepared
          \/ prepared' = [prepared EXCEPT ![r][<<view[r], s>>] = d]
        BY <1>3 DEF SignPrepare, BecomesPrepared
    <2>4. <<view[r], s>> \in Slot
        BY <1>0
    <2>5. prepared' \in [Replica -> [Slot -> Block \cup {None}]]
        <3>1. CASE prepared' = prepared
            BY <3>1
        <3>2. CASE prepared' = [prepared EXCEPT ![r][<<view[r], s>>] = d]
            BY <2>1, <2>4, <3>2, TableEntry
        <3> QED
            BY <2>3, <3>1, <3>2
    <2> QED
        BY <1>3, <2>2, <2>5 DEF SignPrepare
<1>4. ASSUME NEW s \in Seqs, ReceivePrepare(r, s)
      PROVE  TypeOK'
    <2> DEFINE d == accepted[r][<<view[r], s>>]
    <2>1. d \in Block /\ <<view[r], s>> \in Slot
        BY <1>0, <1>4 DEF ReceivePrepare
    <2>2. prepared' = [prepared EXCEPT ![r][<<view[r], s>>] = d]
        BY <1>4 DEF ReceivePrepare, BecomesPrepared
    <2>3. prepared' \in [Replica -> [Slot -> Block \cup {None}]]
        BY <2>1, <2>2, TableEntry
    <2> QED
        BY <1>4, <2>3 DEF ReceivePrepare
<1>5. ASSUME NEW v \in Views, NEW s \in Seqs, SignCommit(r, v, s)
      PROVE  TypeOK'
    <2> DEFINE d == prepared[r][<<v, s>>]
    <2>1. d \in Block
        BY <1>0, <1>5 DEF SignCommit
    <2>2. Row("commit", v, s, d, r) \in Message
        BY <2>1, RowIsVote DEF VoteKind
    <2>3. \/ certificates' = certificates
          \/ certificates' = [certificates EXCEPT ![r][s] = d]
        BY <1>5 DEF SignCommit, Certifies
    <2>4. certificates' \in [Replica -> [Seqs -> Block \cup {None}]]
        <3>1. CASE certificates' = certificates
            BY <3>1
        <3>2. CASE certificates' = [certificates EXCEPT ![r][s] = d]
            BY <2>1, <3>2, TableEntry
        <3> QED
            BY <2>3, <3>1, <3>2
    <2> QED
        BY <1>5, <2>2, <2>4 DEF SignCommit
<1>6. ASSUME NEW s \in Seqs, ReceiveCommit(r, s)
      PROVE  TypeOK'
    <2> DEFINE d == prepared[r][<<view[r], s>>]
    <2>1. d \in Block
        BY <1>0, <1>6 DEF ReceiveCommit
    <2>2. certificates' = [certificates EXCEPT ![r][s] = d]
        BY <1>6 DEF ReceiveCommit, Certifies
    <2>3. certificates' \in [Replica -> [Seqs -> Block \cup {None}]]
        BY <2>1, <2>2, TableEntry
    <2> QED
        BY <1>6, <2>3 DEF ReceiveCommit
<1>7. ASSUME NEW v \in Views, NEW b \in Block, InstallCertificate(r, v, b)
      PROVE  TypeOK'
    BY <1>7 DEF InstallCertificate
<1>8. ASSUME NEW v \in Views, NEW b \in Block, WriteCertifiedBlock(r, v, b)
      PROVE  TypeOK'
    BY <1>8 DEF WriteCertifiedBlock
<1>9. ASSUME NEW e \in entering[r], EnterView(r, e)
      PROVE  TypeOK'
    <2>1. Chosen(r, e.rows) \subseteq PCert
        BY ChosenType
    <2>2. mustRepropose' \in [Replica -> Constraint \cup {None}]
        <3>1. CASE UNCHANGED mustRepropose
            BY <3>1
        <3>2. ASSUME NEW c \in Chosen(r, e.rows), BindConstraint(r, c)
              PROVE  mustRepropose' \in [Replica -> Constraint \cup {None}]
            <4>1. [seq |-> c.seq, digest |-> c.digest] \in Constraint
                BY <2>1 DEF PCert, Constraint
            <4> QED
                BY <3>2, <4>1 DEF BindConstraint
        <3> QED
            BY <1>9, <3>1, <3>2 DEF EnterView
    <2>3. accepted' \in [Replica -> [Slot -> Block \cup {None}]]
        BY <1>9 DEF EnterView
    <2>4. entering' \in
             [Replica -> SUBSET [view: Views, rows: SUBSET ViewChange265]]
        BY <1>9 DEF EnterView
    <2> QED
        BY <1>9, <2>2, <2>3, <2>4 DEF EnterView
<1>10. ASSUME NEW v \in Views, EmitViewChange(r, v)
       PROVE  TypeOK'
    BY <1>10 DEF EmitViewChange, Message, ViewChange
<1>11. ASSUME NEW v \in Views, EmitViewChange265(r, v)
       PROVE  TypeOK'
    <2> DEFINE pset == {[view |-> x[1], seq |-> x[2], digest |-> prepared[r][x]] :
                           x \in {y \in Slot : prepared[r][y] # None}}
               m == [kind |-> "view-change-265", view |-> v,
                     from |-> view[r], by |-> r, prepared |-> pset]
    <2>1. pset \subseteq PCert
        BY <1>0 DEF PCert
    <2>2. m \in Message
        BY <2>1 DEF Message, ViewChange265
    <2> HIDE DEF pset
    <2> QED
        BY <1>11, <2>2 DEF EmitViewChange265, pset
<1>12. ASSUME NEW v \in Views, NEW rows \in CallerRows
       PROVE  rows \in SUBSET ViewChange265
    <2> SUFFICES ASSUME NEW m \in msgs \cup FaultySends,
                        m.kind = "view-change-265"
                 PROVE  m \in ViewChange265
        BY DEF CallerRows
    <2>1. m \in Message
        BY FaultySendsAssumption
    <2> QED
        BY <2>1 DEF Message, Vote, VoteKind, ViewChange, NewView
<1>13. ASSUME NEW v \in Views, NEW rows \in CallerRows, EmitNewView(r, v, rows)
       PROVE  TypeOK'
    <2>1. [view |-> v, rows |-> rows] \in
             [view: Views, rows: SUBSET ViewChange265]
        BY <1>12
    <2>2. [kind |-> "new-view", view |-> v, by |-> r] \in Message
        BY DEF Message, NewView
    <2> QED
        BY <1>13, <2>1, <2>2 DEF EmitNewView, EnterLater
<1>14. ASSUME NEW v \in Views, NEW rows \in CallerRows,
              InstallNewView(r, v, rows)
       PROVE  TypeOK'
    <2>1. [view |-> v, rows |-> rows] \in
             [view: Views, rows: SUBSET ViewChange265]
        BY <1>12
    <2> QED
        BY <1>14, <2>1 DEF InstallNewView, EnterLater
<1>15. ASSUME NEW c \in PCert, BindPrepared(r, c)
       PROVE  TypeOK'
    BY <1>15 DEF BindPrepared, BindConstraint, PCert, Constraint
<1>16. ASSUME Restart(r)
       PROVE  TypeOK'
    BY <1>16 DEF Restart
<1>17. ASSUME RestartTruncated(r)
       PROVE  TypeOK'
    BY <1>17 DEF RestartTruncated
<1>18. ASSUME RestartViewLost(r)
       PROVE  TypeOK'
    <2>1. 0 \in Views
        BY MembershipAssumption DEF Views
    <2> QED
        BY <1>18, <2>1 DEF RestartViewLost
<1> HIDE DEF TypeOK
<1> QED
    BY <1>1, <1>2, <1>3, <1>4, <1>5, <1>6, <1>7, <1>8, <1>9, <1>10, <1>11,
       <1>13, <1>14, <1>15, <1>16, <1>17, <1>18
    DEF Step, Environment, Truncation

\* Every step is a step of one replica.
LEMMA StepOfNext == VotesNext => \E r \in Honest : Step(r)
BY DEF VotesNext, Step

\* Every table of every replica holds entries of its kind, for every value of
\* the constants.
THEOREM TypeCorrect == VotesSpec => []TypeOK
<1>1. TypeOK /\ [VotesNext]_votesVars => TypeOK'
    <2> SUFFICES ASSUME TypeOK, [VotesNext]_votesVars PROVE TypeOK'
        OBVIOUS
    <2>1. CASE VotesNext
        BY <2>1, StepOfNext, TypeStep
    <2>2. CASE UNCHANGED votesVars
        BY <2>2 DEF votesVars, TypeOK
    <2> QED
        BY <2>1, <2>2
<1> QED
    BY TypeInit, <1>1, PTL DEF VotesSpec

-----------------------------------------------------------------------------
(* Quorums. *)

\* There are at most N replicas.
LEMMA ReplicaFinite == IsFiniteSet(Replica) /\ Cardinality(Replica) <= N
<1>1. N \in Nat /\ ReplicaIds \in [1 .. N -> Replica]
    BY MembershipAssumption DEF N
<1>2. ReplicaIds \in Surjection(1 .. N, Replica)
    BY <1>1 DEF Surjection, Replica, N
<1>3. IsFiniteSet(1 .. N) /\ Cardinality(1 .. N) = N
    BY <1>1, FS_Interval, MembershipAssumption
<1> QED
    BY <1>2, <1>3, FS_Surjection

\* Any set of replicas is finite and no larger than the membership.
LEMMA SubsetFinite ==
    ASSUME NEW S \in SUBSET Replica
    PROVE  IsFiniteSet(S) /\ Cardinality(S) \in Nat /\ Cardinality(S) <= N
<1>1. IsFiniteSet(S) /\ Cardinality(S) <= Cardinality(Replica)
    BY ReplicaFinite, FS_Subset
<1>2. Cardinality(S) \in Nat /\ Cardinality(Replica) \in Nat
    BY <1>1, ReplicaFinite, FS_CardinalityType
<1>3. N \in Nat
    BY MembershipAssumption DEF N
<1> QED
    BY <1>1, <1>2, <1>3, ReplicaFinite

\* The sizes are numbers (n_f_q).
LEMMA QuorumIsInt == N \in Nat /\ Q \in Int
<1>1. N \in Nat /\ N >= 4
    BY MembershipAssumption DEF N
<1> QED
    BY <1>1 DEF Q, F

\* Two quorums share a correct replica.
LEMMA CorrectInBoth ==
    ASSUME QuorumsMeet, NEW S \in SUBSET Replica, NEW T \in SUBSET Replica,
           Cardinality(S) >= Q, Cardinality(T) >= Q
    PROVE  \E r \in S \cap T : r \notin Faulty \cup Amnesic
<1> DEFINE Bad == Faulty \cup Amnesic
<1>1. Bad \in SUBSET Replica
    BY MembershipAssumption DEF Amnesic
<1>2. SUFFICES ASSUME S \cap T \subseteq Bad PROVE FALSE
    OBVIOUS
<1>3. /\ Cardinality(Bad) \in Nat /\ IsFiniteSet(Bad)
      /\ Cardinality(S \cap T) \in Nat
      /\ Cardinality(S) \in Nat /\ IsFiniteSet(S)
      /\ Cardinality(T) \in Nat /\ IsFiniteSet(T)
      /\ Cardinality(S \cup T) \in Nat /\ Cardinality(S \cup T) <= N
    BY <1>1, SubsetFinite
<1>4. Cardinality(S \cap T) <= Cardinality(Bad)
    BY <1>2, <1>3, FS_Subset
<1>5. Cardinality(S \cup T) =
         Cardinality(S) + Cardinality(T) - Cardinality(S \cap T)
    BY <1>3, FS_Union
<1>6. 2 * Q > N + Cardinality(Bad)
    BY DEF QuorumsMeet
<1> HIDE DEF Bad
<1> QED
    BY <1>3, <1>4, <1>5, <1>6, QuorumIsInt

\* A quorum once signed stays signed.
LEMMA BackedKept ==
    ASSUME NEW R, NEW R2, R \subseteq R2, NEW v, NEW s, NEW d,
           Backed(R, v, s, d)
    PROVE  Backed(R2, v, s, d)
<1> DEFINE S == VotersIn(R, "prepare", v, s, d)
           T == VotersIn(R2, "prepare", v, s, d)
<1>1. S \subseteq T /\ T \in SUBSET Replica /\ S \in SUBSET Replica
    BY DEF VotersIn
<1>2. Cardinality(S) <= Cardinality(T)
    BY <1>1, SubsetFinite, FS_Subset
<1>3. Cardinality(S) \in Nat /\ Cardinality(T) \in Nat
    BY <1>1, SubsetFinite
<1>4. Cardinality(S) >= Q
    BY DEF Backed
<1> HIDE DEF S, T
<1>5. Cardinality(T) >= Q
    BY <1>2, <1>3, <1>4, QuorumIsInt
<1> QED
    BY <1>5 DEF Backed, T

-----------------------------------------------------------------------------
(* One PREPARE per slot, and what stands behind it. *)

\* A signed PREPARE or COMMIT is a vote for a block.
LEMMA VoteOfMessage ==
    ASSUME NEW m \in Message, m.kind \in {"prepare", "commit"}
    PROVE  m \in Vote
BY DEF Message, ViewChange, ViewChange265, NewView

\* Locks that matter are kept, views only grow, and no PREPARE is signed.
LEMMA LocksKept ==
    ASSUME TypeOK, TypeOK', VoteLocked, OneVotePerSlot, msgs \subseteq msgs',
           \A m \in msgs' \ msgs : m.kind # "prepare",
           \A q \in Replica \ Amnesic : view[q] <= view'[q],
           \A q \in Replica \ Amnesic, s \in Seqs :
              LET d == accepted[q][<<view[q], s>>]
              IN  view'[q] = view[q] /\ d # None =>
                     accepted'[q][<<view[q], s>>] = d
    PROVE  VoteLocked' /\ OneVotePerSlot'
<1>1. ASSUME NEW m \in msgs', m.kind = "prepare", m.by \notin Amnesic
      PROVE  /\ m.view <= view'[m.by]
             /\ m.view = view'[m.by] =>
                   accepted'[m.by][<<m.view, m.seq>>] = m.digest
    <2>1. m \in msgs
        BY <1>1
    <2>2. m \in Vote
        BY <1>1, <2>1, VoteOfMessage DEF TypeOK
    <2>3. /\ m.by \in Replica /\ m.view \in Views /\ m.seq \in Seqs
          /\ m.digest # None
        BY <2>2, BlockAssumption DEF Vote
    <2>4. view[m.by] \in Int /\ view'[m.by] \in Int /\ m.view \in Int
        BY <2>3, MembershipAssumption DEF TypeOK, Views
    <2>5. /\ m.view <= view[m.by]
          /\ m.view = view[m.by] => accepted[m.by][<<m.view, m.seq>>] = m.digest
        BY <1>1, <2>1 DEF VoteLocked
    <2>6. view[m.by] <= view'[m.by]
        BY <1>1, <2>3
    <2>7. ASSUME m.view = view'[m.by]
          PROVE  accepted'[m.by][<<m.view, m.seq>>] = m.digest
        <3>1. m.view = view[m.by] /\ view'[m.by] = view[m.by]
            BY <2>4, <2>5, <2>6, <2>7
        <3> QED
            BY <1>1, <2>3, <2>5, <3>1
    <2> QED
        BY <2>4, <2>5, <2>6, <2>7
<1>2. VoteLocked'
    BY <1>1 DEF VoteLocked
<1>3. OneVotePerSlot'
    <2>1. \A m \in msgs' : m.kind = "prepare" => m \in msgs
        OBVIOUS
    <2> QED
        BY <2>1 DEF OneVotePerSlot
<1> QED
    BY <1>2, <1>3

\* Every newly prepared slot and every new COMMIT has its PREPARE quorum.
LEMMA QuorumsKept ==
    ASSUME PreparedBacked, CommitBacked, msgs \subseteq msgs',
           \A r \in Replica, v \in Views, s \in Seqs :
              \/ prepared'[r][<<v, s>>] \in {None, prepared[r][<<v, s>>]}
              \/ Backed(msgs', v, s, prepared'[r][<<v, s>>]),
           \A m \in msgs' \ msgs :
              m.kind = "commit" => Backed(msgs', m.view, m.seq, m.digest)
    PROVE  PreparedBacked' /\ CommitBacked'
<1>1. ASSUME NEW r \in Replica, NEW v \in Views, NEW s \in Seqs,
             prepared'[r][<<v, s>>] # None
      PROVE  Backed(msgs', v, s, prepared'[r][<<v, s>>])
    <2>1. CASE prepared'[r][<<v, s>>] = prepared[r][<<v, s>>]
        <3>1. Backed(msgs, v, s, prepared[r][<<v, s>>])
            BY <1>1, <2>1 DEF PreparedBacked
        <3> QED
            BY <2>1, <3>1, BackedKept
    <2> QED
        BY <1>1, <2>1
<1>2. ASSUME NEW m \in msgs', m.kind = "commit"
      PROVE  Backed(msgs', m.view, m.seq, m.digest)
    <2>1. CASE m \in msgs
        BY <1>2, <2>1, BackedKept DEF CommitBacked
    <2> QED
        BY <1>2, <2>1
<1> QED
    BY <1>1, <1>2 DEF PreparedBacked, CommitBacked

\* What a step may change without touching locks, prepared slots or PREPAREs.
Quiet ==
    /\ UNCHANGED <<view, accepted, prepared, entering>>
    /\ msgs \subseteq msgs'
    /\ \A m \in msgs' \ msgs : m.kind \notin {"prepare", "commit"}

\* A step that touches neither votes, locks, views nor prepared slots.
LEMMA QuietStep ==
    ASSUME VotesInv, TypeOK', Quiet
    PROVE  VotesInv'
<1>1. EnteringBelow'
    BY DEF VotesInv, EnteringBelow, Quiet
<1>2. \A q \in Replica : view[q] <= view[q]
    BY MembershipAssumption DEF VotesInv, TypeOK, Views
<1>3. VoteLocked' /\ OneVotePerSlot'
    BY <1>2, LocksKept DEF VotesInv, Quiet
<1>4. PreparedBacked' /\ CommitBacked'
    BY QuorumsKept DEF VotesInv, Quiet
<1> QED
    BY <1>1, <1>3, <1>4 DEF VotesInv

\* A step that signs no vote and forgets no lock of the current view.
LEMMA ViewStep ==
    ASSUME VotesInv, TypeOK', EnteringBelow', msgs \subseteq msgs',
           \A m \in msgs' \ msgs : m.kind \notin {"prepare", "commit"},
           \A q \in Replica \ Amnesic : view[q] <= view'[q],
           \A q \in Replica \ Amnesic, s \in Seqs :
              LET d == accepted[q][<<view[q], s>>]
              IN  view'[q] = view[q] /\ d # None =>
                     accepted'[q][<<view[q], s>>] = d,
           \A q \in Replica, v \in Views, s \in Seqs :
              prepared'[q][<<v, s>>] \in {None, prepared[q][<<v, s>>]}
    PROVE  VotesInv'
<1>1. VoteLocked' /\ OneVotePerSlot'
    BY LocksKept DEF VotesInv
<1>2. PreparedBacked' /\ CommitBacked'
    BY QuorumsKept DEF VotesInv
<1> QED
    BY <1>1, <1>2 DEF VotesInv

\* Signing a PREPARE for the lock keeps one vote per slot.
LEMMA SignPrepareStep ==
    ASSUME VotesInv, TypeOK', NEW r \in Honest, NEW s \in Seqs,
           SignPrepare(r, s)
    PROVE  VotesInv'
<1> DEFINE d == accepted[r][<<view[r], s>>]
           w == Row("prepare", view[r], s, d, r)
<1>1. r \in Replica /\ view[r] \in Views /\ view[r] \in Int
    BY MembershipAssumption DEF Honest, VotesInv, TypeOK, Views
<1>2. /\ w.kind = "prepare" /\ w.view = view[r] /\ w.seq = s
      /\ w.digest = d /\ w.by = r
    BY DEF Row
<1>3. msgs' = msgs \cup {w} /\ UNCHANGED <<view, accepted, entering>>
    BY DEF SignPrepare
<1>4. EnteringBelow'
    BY <1>3 DEF VotesInv, EnteringBelow
<1> HIDE DEF w
<1>5. VoteLocked'
    BY <1>1, <1>2, <1>3 DEF VotesInv, VoteLocked
<1>6. ASSUME NEW m \in msgs, m.kind = "prepare", m.by = r, r \notin Amnesic,
             m.view = view[r], m.seq = s
      PROVE  m.digest = d
    BY <1>6 DEF VotesInv, VoteLocked
<1>7. OneVotePerSlot'
    BY <1>2, <1>3, <1>6 DEF VotesInv, OneVotePerSlot
<1>8. \/ prepared' = prepared
      \/ /\ Backed(msgs', view[r], s, d)
         /\ prepared' = [prepared EXCEPT ![r][<<view[r], s>>] = d]
    BY DEF SignPrepare, BecomesPrepared, Backed
<1>9. PreparedBacked' /\ CommitBacked'
    <2> HIDE DEF d
    <2>1. ASSUME NEW q \in Replica, NEW v \in Views, NEW t \in Seqs
          PROVE  \/ prepared'[q][<<v, t>>] \in {None, prepared[q][<<v, t>>]}
                 \/ Backed(msgs', v, t, prepared'[q][<<v, t>>])
        <3>1. CASE prepared' = prepared
            BY <3>1
        <3>2. CASE /\ Backed(msgs', view[r], s, d)
                   /\ prepared' = [prepared EXCEPT ![r][<<view[r], s>>] = d]
            <4>1. <<view[r], s>> \in Slot /\ <<v, t>> \in Slot
                BY <1>1 DEF Slot
            <4>2. prepared \in [Replica -> [Slot -> Block \cup {None}]]
                BY DEF VotesInv, TypeOK
            <4>3. CASE q = r /\ v = view[r] /\ t = s
                BY <3>2, <4>1, <4>2, <4>3
            <4>4. CASE ~ (q = r /\ v = view[r] /\ t = s)
                BY <3>2, <4>1, <4>2, <4>4
            <4> QED
                BY <4>3, <4>4
        <3> QED
            BY <1>8, <3>1, <3>2
    <2> QED
        BY <1>2, <1>3, <2>1, QuorumsKept DEF VotesInv
<1> QED
    BY <1>4, <1>5, <1>7, <1>9 DEF VotesInv

\* A slot becomes prepared on a quorum only.
LEMMA ReceivePrepareStep ==
    ASSUME VotesInv, TypeOK', NEW r \in Honest, NEW s \in Seqs,
           ReceivePrepare(r, s)
    PROVE  VotesInv'
<1> DEFINE d == accepted[r][<<view[r], s>>]
<1>1. r \in Replica /\ view[r] \in Views
    BY DEF Honest, VotesInv, TypeOK
<1>2. /\ UNCHANGED <<view, accepted, entering, msgs>>
      /\ Backed(msgs', view[r], s, d)
      /\ prepared' = [prepared EXCEPT ![r][<<view[r], s>>] = d]
    BY DEF ReceivePrepare, BecomesPrepared, Backed
<1>3. EnteringBelow' /\ VoteLocked' /\ OneVotePerSlot'
    BY <1>2 DEF VotesInv, EnteringBelow, VoteLocked, OneVotePerSlot
<1>4. PreparedBacked' /\ CommitBacked'
    <2> HIDE DEF d
    <2>1. ASSUME NEW q \in Replica, NEW v \in Views, NEW t \in Seqs
          PROVE  \/ prepared'[q][<<v, t>>] \in {None, prepared[q][<<v, t>>]}
                 \/ Backed(msgs', v, t, prepared'[q][<<v, t>>])
        <3>1. <<view[r], s>> \in Slot /\ <<v, t>> \in Slot
            BY <1>1 DEF Slot
        <3>2. prepared \in [Replica -> [Slot -> Block \cup {None}]]
            BY DEF VotesInv, TypeOK
        <3>3. CASE q = r /\ v = view[r] /\ t = s
            BY <1>2, <3>1, <3>2, <3>3
        <3>4. CASE ~ (q = r /\ v = view[r] /\ t = s)
            BY <1>2, <3>1, <3>2, <3>4
        <3> QED
            BY <3>3, <3>4
    <2> QED
        BY <1>2, <2>1, QuorumsKept DEF VotesInv
<1> QED
    BY <1>3, <1>4 DEF VotesInv

\* A COMMIT is signed for a prepared slot only, of any view.
LEMMA SignCommitStep ==
    ASSUME VotesInv, TypeOK', NEW r \in Honest, NEW v \in Views,
           NEW s \in Seqs, SignCommit(r, v, s)
    PROVE  VotesInv'
<1> DEFINE d == prepared[r][<<v, s>>]
           w == Row("commit", v, s, d, r)
<1>1. r \in Replica
    BY DEF Honest
<1>2. w.kind = "commit" /\ w.view = v /\ w.seq = s /\ w.digest = d
    BY DEF Row
<1>3. /\ msgs' = msgs \cup {w} /\ d # None
      /\ UNCHANGED <<view, accepted, prepared, entering>>
    BY DEF SignCommit
<1>4. Backed(msgs', v, s, d)
    BY <1>1, <1>3, BackedKept DEF VotesInv, PreparedBacked
<1> HIDE DEF w, d
<1>5. EnteringBelow'
    BY <1>3 DEF VotesInv, EnteringBelow
<1>6. \A q \in Replica : view[q] <= view[q]
    BY MembershipAssumption DEF VotesInv, TypeOK, Views
<1>7. VoteLocked' /\ OneVotePerSlot'
    BY <1>2, <1>3, <1>6, LocksKept DEF VotesInv
<1>8. PreparedBacked' /\ CommitBacked'
    BY <1>2, <1>3, <1>4, QuorumsKept DEF VotesInv
<1> QED
    BY <1>5, <1>7, <1>8 DEF VotesInv

\* enter_view erases locks of views below the one installed, never of the
\* view the replica is in.
LEMMA EnterViewStep ==
    ASSUME VotesInv, TypeOK', NEW r \in Honest, NEW e \in entering[r],
           EnterView(r, e)
    PROVE  VotesInv'
<1>1. r \in Replica /\ e.view <= view[r] /\ e.view \in Views
    BY DEF Honest, VotesInv, TypeOK, EnteringBelow
<1>2. UNCHANGED <<view, prepared, msgs>>
    BY DEF EnterView
<1>3. EnteringBelow'
    BY <1>1, <1>2 DEF EnterView, VotesInv, TypeOK, EnteringBelow
<1>4. ASSUME NEW q \in Replica, NEW s \in Seqs
      PROVE  accepted'[q][<<view[q], s>>] = accepted[q][<<view[q], s>>]
    <2>1. view[q] \in Views /\ view[q] \in Int /\ e.view \in Int
        BY <1>1, MembershipAssumption DEF VotesInv, TypeOK, Views
    <2>2. <<view[q], s>> \in Slot
        BY <2>1 DEF Slot
    <2>3. q = r => ~ (view[q] < e.view)
        BY <1>1, <2>1
    <2> QED
        BY <2>2, <2>3 DEF EnterView, VotesInv, TypeOK
<1>5. \A q \in Replica : view[q] <= view'[q]
    BY <1>2, MembershipAssumption DEF VotesInv, TypeOK, Views
<1> QED
    BY <1>2, <1>3, <1>4, <1>5, ViewStep

\* A PRE-PREPARE replaces no lock of the current view by another one.
LEMMA PrePrepareStep ==
    ASSUME VotesInv, TypeOK', NEW r \in Honest, NEW b \in Block,
           EmitPrePrepare(r, b) \/ AcceptPrePrepare(r, b)
    PROVE  VotesInv'
<1> DEFINE w == Row("pre-prepare", view[r], Index[b], b, r)
<1>1. r \in Replica /\ view[r] \in Views /\ Index[b] \in Seqs
    BY IndexIsSeq DEF Honest, VotesInv, TypeOK
<1>2. /\ UNCHANGED <<view, prepared, entering>>
      /\ accepted[r][<<view[r], Index[b]>>] \in {None, b}
      /\ accepted' = [accepted EXCEPT ![r][<<view[r], Index[b]>>] = b]
    BY DEF EmitPrePrepare, AcceptPrePrepare, MayAccept, Accept
<1>3. w.kind = "pre-prepare"
    BY DEF Row
<1>4. msgs' = msgs \cup {w} \/ msgs' = msgs
    BY DEF EmitPrePrepare, AcceptPrePrepare
<1> HIDE DEF w
<1>5. msgs \subseteq msgs' /\ \A m \in msgs' \ msgs : m.kind = "pre-prepare"
    BY <1>3, <1>4
<1>6. EnteringBelow'
    BY <1>2 DEF VotesInv, EnteringBelow
<1>7. \A q \in Replica : view[q] <= view'[q]
    BY <1>2, MembershipAssumption DEF VotesInv, TypeOK, Views
<1>8. ASSUME NEW q \in Replica, NEW s \in Seqs,
             accepted[q][<<view[q], s>>] # None
      PROVE  accepted'[q][<<view[q], s>>] = accepted[q][<<view[q], s>>]
    <2>1. /\ <<view[q], s>> \in Slot /\ <<view[r], Index[b]>> \in Slot
          /\ accepted \in [Replica -> [Slot -> Block \cup {None}]]
        BY <1>1 DEF Slot, VotesInv, TypeOK
    <2>2. CASE q = r /\ s = Index[b]
        BY <1>2, <1>8, <2>1, <2>2
    <2>3. CASE ~ (q = r /\ s = Index[b])
        BY <1>2, <2>1, <2>3
    <2> QED
        BY <2>2, <2>3
<1> QED
    BY <1>2, <1>5, <1>6, <1>7, <1>8, ViewStep

\* NEW-VIEW moves the view up, if at all, and leaves the locks alone.
LEMMA NewViewStep ==
    ASSUME VotesInv, TypeOK', NEW r \in Honest, NEW v \in Views,
           NEW rows \in CallerRows,
           EmitNewView(r, v, rows) \/ InstallNewView(r, v, rows)
    PROVE  VotesInv'
<1>1. r \in Replica /\ v \in Int /\ \A q \in Replica : view[q] \in Int
    BY MembershipAssumption DEF Honest, VotesInv, TypeOK, Views
<1>2. /\ view' = IF v > view[r] THEN [view EXCEPT ![r] = v] ELSE view
      /\ EnterLater(r, v, rows)
      /\ UNCHANGED <<accepted, prepared>>
    BY DEF EmitNewView, InstallNewView
<1>3. \A q \in Replica : view[q] <= view'[q]
    BY <1>1, <1>2 DEF VotesInv, TypeOK
<1>4. \A q \in Replica : view'[q] \in Int
    BY <1>1, <1>2 DEF VotesInv, TypeOK
<1>5. EnteringBelow'
    <2> SUFFICES ASSUME NEW q \in Replica, NEW e \in entering'[q]
                 PROVE  e.view <= view'[q]
        BY DEF EnteringBelow
    <2>1. CASE e \in entering[q]
        <3>1. e.view <= view[q] /\ e.view \in Int
            BY <2>1, MembershipAssumption
            DEF VotesInv, EnteringBelow, TypeOK, Views
        <3> QED
            BY <1>1, <1>3, <1>4, <3>1
    <2>2. CASE e \notin entering[q]
        <3>1. q = r /\ e.view = v
            BY <1>2, <2>2 DEF EnterLater, VotesInv, TypeOK
        <3> QED
            BY <1>1, <1>2, <3>1 DEF VotesInv, TypeOK
    <2> QED
        BY <2>1, <2>2
<1>6. msgs \subseteq msgs' /\ \A m \in msgs' \ msgs : m.kind = "new-view"
    BY DEF EmitNewView, InstallNewView
<1> QED
    BY <1>2, <1>3, <1>5, <1>6, ViewStep

\* A restart forgets requests in progress; a truncated file forgets the locks
\* or the view of a replica nothing is promised about.
LEMMA RestartStep ==
    ASSUME VotesInv, TypeOK', NEW r \in Honest,
           Restart(r) \/ Truncation(r)
    PROVE  VotesInv'
<1>0. r \in Replica /\ (Truncation(r) => r \in Amnesic)
    BY DEF Honest, Truncation, Amnesic
<1>1. /\ UNCHANGED msgs /\ entering' = [entering EXCEPT ![r] = {}]
      /\ \A q \in Replica : q # r => view'[q] = view[q]
      /\ \A q \in Replica \ Amnesic : view'[q] = view[q]
    BY <1>0 DEF Restart, Truncation, RestartTruncated, RestartViewLost,
       VotesInv, TypeOK
<1>2. EnteringBelow'
    BY <1>0, <1>1 DEF VotesInv, TypeOK, EnteringBelow
<1>3. \A q \in Replica \ Amnesic : view[q] <= view'[q]
    BY <1>1, MembershipAssumption DEF VotesInv, TypeOK, Views
<1>4. \A q \in Replica \ Amnesic : accepted'[q] = accepted[q]
    BY <1>0 DEF Restart, Truncation, RestartTruncated, RestartViewLost,
       VotesInv, TypeOK
<1>5. \A q \in Replica, v \in Views, s \in Seqs :
         prepared'[q][<<v, s>>] \in {None, prepared[q][<<v, s>>]}
    <2>1. \/ prepared' = prepared
          \/ prepared' = [prepared EXCEPT ![r] = [x \in Slot |-> None]]
        BY DEF Restart, Truncation, RestartTruncated, RestartViewLost
    <2>2. \A v \in Views, s \in Seqs : <<v, s>> \in Slot
        BY DEF Slot
    <2>3. prepared \in [Replica -> [Slot -> Block \cup {None}]]
        BY DEF VotesInv, TypeOK
    <2>4. CASE prepared' = prepared
        BY <2>4
    <2>5. CASE prepared' = [prepared EXCEPT ![r] = [x \in Slot |-> None]]
        BY <2>2, <2>3, <2>5
    <2> QED
        BY <2>1, <2>4, <2>5
<1> QED
    BY <1>1, <1>2, <1>3, <1>4, <1>5, ViewStep

\* A step of any replica keeps the inductive invariant.
LEMMA VotesInvStep ==
    ASSUME VotesInv, NEW r \in Honest, Step(r)
    PROVE  VotesInv'
<1>1. TypeOK'
    BY TypeStep DEF VotesInv
<1>2. ASSUME NEW s \in Seqs, ReceiveCommit(r, s)
      PROVE  Quiet
    BY <1>2 DEF ReceiveCommit, Quiet
<1>3. ASSUME NEW v \in Views, NEW b \in Block,
             InstallCertificate(r, v, b) \/ WriteCertifiedBlock(r, v, b)
      PROVE  Quiet
    BY <1>3 DEF InstallCertificate, WriteCertifiedBlock, Quiet
<1>4. ASSUME NEW v \in Views, EmitViewChange(r, v) \/ EmitViewChange265(r, v)
      PROVE  Quiet
    BY <1>4 DEF EmitViewChange, EmitViewChange265, Quiet
<1>5. ASSUME NEW c \in PCert, BindPrepared(r, c)
      PROVE  Quiet
    BY <1>5 DEF BindPrepared, BindConstraint, Quiet
<1> QED
    BY <1>1, <1>2, <1>3, <1>4, <1>5, QuietStep, PrePrepareStep,
       SignPrepareStep, ReceivePrepareStep, SignCommitStep, EnterViewStep,
       NewViewStep, RestartStep
    DEF Step, Environment

\* Nothing is signed, locked or prepared at first.
LEMMA VotesInvInit == VotesInit => VotesInv
<1> SUFFICES ASSUME VotesInit PROVE VotesInv
    OBVIOUS
<1>1. \A r \in Replica, v \in Views, s \in Seqs : prepared[r][<<v, s>>] = None
    BY DEF VotesInit, Slot
<1>2. msgs = {} /\ \A r \in Replica : entering[r] = {}
    BY DEF VotesInit
<1> QED
    BY <1>1, <1>2, TypeInit
    DEF VotesInv, EnteringBelow, VoteLocked, OneVotePerSlot, PreparedBacked,
        CommitBacked

\* Every prepared slot and every COMMIT has a PREPARE quorum behind it, and a
\* PREPARE never outlives its lock within its view.
THEOREM VotesInvariant == VotesSpec => []VotesInv
<1>1. VotesInv /\ [VotesNext]_votesVars => VotesInv'
    <2> SUFFICES ASSUME VotesInv, [VotesNext]_votesVars PROVE VotesInv'
        OBVIOUS
    <2>1. CASE VotesNext
        BY <2>1, StepOfNext, VotesInvStep
    <2>2. CASE UNCHANGED votesVars
        BY <2>2 DEF votesVars, VotesInv, TypeOK, EnteringBelow, VoteLocked,
           OneVotePerSlot, PreparedBacked, CommitBacked, Backed
    <2> QED
        BY <2>1, <2>2
<1> QED
    BY VotesInvInit, <1>1, PTL DEF VotesSpec

\* A replica that keeps its file signs one PREPARE digest per view and index,
\* however late enter_view erases its locks.
THEOREM OneVote == VotesSpec => []OneVotePerSlot
BY VotesInvariant, PTL DEF VotesInv

-----------------------------------------------------------------------------
(* Agreement within a view. *)

\* A COMMIT quorum contains a correct replica, hence a PREPARE quorum for the
\* same digest was signed.
LEMMA CertificateBacked ==
    ASSUME CommitBacked, QuorumsMeet, NEW v \in Views, NEW s \in Seqs,
           NEW d \in Block, ValidCertificate(v, s, d)
    PROVE  Backed(msgs, v, s, d)
<1> DEFINE S == Voters("commit", v, s, d)
<1>1. S \in SUBSET Replica /\ Cardinality(S) >= Q
    BY DEF ValidCertificate, Voters, VotersIn
<1>2. PICK r \in S : r \notin Faulty \cup Amnesic
    BY <1>1, CorrectInBoth
<1> DEFINE w == Row("commit", v, s, d, r)
<1>3. w.kind = "commit" /\ w.view = v /\ w.seq = s /\ w.digest = d /\ w.by = r
    BY DEF Row
<1>4. w \in msgs
    BY <1>2, <1>3, FaultySendsAssumption DEF Voters, VotersIn
<1> HIDE DEF w
<1> QED
    BY <1>3, <1>4 DEF CommitBacked

\* Two PREPARE quorums of one slot share a correct replica, which voted once.
LEMMA QuorumsAgree ==
    ASSUME VotesInv, QuorumsMeet, NEW v \in Views, NEW s \in Seqs, NEW d \in Block,
           NEW e \in Block, Backed(msgs, v, s, d), Backed(msgs, v, s, e)
    PROVE  d = e
<1> DEFINE S(x) == VotersIn(msgs, "prepare", v, s, x)
           w(x, r) == Row("prepare", v, s, x, r)
<1>1. /\ S(d) \in SUBSET Replica /\ Cardinality(S(d)) >= Q
      /\ S(e) \in SUBSET Replica /\ Cardinality(S(e)) >= Q
    BY DEF Backed, VotersIn
<1>2. PICK r \in S(d) \cap S(e) : r \notin Faulty \cup Amnesic
    BY <1>1, CorrectInBoth
<1>3. \A x : /\ w(x, r).kind = "prepare" /\ w(x, r).view = v
             /\ w(x, r).seq = s /\ w(x, r).digest = x /\ w(x, r).by = r
    BY DEF Row
<1>4. w(d, r) \in msgs \cup FaultySends /\ w(e, r) \in msgs \cup FaultySends
    BY <1>2 DEF VotersIn
<1> HIDE DEF w
<1>5. w(d, r) \in msgs /\ w(e, r) \in msgs
    BY <1>2, <1>3, <1>4, FaultySendsAssumption
<1>6. w(d, r).digest = w(e, r).digest
    BY <1>2, <1>3, <1>5 DEF VotesInv, OneVotePerSlot
<1> QED
    BY <1>3, <1>6

LEMMA AgreementFromInv ==
    ASSUME VotesInv, QuorumsMeet
    PROVE  SameViewAgreement
BY CertificateBacked, QuorumsAgree DEF SameViewAgreement, VotesInv

\* Two valid PRE-PREPAREs, whoever signed them, never finalize twice in a view,
\* as long as two quorums always share a correct replica.
THEOREM Agreement ==
    ASSUME QuorumsMeet
    PROVE  VotesSpec => []SameViewAgreement
<1>1. VotesInv => SameViewAgreement
    BY AgreementFromInv
<1> QED
    BY <1>1, VotesInvariant, PTL

-----------------------------------------------------------------------------
(* Books and certificates                                                  *)

\* A COMMIT quorum for the digest is among the rows.
Certified(rows, v, s, d) == Cardinality(VotersIn(rows, "commit", v, s, d)) >= Q

\* The inductive invariant: a certificate stored, and a block written, once had a
\* COMMIT quorum in some view.
BookInv ==
    /\ TypeOK
    /\ \A r \in Replica, s \in Seqs : certificates[r][s] # None =>
          \E v \in Views : Certified(msgs, v, s, certificates[r][s])
    /\ \A r \in Replica : tip[r] # None =>
          \E v \in Views : Certified(msgs, v, Index[tip[r]], tip[r])

\* Certificates stay verifiable.
LEMMA CertifiedKept ==
    ASSUME NEW R, NEW R2, R \subseteq R2, NEW v, NEW s, NEW d,
           Certified(R, v, s, d)
    PROVE  Certified(R2, v, s, d)
<1> DEFINE S == VotersIn(R, "commit", v, s, d)
           T == VotersIn(R2, "commit", v, s, d)
<1>1. S \subseteq T /\ T \in SUBSET Replica /\ S \in SUBSET Replica
    BY DEF VotersIn
<1>2. /\ Cardinality(S) \in Nat /\ Cardinality(T) \in Nat
      /\ IsFiniteSet(T)
    BY <1>1, SubsetFinite
<1>3. Cardinality(S) <= Cardinality(T)
    BY <1>1, <1>2, FS_Subset
<1>4. Cardinality(S) >= Q
    BY DEF Certified
<1> HIDE DEF S, T
<1>5. Cardinality(T) >= Q
    BY <1>2, <1>3, <1>4, QuorumIsInt
<1> QED
    BY <1>5 DEF T, Certified

\* What a step may do to the certificates: store a verifiable one where there
\* is none for another digest, or lose those of a truncated file.
CertificateMoves(q, s) ==
    \/ certificates'[q][s] = certificates[q][s]
    \/ /\ certificates[q][s] \in {None, certificates'[q][s]}
       /\ \E v \in Views : Certified(msgs', v, s, certificates'[q][s])
    \/ q \in Amnesic /\ certificates'[q][s] = None

\* A block written has a COMMIT quorum.
BookMoves(q) ==
    \/ tip'[q] = tip[q]
    \/ \E v \in Views : Certified(msgs', v, Index[tip'[q]], tip'[q])

\* Replica r stores a verifiable certificate, unless it has one for another
\* digest.
Stores(r, v, s, d) ==
    /\ FinalizedDigest(r, s) \in {None, d}
    /\ Certified(msgs', v, s, d)
    /\ certificates' = [certificates EXCEPT ![r][s] = d]

\* Certificates and tips move by these steps only.
LEMMA CertificateStep ==
    ASSUME TypeOK, NEW r \in Honest, Step(r)
    PROVE  /\ msgs \subseteq msgs'
           /\ \A q \in Replica, s \in Seqs : CertificateMoves(q, s)
           /\ \A q \in Replica : BookMoves(q)
<1> r \in Replica
    BY DEF Honest
<1>0. /\ certificates \in [Replica -> [Seqs -> Block \cup {None}]]
      /\ tip \in [Replica -> Block \cup {None}]
      /\ view \in [Replica -> Views]
    BY DEF TypeOK
<1>1. ASSUME UNCHANGED <<certificates, tip>>
      PROVE  /\ \A q \in Replica, s \in Seqs : CertificateMoves(q, s)
             /\ \A q \in Replica : BookMoves(q)
    BY <1>1 DEF CertificateMoves, BookMoves
<1>2. ASSUME NEW v \in Views, NEW s \in Seqs, NEW d, Stores(r, v, s, d), UNCHANGED tip
      PROVE  /\ \A q \in Replica, i \in Seqs : CertificateMoves(q, i)
             /\ \A q \in Replica : BookMoves(q)
    <2>1. ASSUME NEW q \in Replica, NEW i \in Seqs PROVE CertificateMoves(q, i)
        <3>1. CASE q = r /\ i = s
            <4>1. certificates'[q][i] = d
                BY <1>0, <1>2, <3>1 DEF Stores
            <4> QED
                BY <1>2, <3>1, <4>1 DEF CertificateMoves, FinalizedDigest, Stores
        <3>2. CASE q # r \/ i # s
            <4>1. certificates'[q][i] = certificates[q][i]
                BY <1>0, <1>2, <3>2 DEF Stores
            <4> QED
                BY <4>1 DEF CertificateMoves
        <3> QED
            BY <3>1, <3>2
    <2> QED
        BY <1>2, <2>1 DEF BookMoves
<1>3. ASSUME NEW v \in Views, NEW s \in Seqs, NEW d, Certifies(r, v, s, d), UNCHANGED tip
      PROVE  /\ \A q \in Replica, i \in Seqs : CertificateMoves(q, i)
             /\ \A q \in Replica : BookMoves(q)
    <2>1. Stores(r, v, s, d)
        BY <1>3 DEF Certifies, Certified, Stores
    <2> QED
        BY <1>2, <1>3, <2>1
<1>4. ASSUME NEW b \in Block, EmitPrePrepare(r, b) \/ AcceptPrePrepare(r, b)
      PROVE  msgs \subseteq msgs' /\ UNCHANGED <<certificates, tip>>
    BY <1>4 DEF EmitPrePrepare, AcceptPrePrepare
<1>5. ASSUME NEW s \in Seqs, SignPrepare(r, s) \/ ReceivePrepare(r, s)
      PROVE  msgs \subseteq msgs' /\ UNCHANGED <<certificates, tip>>
    BY <1>5 DEF SignPrepare, ReceivePrepare
<1>6. ASSUME NEW v \in Views, NEW s \in Seqs, SignCommit(r, v, s)
      PROVE  /\ msgs \subseteq msgs'
             /\ \A q \in Replica, i \in Seqs : CertificateMoves(q, i)
             /\ \A q \in Replica : BookMoves(q)
    <2>1. msgs \subseteq msgs' /\ UNCHANGED tip
        BY <1>6 DEF SignCommit
    <2>2. UNCHANGED certificates \/ Certifies(r, v, s, prepared[r][<<v, s>>])
        BY <1>6 DEF SignCommit
    <2> QED
        BY <1>1, <1>3, <2>1, <2>2
<1>7. ASSUME NEW s \in Seqs, ReceiveCommit(r, s)
      PROVE  /\ msgs \subseteq msgs'
             /\ \A q \in Replica, i \in Seqs : CertificateMoves(q, i)
             /\ \A q \in Replica : BookMoves(q)
    <2>1. /\ msgs' = msgs /\ UNCHANGED tip /\ view[r] \in Views
          /\ Certifies(r, view[r], s, prepared[r][<<view[r], s>>])
        BY <1>0, <1>7 DEF ReceiveCommit
    <2> QED
        BY <1>3, <2>1
<1>8. ASSUME NEW v \in Views, NEW b \in Block, InstallCertificate(r, v, b)
      PROVE  /\ msgs \subseteq msgs'
             /\ \A q \in Replica, i \in Seqs : CertificateMoves(q, i)
             /\ \A q \in Replica : BookMoves(q)
    <2>1. PICK s \in Seqs :
             /\ ValidCertificate(v, s, b)
             /\ FinalizedDigest(r, s) \in {None, b}
             /\ certificates' = [certificates EXCEPT ![r][s] = b]
        BY <1>8 DEF InstallCertificate
    <2>2. msgs' = msgs /\ UNCHANGED tip
        BY <1>8 DEF InstallCertificate
    <2>3. Stores(r, v, s, b)
        BY <2>1, <2>2 DEF Stores, Certified, ValidCertificate, Voters
    <2> QED
        BY <1>2, <2>2, <2>3
<1>9. ASSUME NEW v \in Views, NEW b \in Block, WriteCertifiedBlock(r, v, b)
      PROVE  /\ msgs \subseteq msgs'
             /\ \A q \in Replica, i \in Seqs : CertificateMoves(q, i)
             /\ \A q \in Replica : BookMoves(q)
    <2>1. /\ msgs' = msgs /\ certificates' = certificates
          /\ tip' = [tip EXCEPT ![r] = b] /\ ValidCertificate(v, Index[b], b)
        BY <1>9 DEF WriteCertifiedBlock
    <2>2. Certified(msgs', v, Index[b], b)
        BY <2>1 DEF Certified, ValidCertificate, Voters
    <2>3. \A q \in Replica : tip'[q] = tip[q] \/ tip'[q] = b
        BY <1>0, <2>1
    <2>4. \A q \in Replica : BookMoves(q)
        BY <2>2, <2>3 DEF BookMoves
    <2>5. \A q \in Replica, i \in Seqs : CertificateMoves(q, i)
        BY <2>1 DEF CertificateMoves
    <2> QED
        BY <2>1, <2>4, <2>5
<1>10. ASSUME NEW e \in entering[r], EnterView(r, e)
       PROVE  msgs \subseteq msgs' /\ UNCHANGED <<certificates, tip>>
    BY <1>10 DEF EnterView
<1>11. ASSUME Environment(r)
       PROVE  msgs \subseteq msgs' /\ UNCHANGED <<certificates, tip>>
    BY <1>11 DEF Environment, EmitViewChange, EmitViewChange265, EmitNewView,
       InstallNewView, BindPrepared, BindConstraint, Restart
<1>12. ASSUME Truncation(r)
       PROVE  /\ msgs \subseteq msgs'
              /\ \A q \in Replica, i \in Seqs : CertificateMoves(q, i)
              /\ \A q \in Replica : BookMoves(q)
    <2>1. /\ UNCHANGED <<msgs, tip>> /\ r \in Amnesic
          /\ \/ certificates' = [certificates EXCEPT ![r] = [s \in Seqs |-> None]]
             \/ UNCHANGED certificates
        BY <1>12 DEF Truncation, RestartTruncated, RestartViewLost, Amnesic
    <2>2. ASSUME NEW q \in Replica, NEW i \in Seqs PROVE CertificateMoves(q, i)
        BY <1>0, <2>1 DEF CertificateMoves
    <2> QED
        BY <2>1, <2>2 DEF BookMoves
<1> QED
    BY <1>1, <1>4, <1>5, <1>6, <1>7, <1>8, <1>9, <1>10, <1>11, <1>12 DEF Step

LEMMA BookStep == ASSUME BookInv, NEW r \in Honest, Step(r) PROVE BookInv'
<1>1. TypeOK /\ TypeOK'
    BY TypeStep DEF BookInv
<1>2. /\ msgs \subseteq msgs'
      /\ \A q \in Replica, s \in Seqs : CertificateMoves(q, s)
      /\ \A q \in Replica : BookMoves(q)
    BY <1>1, CertificateStep
<1>3. ASSUME NEW q \in Replica, NEW s \in Seqs, certificates'[q][s] # None
      PROVE  \E v \in Views : Certified(msgs', v, s, certificates'[q][s])
    <2>1. CASE certificates'[q][s] = certificates[q][s]
        <3>1. PICK v \in Views : Certified(msgs, v, s, certificates[q][s])
            BY <1>3, <2>1 DEF BookInv
        <3> QED
            BY <1>2, <2>1, <3>1, CertifiedKept
    <2> QED
        BY <1>2, <1>3, <2>1 DEF CertificateMoves
<1>4. ASSUME NEW q \in Replica, tip'[q] # None
      PROVE  \E v \in Views : Certified(msgs', v, Index[tip'[q]], tip'[q])
    <2>1. CASE tip'[q] = tip[q]
        <3>1. PICK v \in Views : Certified(msgs, v, Index[tip[q]], tip[q])
            BY <1>4, <2>1 DEF BookInv
        <3> QED
            BY <1>2, <2>1, <3>1, CertifiedKept
    <2> QED
        BY <1>2, <2>1 DEF BookMoves
<1> QED
    BY <1>1, <1>3, <1>4 DEF BookInv

LEMMA BookMatchesFromInv ==
    ASSUME BookInv
    PROVE  BookFollowsCertificates
<1> SUFFICES ASSUME CertificatesAgree, NEW r \in Honest, tip[r] # None,
                    certificates[r][Index[tip[r]]] # None
             PROVE  certificates[r][Index[tip[r]]] = tip[r]
    BY DEF BookFollowsCertificates
<1>1. r \in Replica /\ tip[r] \in Block /\ Index[tip[r]] \in Seqs
    BY IndexIsSeq DEF Honest, BookInv, TypeOK
<1>2. certificates[r][Index[tip[r]]] \in Block
    BY <1>1 DEF BookInv, TypeOK
<1>3. PICK v \in Views : Certified(msgs, v, Index[tip[r]], tip[r])
    BY <1>1 DEF BookInv
<1>4. PICK w \in Views :
         Certified(msgs, w, Index[tip[r]], certificates[r][Index[tip[r]]])
    BY <1>1 DEF BookInv
<1> QED
    BY <1>1, <1>2, <1>3, <1>4
    DEF CertificatesAgree, ValidCertificate, Voters, Certified

\* Whatever is signed, received, installed or lost, BookInv holds (try_build_
\* certificate, install_certificate and the import of a certified block).
THEOREM BookInvariant == VotesSpec => []BookInv
<1>1. VotesInit => BookInv
    BY TypeInit DEF VotesInit, BookInv
<1>2. BookInv /\ [VotesNext]_votesVars => BookInv'
    <2> SUFFICES ASSUME BookInv, [VotesNext]_votesVars PROVE BookInv'
        OBVIOUS
    <2>1. CASE VotesNext
        BY <2>1, StepOfNext, BookStep
    <2>2. CASE UNCHANGED votesVars
        BY <2>2 DEF votesVars, BookInv, TypeOK, Certified
    <2> QED
        BY <2>1, <2>2
<1> QED
    BY <1>1, <1>2, PTL DEF VotesSpec

\* Whatever the order in which book and certificate are written, in whatever
\* views, they name the same hash unless two verifiable certificates name
\* different ones (install_certificate, _store_commit, import_extending_block).
THEOREM BookFollows == VotesSpec => []BookFollowsCertificates
<1>1. BookInv => BookFollowsCertificates
    BY BookMatchesFromInv
<1> QED
    BY <1>1, BookInvariant, PTL

\* A certificate once stored stays, whatever is signed, received or installed later;
\* only a truncated file loses it (install_certificate, _store_commit).
THEOREM CertificatesStay == VotesSpec => CertifiedIndexKept
<1>1. TypeOK /\ [VotesNext]_votesVars =>
         [\A r \in Honest, s \in Seqs :
            \/ certificates[r][s] = None
            \/ certificates'[r][s] = certificates[r][s]
            \/ r \in Amnesic /\ certificates'[r][s] = None]_votesVars
    <2> SUFFICES ASSUME TypeOK, VotesNext
                 PROVE  \A r \in Honest, s \in Seqs :
                           \/ certificates[r][s] = None
                           \/ certificates'[r][s] = certificates[r][s]
                           \/ r \in Amnesic /\ certificates'[r][s] = None
        OBVIOUS
    <2>1. PICK r \in Honest : Step(r)
        BY StepOfNext
    <2> QED
        BY <2>1, CertificateStep DEF CertificateMoves, Honest
<1> QED
    BY <1>1, TypeCorrect, PTL DEF VotesSpec, CertifiedIndexKept
-----------------------------------------------------------------------------
(* What is prepared is held.                                               *)

\* The rows of /pbft/view-change-265 and the requests to bind a prepared value
\* are left out, as every call made by the nodes themselves leaves them out:
\* they serve an operator, who may then bind one value after another.
NobodyClaims ==
    /\ \A r \in Honest : Routes[r] \cap {"view-change-265", "bind-prepared"} = {}
    /\ \A m \in FaultySends : m.kind # "view-change-265"

\* Nothing was claimed, so enter_view binds only what its replica prepared.
NothingClaimed ==
    /\ \A m \in msgs : m.kind # "view-change-265"
    /\ \A r \in Replica : \A e \in entering[r] : e.rows = {}

\* Replicas whose files no crash truncates.
Keeping == Replica \ Amnesic

BindsOwn(r) ==
    mustRepropose[r] # None =>
        mustRepropose[r].digest \in PreparedDigests(r, mustRepropose[r].seq)

BoundIsOwn == \A r \in Keeping : BindsOwn(r)

\* The slots a replica has used are of the views it was in; what it prepared
\* in its view is what it locked there.
UsedSlots ==
    \A r \in Keeping, v \in Views, s \in Seqs :
        /\ accepted[r][<<v, s>>] # None \/ prepared[r][<<v, s>>] # None => v <= view[r]
        /\ prepared[r][<<view[r], s>>] \in {None, accepted[r][<<view[r], s>>]}

\* The lock of the current view is on the one digest that is prepared.
LockHeld ==
    \A r \in Keeping, s \in Seqs, d \in Block :
        /\ certificates[r][s] = None
        /\ PreparedDigests(r, s) = {d}
        => accepted[r][<<view[r], s>>] \in {None, d}

HeldInv ==
    /\ TypeOK
    /\ EnteringBelow
    /\ NothingClaimed
    /\ BoundIsOwn
    /\ UsedSlots
    /\ LockHeld

LEMMA HeldStart == VotesInit => HeldInv
<1> SUFFICES ASSUME VotesInit PROVE HeldInv
    OBVIOUS
<1>1. 0 \in Views
    BY MembershipAssumption DEF Views
<1>2. \A r \in Replica, v \in Views, s \in Seqs :
         accepted[r][<<v, s>>] = None /\ prepared[r][<<v, s>>] = None
    BY DEF VotesInit, Slot
<1> QED
    BY <1>1, <1>2, TypeInit DEF VotesInit, HeldInv, EnteringBelow, NothingClaimed,
       BoundIsOwn, BindsOwn, UsedSlots, LockHeld, Keeping

\* The digests a table of slots holds at an index.
Column(t, i) == {t[<<v, i>>] : v \in Views} \ {None}

LEMMA SameColumn ==
    ASSUME NEW t, NEW u, NEW i, \A v \in Views : t[<<v, i>>] = u[<<v, i>>]
    PROVE  Column(t, i) = Column(u, i)
BY DEF Column

\* What is prepared at an index is a digest of one of its slots.
LEMMA PreparedAt ==
    ASSUME TypeOK, NEW r \in Replica, NEW s \in Seqs, NEW v \in Views,
           prepared[r][<<v, s>>] # None
    PROVE  prepared[r][<<v, s>>] \in PreparedDigests(r, s)
BY DEF PreparedDigests

\* A step that touches no slot, no view, no certificate and no constraint of a
\* replica that keeps its files, but to certify an index or drop a constraint.
LEMMA HeldQuiet ==
    ASSUME HeldInv, TypeOK', EnteringBelow', NobodyClaims, NothingClaimed',
           \A q \in Keeping : /\ view'[q] = view[q] /\ accepted'[q] = accepted[q]
                              /\ prepared'[q] = prepared[q]
                              /\ mustRepropose'[q] \in {None, mustRepropose[q]},
           \A q \in Keeping, i \in Seqs :
               certificates'[q][i] = None => certificates[q][i] = None
    PROVE  HeldInv'
<1>2. \A q \in Keeping, i \in Seqs : PreparedDigests(q, i)' = PreparedDigests(q, i)
    <2> SUFFICES ASSUME NEW q \in Keeping, NEW i \in Seqs
                 PROVE  PreparedDigests(q, i)' = PreparedDigests(q, i)
        OBVIOUS
    <2>1. \A v \in Views : prepared'[q][<<v, i>>] = prepared[q][<<v, i>>]
        OBVIOUS
    <2> QED
        BY <2>1, SameColumn DEF PreparedDigests, Column
<1>3. BoundIsOwn'
    <2> SUFFICES ASSUME NEW q \in Keeping, mustRepropose'[q] # None PROVE BindsOwn(q)'
        BY DEF BoundIsOwn, BindsOwn
    <2>1. mustRepropose'[q] = mustRepropose[q] /\ BindsOwn(q)
        BY DEF HeldInv, BoundIsOwn
    <2> QED
        BY <2>1 DEF BindsOwn, PreparedDigests
<1>4. UsedSlots'
    <2> SUFFICES ASSUME NEW q \in Keeping, NEW v \in Views, NEW i \in Seqs
                 PROVE  /\ accepted'[q][<<v, i>>] # None \/ prepared'[q][<<v, i>>] # None
                              => v <= view'[q]
                        /\ prepared'[q][<<view'[q], i>>] \in {None, accepted'[q][<<view'[q], i>>]}
        BY DEF UsedSlots
    <2> QED
        BY DEF HeldInv, UsedSlots
<1>5. LockHeld'
    BY <1>2 DEF HeldInv, LockHeld
<1> QED
    BY <1>3, <1>4, <1>5 DEF HeldInv

\* Whatever is served, nobody claims a prepared value for another.
LEMMA NothingStep ==
    ASSUME TypeOK, NothingClaimed, NobodyClaims, NEW r \in Honest, Step(r)
    PROVE  NothingClaimed'
<1> r \in Replica
    BY DEF Honest
<1>1. ASSUME NEW v \in Views, NEW rows \in CallerRows,
             EmitNewView(r, v, rows) \/ InstallNewView(r, v, rows)
      PROVE  NothingClaimed'
    <2>1. rows = {}
        <3>1. rows \subseteq {m \in msgs \cup FaultySends : m.kind = "view-change-265"}
            BY DEF CallerRows
        <3> QED
            BY <3>1 DEF NobodyClaims, NothingClaimed
    <2>2. EnterLater(r, v, rows) /\ \A m \in msgs' \ msgs : m.kind = "new-view"
        BY <1>1 DEF EmitNewView, InstallNewView
    <2>3. \A q \in Replica : \A e \in entering'[q] : e \in entering[q] \/ e.rows = {}
        BY <2>1, <2>2 DEF EnterLater, TypeOK
    <2> QED
        BY <2>2, <2>3 DEF NothingClaimed
<1>2. ASSUME \A m \in msgs' \ msgs : m.kind # "view-change-265",
             \A q \in Replica : entering'[q] \subseteq entering[q]
      PROVE  NothingClaimed'
    BY <1>2 DEF NothingClaimed
<1>3. ASSUME NEW b \in Block, EmitPrePrepare(r, b) \/ AcceptPrePrepare(r, b)
      PROVE  NothingClaimed'
    BY <1>2, <1>3 DEF EmitPrePrepare, AcceptPrePrepare, Row
<1>4. ASSUME NEW s \in Seqs, SignPrepare(r, s) \/ ReceivePrepare(r, s) \/ ReceiveCommit(r, s)
      PROVE  NothingClaimed'
    BY <1>2, <1>4 DEF SignPrepare, ReceivePrepare, ReceiveCommit, Row
<1>5. ASSUME NEW v \in Views, NEW s \in Seqs, SignCommit(r, v, s)
      PROVE  NothingClaimed'
    BY <1>2, <1>5 DEF SignCommit, Row
<1>6. ASSUME NEW v \in Views, NEW b \in Block,
             InstallCertificate(r, v, b) \/ WriteCertifiedBlock(r, v, b)
      PROVE  NothingClaimed'
    BY <1>2, <1>6 DEF InstallCertificate, WriteCertifiedBlock
<1>7. ASSUME NEW e \in entering[r], EnterView(r, e)
      PROVE  NothingClaimed'
    BY <1>2, <1>7 DEF EnterView, TypeOK
<1>8. ASSUME NEW v \in Views, EmitViewChange(r, v)
      PROVE  NothingClaimed'
    BY <1>2, <1>8 DEF EmitViewChange
<1>9. ASSUME Restart(r) \/ RestartTruncated(r) \/ RestartViewLost(r)
      PROVE  NothingClaimed'
    BY <1>2, <1>9 DEF Restart, RestartTruncated, RestartViewLost, TypeOK
<1> QED
    BY <1>1, <1>3, <1>4, <1>5, <1>6, <1>7, <1>8, <1>9
    DEF Step, Environment, Truncation, NobodyClaims

\* A request writes the tables of the replica that serves it only.
LEMMA StepIsLocal ==
    ASSUME TypeOK, NEW r \in Honest, Step(r), NEW q \in Replica, q # r
    PROVE  /\ view'[q] = view[q] /\ accepted'[q] = accepted[q]
           /\ prepared'[q] = prepared[q] /\ certificates'[q] = certificates[q]
           /\ mustRepropose'[q] = mustRepropose[q]
<1> DEFINE Same == /\ view'[q] = view[q] /\ accepted'[q] = accepted[q]
                   /\ prepared'[q] = prepared[q] /\ certificates'[q] = certificates[q]
                   /\ mustRepropose'[q] = mustRepropose[q]
<1> USE DEF TypeOK
<1>1. ASSUME NEW b \in Block, EmitPrePrepare(r, b) \/ AcceptPrePrepare(r, b) PROVE Same
    BY <1>1 DEF EmitPrePrepare, AcceptPrePrepare, Accept
<1>2. ASSUME NEW s \in Seqs, SignPrepare(r, s) \/ ReceivePrepare(r, s) PROVE Same
    BY <1>2 DEF SignPrepare, ReceivePrepare, BecomesPrepared
<1>3. ASSUME NEW v \in Views, NEW s \in Seqs, SignCommit(r, v, s) PROVE Same
    BY <1>3 DEF SignCommit, Certifies
<1>4. ASSUME NEW s \in Seqs, ReceiveCommit(r, s) PROVE Same
    BY <1>4 DEF ReceiveCommit, Certifies
<1>5. ASSUME NEW v \in Views, NEW b \in Block,
             InstallCertificate(r, v, b) \/ WriteCertifiedBlock(r, v, b)
      PROVE  Same
    BY <1>5 DEF InstallCertificate, WriteCertifiedBlock
<1>6. ASSUME NEW e \in entering[r], EnterView(r, e) PROVE Same
    BY <1>6 DEF EnterView, BindConstraint
<1>7. ASSUME NEW v \in Views, EmitViewChange(r, v) \/ EmitViewChange265(r, v) PROVE Same
    BY <1>7 DEF EmitViewChange, EmitViewChange265
<1>8. ASSUME NEW v \in Views, NEW rows, EmitNewView(r, v, rows) \/ InstallNewView(r, v, rows)
      PROVE  Same
    BY <1>8 DEF EmitNewView, InstallNewView
<1>9. ASSUME NEW c \in PCert, BindPrepared(r, c) PROVE Same
    BY <1>9 DEF BindPrepared, BindConstraint
<1>10. ASSUME Restart(r) \/ RestartTruncated(r) \/ RestartViewLost(r) PROVE Same
    BY <1>10 DEF Restart, RestartTruncated, RestartViewLost
<1> QED
    BY <1>1, <1>2, <1>3, <1>4, <1>5, <1>6, <1>7, <1>8, <1>9, <1>10
    DEF Step, Environment, Truncation

\* A replica whose one prepared digest is not certified may accept no other.
LEMMA MayAcceptHeld ==
    ASSUME HeldInv, NEW r \in Keeping, NEW s \in Seqs, NEW b \in Block, NEW d \in Block,
           MayAccept(r, s, b), certificates[r][s] = None, PreparedDigests(r, s) = {d}
    PROVE  b = d
<1> USE DEF Keeping
<1>1. UncommittedPreparedDigest(r, s) = d
  <2>1. \A e \in Block : PreparedDigests(r, s) = {e} <=> e = d
    OBVIOUS
  <2> QED
    BY <2>1 DEF UncommittedPreparedDigest, FinalizedDigest
<1>2. mustRepropose[r] # None /\ mustRepropose[r].seq = s => mustRepropose[r].digest = d
    BY DEF HeldInv, BoundIsOwn, BindsOwn
<1>3. MustDigest(r, s) = d
    BY <1>1, <1>2 DEF MustDigest
<1> QED
    BY <1>3, BlockAssumption DEF MayAccept

LEMMA HeldAccept ==
    ASSUME HeldInv, TypeOK', EnteringBelow', NEW r \in Keeping, NEW b \in Block,
           MayAccept(r, Index[b], b), Accept(r, view[r], Index[b], b),
           \A m \in msgs' \ msgs : m.kind # "view-change-265",
           UNCHANGED <<view, prepared, certificates, mustRepropose, entering>>
    PROVE  HeldInv'
<1> USE DEF Keeping
<1> DEFINE s == Index[b]
<1>0. s \in Seqs /\ view[r] \in Views /\ b # None
    BY IndexIsSeq, BlockAssumption DEF HeldInv, TypeOK
<1>1. \A q \in Replica, v \in Views, i \in Seqs :
         accepted'[q][<<v, i>>] = IF q = r /\ v = view[r] /\ i = s THEN b
                                  ELSE accepted[q][<<v, i>>]
    BY <1>0 DEF Accept, HeldInv, TypeOK, Slot
<1>2. \A q \in Replica, i \in Seqs : PreparedDigests(q, i)' = PreparedDigests(q, i)
    BY DEF PreparedDigests
<1>3. NothingClaimed'
    BY DEF HeldInv, NothingClaimed
<1>4. BoundIsOwn'
    BY DEF HeldInv, BoundIsOwn, BindsOwn, PreparedDigests
<1>5. accepted[r][<<view[r], s>>] \in {None, b}
    BY DEF MayAccept
<1>6. \A q \in Replica : view[q] \in Views /\ view[q] <= view[q]
    BY MembershipAssumption DEF HeldInv, TypeOK, Views
<1>7. UsedSlots'
    <2> SUFFICES ASSUME NEW q \in Keeping, NEW v \in Views, NEW i \in Seqs
                 PROVE  /\ accepted'[q][<<v, i>>] # None \/ prepared[q][<<v, i>>] # None
                              => v <= view[q]
                        /\ prepared[q][<<view[q], i>>] \in {None, accepted'[q][<<view[q], i>>]}
        BY DEF UsedSlots
    <2>1. CASE q = r /\ i = s
        BY <1>1, <1>5, <1>6, <2>1 DEF HeldInv, UsedSlots
    <2>2. CASE ~(q = r /\ i = s)
        BY <1>1, <1>6, <2>2 DEF HeldInv, UsedSlots
    <2> QED
        BY <2>1, <2>2
<1>8. LockHeld'
    <2> SUFFICES ASSUME NEW q \in Keeping, NEW i \in Seqs, NEW d \in Block,
                        certificates[q][i] = None, PreparedDigests(q, i) = {d}
                 PROVE  accepted'[q][<<view[q], i>>] \in {None, d}
        BY <1>2 DEF LockHeld
    <2>1. CASE q = r /\ i = s
        BY <1>1, <1>6, <2>1, MayAcceptHeld
    <2>2. CASE ~(q = r /\ i = s)
        BY <1>1, <1>6, <2>2 DEF HeldInv, LockHeld
    <2> QED
        BY <2>1, <2>2
<1> QED
    BY <1>3, <1>4, <1>7, <1>8 DEF HeldInv

\* A slot becomes prepared on what is locked in it.
LEMMA HeldPrepared ==
    ASSUME HeldInv, TypeOK', EnteringBelow', NEW r \in Keeping, NEW s \in Seqs, NEW a \in Block,
           a = accepted[r][<<view[r], s>>],
           prepared' = [prepared EXCEPT ![r][<<view[r], s>>] = a],
           \A m \in msgs' \ msgs : m.kind # "view-change-265",
           UNCHANGED <<view, accepted, certificates, mustRepropose, entering>>
    PROVE  HeldInv'
<1> USE DEF Keeping
<1>0. view[r] \in Views /\ a # None
    BY BlockAssumption DEF HeldInv, TypeOK
<1>1. \A q \in Replica, v \in Views, i \in Seqs :
         prepared'[q][<<v, i>>] = IF q = r /\ v = view[r] /\ i = s THEN a
                                  ELSE prepared[q][<<v, i>>]
    BY <1>0 DEF HeldInv, TypeOK, Slot
<1>2. prepared[r][<<view[r], s>>] \in {None, a}
    BY <1>0 DEF HeldInv, UsedSlots
<1>3. \A q \in Replica, i \in Seqs :
         PreparedDigests(q, i)' = PreparedDigests(q, i) \cup (IF q = r /\ i = s THEN {a} ELSE {})
    <2> SUFFICES ASSUME NEW q \in Replica, NEW i \in Seqs
                 PROVE  PreparedDigests(q, i)' =
                          PreparedDigests(q, i) \cup (IF q = r /\ i = s THEN {a} ELSE {})
        OBVIOUS
    <2>1. CASE ~(q = r /\ i = s)
        <3>1. \A v \in Views : prepared[q][<<v, i>>] = prepared'[q][<<v, i>>]
            BY <1>1, <2>1
        <3>2. PreparedDigests(q, i)' = PreparedDigests(q, i)
            BY <3>1, SameColumn DEF PreparedDigests, Column
        <3> QED
            BY <2>1, <3>2
    <2>2. CASE q = r /\ i = s
        <3>1. /\ prepared'[q][<<view[r], i>>] = a /\ prepared[q][<<view[r], i>>] \in {None, a}
              /\ \A v \in Views : v # view[r] => prepared[q][<<v, i>>] = prepared'[q][<<v, i>>]
            BY <1>0, <1>1, <1>2, <2>2
        <3>2. ASSUME NEW x \in PreparedDigests(q, i)' PROVE x \in PreparedDigests(q, i) \cup {a}
            BY <3>1 DEF PreparedDigests
        <3>3. ASSUME NEW x \in PreparedDigests(q, i) PROVE x \in PreparedDigests(q, i)'
            <4>1. PICK v \in Views : prepared[q][<<v, i>>] = x /\ x # None
                BY DEF PreparedDigests
            <4>2. prepared'[q][<<v, i>>] = x
                BY <3>1, <4>1
            <4> QED
                BY <4>1, <4>2 DEF PreparedDigests
        <3>4. a \in PreparedDigests(q, i)'
            BY <1>0, <3>1 DEF PreparedDigests
        <3> QED
            BY <2>2, <3>2, <3>3, <3>4
    <2> QED
        BY <2>1, <2>2
<1>4. NothingClaimed'
    BY DEF HeldInv, NothingClaimed
<1>5. BoundIsOwn'
    <2> SUFFICES ASSUME NEW q \in Keeping, mustRepropose[q] # None PROVE BindsOwn(q)'
        BY DEF BoundIsOwn, BindsOwn
    <2> DEFINE i == mustRepropose[q].seq
    <2>1. i \in Seqs /\ mustRepropose[q].digest \in PreparedDigests(q, i)
        BY DEF HeldInv, TypeOK, Constraint, BoundIsOwn, BindsOwn
    <2>2. mustRepropose[q].digest \in PreparedDigests(q, i)'
        BY <1>3, <2>1
    <2> QED
        BY <2>2 DEF BindsOwn, PreparedDigests
<1>6. \A q \in Replica : view[q] \in Views /\ view[q] <= view[q]
    BY MembershipAssumption DEF HeldInv, TypeOK, Views
<1>7. UsedSlots'
    <2> SUFFICES ASSUME NEW q \in Keeping, NEW v \in Views, NEW i \in Seqs
                 PROVE  /\ accepted[q][<<v, i>>] # None \/ prepared'[q][<<v, i>>] # None
                              => v <= view[q]
                        /\ prepared'[q][<<view[q], i>>] \in {None, accepted[q][<<view[q], i>>]}
        BY DEF UsedSlots
    <2>1. /\ accepted[q][<<v, i>>] # None \/ prepared[q][<<v, i>>] # None => v <= view[q]
          /\ prepared[q][<<view[q], i>>] \in {None, accepted[q][<<view[q], i>>]}
        BY DEF HeldInv, UsedSlots
    <2> QED
        BY <1>1, <1>6, <2>1
<1>8. LockHeld'
    <2> SUFFICES ASSUME NEW q \in Keeping, NEW i \in Seqs, NEW d \in Block,
                        certificates[q][i] = None, PreparedDigests(q, i)' = {d}
                 PROVE  accepted[q][<<view[q], i>>] \in {None, d}
        BY DEF LockHeld
    <2>1. CASE q = r /\ i = s
        BY <1>3, <2>1
    <2>2. CASE ~(q = r /\ i = s)
        BY <1>3, <2>2 DEF HeldInv, LockHeld
    <2> QED
        BY <2>1, <2>2
<1> QED
    BY <1>4, <1>5, <1>7, <1>8 DEF HeldInv

\* A replica enters a later view with no slot of it used.
LEMMA HeldView ==
    ASSUME HeldInv, TypeOK', EnteringBelow', NEW r \in Keeping, NEW v \in Views,
           v > view[r], view' = [view EXCEPT ![r] = v],
           \A m \in msgs' \ msgs : m.kind # "view-change-265",
           \A q \in Replica : \A e \in entering'[q] : e \in entering[q] \/ e.rows = {},
           UNCHANGED <<accepted, prepared, certificates, mustRepropose>>
    PROVE  HeldInv'
<1> USE DEF Keeping
<1>1. \A q \in Replica : view[q] \in Nat
    BY MembershipAssumption DEF HeldInv, TypeOK, Views
<1>2. \A q \in Replica : view'[q] = IF q = r THEN v ELSE view[q]
    BY DEF HeldInv, TypeOK
<1>3. v \in Nat /\ Views \subseteq Nat
    BY MembershipAssumption DEF Views
<1>4. \A i \in Seqs : accepted[r][<<v, i>>] = None /\ prepared[r][<<v, i>>] = None
    <2> SUFFICES ASSUME NEW i \in Seqs
                 PROVE  accepted[r][<<v, i>>] = None /\ prepared[r][<<v, i>>] = None
        OBVIOUS
    <2>1. accepted[r][<<v, i>>] # None \/ prepared[r][<<v, i>>] # None => v <= view[r]
        BY DEF HeldInv, UsedSlots
    <2> QED
        BY <1>1, <1>3, <2>1
<1>5. \A q \in Replica, i \in Seqs : PreparedDigests(q, i)' = PreparedDigests(q, i)
    BY DEF PreparedDigests
<1>6. NothingClaimed'
    BY DEF HeldInv, NothingClaimed
<1>7. BoundIsOwn'
    BY DEF HeldInv, BoundIsOwn, BindsOwn, PreparedDigests
<1>8. UsedSlots'
    <2> SUFFICES ASSUME NEW q \in Keeping, NEW w \in Views, NEW i \in Seqs
                 PROVE  /\ accepted[q][<<w, i>>] # None \/ prepared[q][<<w, i>>] # None
                              => w <= view'[q]
                        /\ prepared[q][<<view'[q], i>>] \in {None, accepted[q][<<view'[q], i>>]}
        BY DEF UsedSlots
    <2>1. CASE q = r
        <3>1. accepted[q][<<w, i>>] # None \/ prepared[q][<<w, i>>] # None => w <= view[q]
            BY DEF HeldInv, UsedSlots
        <3> QED
            BY <1>1, <1>2, <1>3, <1>4, <2>1, <3>1
    <2>2. CASE q # r
        BY <1>2, <2>2 DEF HeldInv, UsedSlots
    <2> QED
        BY <2>1, <2>2
<1>9. LockHeld'
    <2> SUFFICES ASSUME NEW q \in Keeping, NEW i \in Seqs, NEW d \in Block,
                        certificates[q][i] = None, PreparedDigests(q, i) = {d}
                 PROVE  accepted[q][<<view'[q], i>>] \in {None, d}
        BY <1>5 DEF LockHeld
    <2> QED
        BY <1>2, <1>4 DEF HeldInv, LockHeld
<1> QED
    BY <1>6, <1>7, <1>8, <1>9 DEF HeldInv

\* Nobody having claimed anything, enter_view binds what its own replica prepared.
LEMMA HeldEnter ==
    ASSUME HeldInv, TypeOK', EnteringBelow', NEW r \in Keeping, NEW e \in entering[r],
           EnterView(r, e)
    PROVE  HeldInv'
<1> USE DEF Keeping
<1>1. e.rows = {} /\ e.view \in Views /\ e.view <= view[r] /\ view[r] \in Views
    BY DEF HeldInv, NothingClaimed, EnteringBelow, TypeOK
<1>2. Chosen(r, e.rows) = LocalPending(r)
    BY <1>1 DEF Chosen, Claimed
<1>3. \A q \in Replica, v \in Views, i \in Seqs :
         accepted'[q][<<v, i>>] = IF q = r /\ v < e.view THEN None ELSE accepted[q][<<v, i>>]
    BY DEF EnterView, HeldInv, TypeOK, Slot
<1>4. \A q \in Replica : \A x \in Views : x <= view[q] => x \in Nat /\ view[q] \in Nat
    BY MembershipAssumption DEF HeldInv, TypeOK, Views
<1>5. \A q \in Replica, i \in Seqs : accepted'[q][<<view[q], i>>] = accepted[q][<<view[q], i>>]
    <2> SUFFICES ASSUME NEW q \in Replica, NEW i \in Seqs
                 PROVE  accepted'[q][<<view[q], i>>] = accepted[q][<<view[q], i>>]
        OBVIOUS
    <2>1. view[q] \in Views /\ (q = r => ~(view[q] < e.view))
        BY <1>1, <1>4 DEF HeldInv, TypeOK
    <2> QED
        BY <1>3, <2>1
<1>6. \A q \in Replica, i \in Seqs : PreparedDigests(q, i)' = PreparedDigests(q, i)
    BY DEF PreparedDigests, EnterView
<1>7. NothingClaimed'
    BY DEF HeldInv, NothingClaimed, EnterView, TypeOK
<1>8. BoundIsOwn'
    <2> SUFFICES ASSUME NEW q \in Keeping, mustRepropose'[q] # None PROVE BindsOwn(q)'
        BY DEF BoundIsOwn, BindsOwn
    <2>0. prepared' = prepared
        BY DEF EnterView
    <2>1. CASE mustRepropose'[q] = mustRepropose[q]
        BY <2>0, <2>1 DEF HeldInv, BoundIsOwn, BindsOwn, PreparedDigests
    <2>2. CASE mustRepropose'[q] # mustRepropose[q]
        <3>0. PICK c \in LocalPending(r) :
                 mustRepropose' = [mustRepropose EXCEPT ![r] =
                                      [seq |-> c.seq, digest |-> c.digest]]
            BY <1>2, <2>2 DEF EnterView, BindConstraint
        <3>1. q = r /\ mustRepropose'[q] = [seq |-> c.seq, digest |-> c.digest]
            BY <2>2, <3>0 DEF HeldInv, TypeOK
        <3>2. PICK x \in Slot : /\ prepared[r][x] # None
                                /\ mustRepropose'[q] = [seq |-> x[2], digest |-> prepared[r][x]]
            BY <3>1 DEF LocalPending
        <3>3. x = <<x[1], x[2]>> /\ x[1] \in Views /\ x[2] \in Seqs
            BY DEF Slot
        <3>4. prepared[r][<<x[1], x[2]>>] \in PreparedDigests(r, x[2])
            BY <3>2, <3>3, PreparedAt DEF HeldInv
        <3>5. mustRepropose'[q].digest \in PreparedDigests(q, mustRepropose'[q].seq)
            BY <3>1, <3>2, <3>3, <3>4
        <3> QED
            BY <2>0, <3>5 DEF BindsOwn, PreparedDigests
    <2> QED
        BY <2>1, <2>2
<1>9. UsedSlots'
    <2> SUFFICES ASSUME NEW q \in Keeping, NEW v \in Views, NEW i \in Seqs
                 PROVE  /\ accepted'[q][<<v, i>>] # None \/ prepared[q][<<v, i>>] # None
                              => v <= view[q]
                        /\ prepared[q][<<view[q], i>>] \in {None, accepted'[q][<<view[q], i>>]}
        BY DEF UsedSlots, EnterView
    <2> QED
        BY <1>3, <1>5 DEF HeldInv, UsedSlots
<1>10. LockHeld'
    BY <1>5, <1>6 DEF HeldInv, LockHeld, EnterView
<1> QED
    BY <1>7, <1>8, <1>9, <1>10 DEF HeldInv

\* Every request of a replica keeps it.
LEMMA HeldStep ==
    ASSUME HeldInv, NobodyClaims, EnteringBelow', NEW r \in Honest, Step(r)
    PROVE  HeldInv'
<1>a. r \in Replica /\ TypeOK' /\ NothingClaimed'
    BY TypeStep, NothingStep DEF Honest, HeldInv
<1>b. CASE r \in Amnesic
    <2>1. \A q \in Keeping : q \in Replica /\ q # r
        BY <1>b DEF Keeping
    <2>2. \A q \in Keeping : /\ view'[q] = view[q] /\ accepted'[q] = accepted[q]
                             /\ prepared'[q] = prepared[q]
                             /\ certificates'[q] = certificates[q]
                             /\ mustRepropose'[q] = mustRepropose[q]
        BY <2>1, StepIsLocal DEF HeldInv
    <2> QED
        BY <1>a, <2>2, HeldQuiet
<1> SUFFICES ASSUME r \notin Amnesic PROVE HeldInv'
    BY <1>b
<1>0. r \in Replica /\ r \in Keeping /\ TypeOK' /\ NothingClaimed' /\ Keeping \subseteq Replica
    BY <1>a DEF Keeping
<1>1. ASSUME NEW b \in Block, EmitPrePrepare(r, b) \/ AcceptPrePrepare(r, b)
      PROVE  HeldInv'
    <2>1. \A m \in msgs' \ msgs : m.kind # "view-change-265"
        BY <1>1 DEF EmitPrePrepare, AcceptPrePrepare, Row
    <2>2. /\ MayAccept(r, Index[b], b) /\ Accept(r, view[r], Index[b], b)
          /\ UNCHANGED <<view, prepared, certificates, mustRepropose, entering>>
        BY <1>1 DEF EmitPrePrepare, AcceptPrePrepare
    <2> QED
        BY <1>0, <2>1, <2>2, HeldAccept
<1>2. ASSUME NEW s \in Seqs, SignPrepare(r, s) \/ ReceivePrepare(r, s)
      PROVE  HeldInv'
    <2> DEFINE a == accepted[r][<<view[r], s>>]
    <2>1. /\ a # None
          /\ UNCHANGED prepared \/ prepared' = [prepared EXCEPT ![r][<<view[r], s>>] = a]
          /\ UNCHANGED <<view, accepted, certificates, mustRepropose, entering>>
        BY <1>2 DEF SignPrepare, ReceivePrepare, BecomesPrepared
    <2>2. \A m \in msgs' \ msgs : m.kind # "view-change-265"
        BY <1>2 DEF SignPrepare, ReceivePrepare, Row
    <2>3. a \in Block
        BY <1>0, <2>1 DEF HeldInv, TypeOK, Slot
    <2>4. CASE UNCHANGED prepared
        BY <1>0, <2>1, <2>2, <2>4, HeldQuiet
    <2>5. CASE prepared' = [prepared EXCEPT ![r][<<view[r], s>>] = a]
        BY <1>0, <2>1, <2>2, <2>3, <2>5, HeldPrepared
    <2> QED
        BY <2>1, <2>4, <2>5
<1>3. ASSUME NEW v \in Views, NEW s \in Seqs, NEW d, Certifies(r, v, s, d), d # None
      PROVE  \A q \in Replica, i \in Seqs : certificates'[q][i] = None => certificates[q][i] = None
    BY <1>0, <1>3 DEF Certifies, HeldInv, TypeOK
<1>4. ASSUME NEW v \in Views, NEW s \in Seqs, SignCommit(r, v, s)
      PROVE  HeldInv'
    <2>1. /\ UNCHANGED <<view, accepted, prepared, mustRepropose, entering>>
          /\ \A m \in msgs' \ msgs : m.kind # "view-change-265"
        BY <1>4 DEF SignCommit, Row
    <2>2. /\ UNCHANGED certificates \/ Certifies(r, v, s, prepared[r][<<v, s>>])
          /\ prepared[r][<<v, s>>] # None
        BY <1>4 DEF SignCommit
    <2>3. \A q \in Replica, i \in Seqs : certificates'[q][i] = None => certificates[q][i] = None
        BY <1>3, <2>2
    <2> QED
        BY <1>0, <2>1, <2>3, HeldQuiet
<1>5. ASSUME NEW s \in Seqs, ReceiveCommit(r, s)
      PROVE  HeldInv'
    <2>1. /\ UNCHANGED <<view, accepted, prepared, mustRepropose, entering, msgs>>
          /\ Certifies(r, view[r], s, prepared[r][<<view[r], s>>])
          /\ prepared[r][<<view[r], s>>] # None /\ view[r] \in Views
        BY <1>0, <1>5 DEF ReceiveCommit, HeldInv, TypeOK
    <2>2. \A q \in Replica, i \in Seqs : certificates'[q][i] = None => certificates[q][i] = None
        BY <1>3, <2>1
    <2> QED
        BY <1>0, <2>1, <2>2, HeldQuiet
<1>6. ASSUME NEW v \in Views, NEW b \in Block, InstallCertificate(r, v, b)
      PROVE  HeldInv'
    <2>1. PICK s \in Seqs :
             /\ certificates' = [certificates EXCEPT ![r][s] = b]
             /\ mustRepropose' \in {mustRepropose, [mustRepropose EXCEPT ![r] = None]}
        BY <1>6 DEF InstallCertificate
    <2>2. UNCHANGED <<view, accepted, prepared, entering, msgs>>
        BY <1>6 DEF InstallCertificate
    <2>3. \A q \in Replica, i \in Seqs : certificates'[q][i] = None => certificates[q][i] = None
        BY <1>0, <2>1, BlockAssumption DEF HeldInv, TypeOK
    <2>4. \A q \in Replica : mustRepropose'[q] \in {None, mustRepropose[q]}
        BY <1>0, <2>1 DEF HeldInv, TypeOK
    <2> QED
        BY <1>0, <2>2, <2>3, <2>4, HeldQuiet
<1>7. ASSUME NEW v \in Views, NEW b \in Block, WriteCertifiedBlock(r, v, b)
      PROVE  HeldInv'
    BY <1>0, <1>7, HeldQuiet DEF WriteCertifiedBlock
<1>8. ASSUME NEW e \in entering[r], EnterView(r, e)
      PROVE  HeldInv'
    BY <1>0, <1>8, HeldEnter
<1>9. ASSUME NEW v \in Views, EmitViewChange(r, v)
      PROVE  HeldInv'
    <2>1. /\ UNCHANGED <<view, accepted, prepared, certificates, mustRepropose, entering>>
          /\ \A m \in msgs' \ msgs : m.kind # "view-change-265"
        BY <1>9 DEF EmitViewChange
    <2> QED
        BY <1>0, <2>1, HeldQuiet
<1>10. ASSUME NEW v \in Views, NEW rows \in CallerRows,
              EmitNewView(r, v, rows) \/ InstallNewView(r, v, rows)
       PROVE  HeldInv'
    <2>1. rows = {}
        <3>1. rows \subseteq {m \in msgs \cup FaultySends : m.kind = "view-change-265"}
            BY DEF CallerRows
        <3> QED
            BY <3>1 DEF NobodyClaims, HeldInv, NothingClaimed
    <2>2. EnterLater(r, v, rows)
        BY <1>10 DEF EmitNewView, InstallNewView
    <2>3. \A q \in Replica : \A e \in entering'[q] : e \in entering[q] \/ e.rows = {}
        BY <1>0, <2>1, <2>2 DEF EnterLater, HeldInv, TypeOK
    <2>4. /\ UNCHANGED <<accepted, prepared, certificates, mustRepropose>>
          /\ \A m \in msgs' \ msgs : m.kind # "view-change-265"
          /\ UNCHANGED view \/ (v > view[r] /\ view' = [view EXCEPT ![r] = v])
        <3>1. CASE EmitNewView(r, v, rows)
            BY <3>1 DEF EmitNewView
        <3>2. CASE InstallNewView(r, v, rows)
            BY <3>2 DEF InstallNewView
        <3> QED
            BY <1>10, <3>1, <3>2
    <2>5. CASE UNCHANGED view
        BY <1>0, <2>3, <2>4, <2>5, HeldQuiet
    <2>6. CASE v > view[r] /\ view' = [view EXCEPT ![r] = v]
        BY <1>0, <2>3, <2>4, <2>6, HeldView
    <2> QED
        BY <2>4, <2>5, <2>6
<1>11. CASE Restart(r)
    <2>1. /\ UNCHANGED <<view, accepted, prepared, certificates, mustRepropose, msgs>>
          /\ \A q \in Replica : \A e \in entering'[q] : e \in entering[q]
        BY <1>0, <1>11 DEF Restart, HeldInv, TypeOK
    <2> QED
        BY <1>0, <2>1, HeldQuiet
<1>12. CASE Environment(r)
    BY <1>9, <1>10, <1>11, <1>12 DEF Environment, NobodyClaims
<1>13. ~ Truncation(r)
    BY <1>0 DEF Truncation, Amnesic
<1> QED
    BY <1>1, <1>2, <1>4, <1>5, <1>6, <1>7, <1>8, <1>12, <1>13 DEF Step

LEMMA HeldNext ==
    ASSUME HeldInv, NobodyClaims, EnteringBelow', [VotesNext]_votesVars
    PROVE  HeldInv'
<1>1. CASE VotesNext
    BY <1>1, StepOfNext, HeldStep
<1>2. CASE UNCHANGED votesVars
    <2>1. TypeOK'
        BY <1>2 DEF votesVars, HeldInv, TypeOK
    <2>2. NothingClaimed'
        BY <1>2 DEF votesVars, HeldInv, NothingClaimed
    <2> QED
        BY <1>2, <2>1, <2>2, HeldQuiet DEF votesVars
<1> QED
    BY <1>1, <1>2

\* A PREPARE is signed for the lock of the slot, which is on what is prepared.
LEMMA HeldSigned ==
    ASSUME HeldInv, NEW r \in Honest, Step(r), NEW m \in msgs' \ msgs, NEW d \in Block,
           m.kind = "prepare", m.by \notin Amnesic, PreparedDigests(m.by, m.seq) = {d},
           certificates[m.by][m.seq] = None
    PROVE  m.digest = d
<1>1. PICK s \in Seqs : SignPrepare(r, s)
    <2>1. ASSUME NEW b \in Block, EmitPrePrepare(r, b) \/ AcceptPrePrepare(r, b) PROVE FALSE
        BY <2>1 DEF EmitPrePrepare, AcceptPrePrepare, Row
    <2>2. ASSUME NEW s \in Seqs, ReceivePrepare(r, s) \/ ReceiveCommit(r, s) PROVE FALSE
        BY <2>2 DEF ReceivePrepare, ReceiveCommit
    <2>3. ASSUME NEW v \in Views, NEW s \in Seqs, SignCommit(r, v, s) PROVE FALSE
        BY <2>3 DEF SignCommit, Row
    <2>4. ASSUME NEW v \in Views, NEW b \in Block,
                 InstallCertificate(r, v, b) \/ WriteCertifiedBlock(r, v, b)
          PROVE  FALSE
        BY <2>4 DEF InstallCertificate, WriteCertifiedBlock
    <2>5. ASSUME NEW e \in entering[r], EnterView(r, e) PROVE FALSE
        BY <2>5 DEF EnterView
    <2>6. ASSUME NEW v \in Views, EmitViewChange(r, v) \/ EmitViewChange265(r, v) PROVE FALSE
        BY <2>6 DEF EmitViewChange, EmitViewChange265
    <2>7. ASSUME NEW v \in Views, NEW rows, EmitNewView(r, v, rows) \/ InstallNewView(r, v, rows)
          PROVE  FALSE
        BY <2>7 DEF EmitNewView, InstallNewView
    <2>8. CASE Environment(r)
        BY <2>6, <2>7, <2>8 DEF Environment, BindPrepared, BindConstraint, Restart
    <2>9. CASE Truncation(r)
        BY <2>9 DEF Truncation, RestartTruncated, RestartViewLost
    <2> QED
        BY <2>1, <2>2, <2>3, <2>4, <2>5, <2>8, <2>9 DEF Step
<1>2. /\ m = Row("prepare", view[r], s, accepted[r][<<view[r], s>>], r)
      /\ accepted[r][<<view[r], s>>] # None
    BY <1>1 DEF SignPrepare
<1> QED
    BY <1>2 DEF HeldInv, LockHeld, Row, Honest, Keeping

\* Nobody claiming prepared values for others, a replica that keeps its files,
\* has prepared one value at an index and holds no certificate for it votes for
\* no other there, in any view: whatever faulty replicas sign, whatever
\* enter_view erases and binds (_must_digest, accept_preprepare).
THEOREM PreparedIsHeld ==
    ASSUME NobodyClaims
    PROVE  VotesSpec => PreparedValueHeld
<1>1. HeldInv /\ EnteringBelow' /\ [VotesNext]_votesVars => HeldInv'
    BY HeldNext
<1>2. HeldInv /\ [VotesNext]_votesVars =>
         [\A m \in msgs' \ msgs, d \in Block :
            /\ m.kind = "prepare" /\ m.by \notin Amnesic
            /\ PreparedDigests(m.by, m.seq) = {d}
            /\ certificates[m.by][m.seq] = None
            /\ mustRepropose[m.by] \in {None, [seq |-> m.seq, digest |-> d]}
            => m.digest = d]_votesVars
    BY StepOfNext, HeldSigned
<1>3. VotesInv => EnteringBelow
    BY DEF VotesInv
<1> QED
    BY <1>1, <1>2, <1>3, HeldStart, VotesInvariant, PTL DEF VotesSpec, PreparedValueHeld
-----------------------------------------------------------------------------
(* Agreement across views: where alone it can be lost.                     *)

\* Honest replicas that keep their files.
Correct == Honest \ Amnesic

\* A correct replica voted at an index against what it had prepared there in an
\* earlier view, and it holds a certificate for yet another digest than its
\* vote's: _must_digest asks for what is prepared only while no certificate is
\* held.
Overruled ==
    \E m \in msgs, v \in Views :
        /\ m.kind = "prepare" /\ m.by \in Correct
        /\ v < m.view
        /\ prepared[m.by][<<v, m.seq>>] \notin {None, m.digest}
        /\ certificates[m.by][m.seq] \notin {None, m.digest}

\* The replicas that have prepared d in a slot, may still prepare it, or cannot be
\* relied on; the slot's COMMIT quorum, now or later, is among them.
Choosers(v, s, d) ==
    {r \in Replica : r \notin Correct \/ view[r] <= v \/ prepared[r][<<v, s>>] = d}

Choosable(v, s, d) == Cardinality(Choosers(v, s, d)) >= Q

\* In the views before w, r prepared nothing at s but e or what no quorum chooses.
Clear(r, w, s, e) ==
    \A v \in Views :
        v < w => \/ prepared[r][<<v, s>>] \in {None, e}
                 \/ ~Choosable(v, s, prepared[r][<<v, s>>])

LocksClear ==
    \A r \in Correct, w \in Views, s \in Seqs :
        /\ accepted[r][<<w, s>>] # None
        /\ certificates[r][s] \in {None, accepted[r][<<w, s>>]}
        => Clear(r, w, s, accepted[r][<<w, s>>])

VotesClear ==
    \A m \in msgs :
        m.kind = "prepare" /\ m.by \in Correct => Clear(m.by, m.view, m.seq, m.digest)

\* A replica prepares one digest at an index, in whatever views, until it holds a
\* certificate there.
OnePrepared ==
    \A r \in Correct, s \in Seqs :
        certificates[r][s] = None =>
            \A d, e \in PreparedDigests(r, s) : d = e

\* What a replica has committed, it has prepared.
CommitPrepared ==
    \A m \in msgs :
        m.kind = "commit" /\ m.by \in Correct =>
            prepared[m.by][<<m.view, m.seq>>] = m.digest

\* Beside VotesInv, HeldInv and BookInv, as long as nobody was overruled.
ChoiceInv == LocksClear /\ VotesClear /\ OnePrepared /\ CommitPrepared

\* What a step may do to the tables of a correct replica: prepare what is locked in
\* its view, lock there what it may accept, erase locks, move on to a later view, and
\* never forget a certificate.
SlotMoves(q, v, s) ==
    /\ \/ prepared'[q][<<v, s>>] = prepared[q][<<v, s>>]
       \/ /\ v = view[q] /\ accepted[q][<<v, s>>] # None
          /\ prepared'[q][<<v, s>>] = accepted[q][<<v, s>>]
    /\ \/ accepted'[q][<<v, s>>] \in {None, accepted[q][<<v, s>>]}
       \/ v = view[q] /\ MayAccept(q, s, accepted'[q][<<v, s>>])

\* What it signs: a PREPARE for the lock of its view, a COMMIT for what it prepared.
RowMoves(m) ==
    /\ m.kind = "prepare" =>
          m.view = view[m.by] /\ accepted[m.by][<<m.view, m.seq>>] = m.digest
    /\ m.kind = "commit" => prepared[m.by][<<m.view, m.seq>>] = m.digest

StepMoves ==
    /\ \A q \in Correct : view[q] <= view'[q]
    /\ \A q \in Correct, s \in Seqs : certificates[q][s] \in {None, certificates'[q][s]}
    /\ \A q \in Correct, v \in Views, s \in Seqs : SlotMoves(q, v, s)
    /\ \A m \in msgs' \ msgs : RowMoves(m)

\* A step that changes neither a slot nor a view, and signs no vote.
LEMMA MovesQuiet ==
    ASSUME TypeOK, UNCHANGED <<view, accepted, prepared>>,
           \A m \in msgs' \ msgs : m.kind \notin {"prepare", "commit"},
           \A q \in Correct, s \in Seqs : certificates[q][s] \in {None, certificates'[q][s]}
    PROVE  StepMoves
<1>1. \A q \in Correct : view[q] <= view[q]
    BY MembershipAssumption DEF TypeOK, Views, Correct, Honest
<1> QED
    BY <1>1 DEF StepMoves, SlotMoves, RowMoves, Correct, Honest

LEMMA MovesStep ==
    ASSUME TypeOK, EnteringBelow, NEW r \in Honest, Step(r)
    PROVE  StepMoves
<1>0. r \in Replica /\ view[r] \in Views /\ Correct \subseteq Replica
    BY DEF Honest, TypeOK, Correct
<1>a. \A q \in Replica : view[q] \in Views /\ view[q] \in Nat /\ view[q] <= view[q]
    BY MembershipAssumption DEF TypeOK, Views
<1>b. \A v \in Views, s \in Seqs : <<v, s>> \in Slot
    BY DEF Slot
<1>c. \A q \in Correct, s \in Seqs : certificates[q][s] \in {None, certificates'[q][s]}
    BY <1>0, CertificateStep DEF CertificateMoves, Correct
<1>1. ASSUME NEW b \in Block, EmitPrePrepare(r, b) \/ AcceptPrePrepare(r, b)
      PROVE  StepMoves
    <2>1. /\ MayAccept(r, Index[b], b) /\ Accept(r, view[r], Index[b], b)
          /\ UNCHANGED <<view, prepared>>
        BY <1>1 DEF EmitPrePrepare, AcceptPrePrepare
    <2>2. \A m \in msgs' \ msgs : m.kind = "pre-prepare"
        BY <1>1 DEF EmitPrePrepare, AcceptPrePrepare, Row
    <2>3. \A q \in Replica, v \in Views, s \in Seqs :
             accepted'[q][<<v, s>>] = IF q = r /\ v = view[r] /\ s = Index[b] THEN b
                                      ELSE accepted[q][<<v, s>>]
        BY <1>0, <2>1, IndexIsSeq DEF Accept, TypeOK, Slot
    <2> QED
        BY <1>0, <1>a, <1>c, <2>1, <2>2, <2>3 DEF StepMoves, SlotMoves, RowMoves
<1>2. ASSUME NEW s \in Seqs, SignPrepare(r, s) \/ ReceivePrepare(r, s)
      PROVE  StepMoves
    <2> DEFINE a == accepted[r][<<view[r], s>>]
    <2>1. /\ a # None
          /\ UNCHANGED prepared \/ prepared' = [prepared EXCEPT ![r][<<view[r], s>>] = a]
          /\ UNCHANGED <<view, accepted>>
        BY <1>2 DEF SignPrepare, ReceivePrepare, BecomesPrepared
    <2>2. \A m \in msgs' \ msgs : RowMoves(m)
        BY <1>2 DEF SignPrepare, ReceivePrepare, Row, RowMoves
    <2>3. \A q \in Replica, v \in Views, i \in Seqs :
             \/ prepared'[q][<<v, i>>] = prepared[q][<<v, i>>]
             \/ q = r /\ v = view[r] /\ i = s /\ prepared'[q][<<v, i>>] = a
        <3> HIDE DEF a
        <3>1. CASE UNCHANGED prepared
            BY <3>1
        <3>2. CASE prepared' = [prepared EXCEPT ![r][<<view[r], s>>] = a]
            BY <1>0, <1>b, <3>2 DEF TypeOK
        <3> QED
            BY <2>1, <3>1, <3>2
    <2> QED
        BY <1>0, <1>a, <1>c, <2>1, <2>2, <2>3 DEF StepMoves, SlotMoves
<1>4. ASSUME NEW v \in Views, NEW s \in Seqs, SignCommit(r, v, s)
      PROVE  StepMoves
    <2>1. UNCHANGED <<view, accepted, prepared>>
        BY <1>4 DEF SignCommit
    <2>2. \A m \in msgs' \ msgs : RowMoves(m)
        BY <1>4 DEF SignCommit, Row, RowMoves
    <2> QED
        BY <1>0, <1>a, <1>c, <2>1, <2>2 DEF StepMoves, SlotMoves
<1>5. ASSUME NEW s \in Seqs, ReceiveCommit(r, s)
      PROVE  StepMoves
    BY <1>5, <1>c, MovesQuiet DEF ReceiveCommit
<1>6. ASSUME NEW v \in Views, NEW b \in Block,
             InstallCertificate(r, v, b) \/ WriteCertifiedBlock(r, v, b)
      PROVE  StepMoves
    BY <1>6, <1>c, MovesQuiet DEF InstallCertificate, WriteCertifiedBlock
<1>8. ASSUME NEW e \in entering[r], EnterView(r, e)
      PROVE  StepMoves
    <2>1. UNCHANGED <<view, prepared, msgs>>
        BY <1>8 DEF EnterView
    <2>2. \A q \in Replica, v \in Views, s \in Seqs :
             accepted'[q][<<v, s>>] \in {None, accepted[q][<<v, s>>]}
        BY <1>0, <1>b, <1>8 DEF EnterView, TypeOK
    <2> QED
        BY <1>0, <1>a, <1>c, <2>1, <2>2 DEF StepMoves, SlotMoves
<1>9. ASSUME NEW v \in Views, EmitViewChange(r, v) \/ EmitViewChange265(r, v)
      PROVE  StepMoves
    <2>1. /\ UNCHANGED <<view, accepted, prepared>>
          /\ \A m \in msgs' \ msgs : m.kind \in {"view-change", "view-change-265"}
        BY <1>9 DEF EmitViewChange, EmitViewChange265
    <2> QED
        BY <1>c, <2>1, MovesQuiet
<1>10. ASSUME NEW v \in Views, NEW rows,
              EmitNewView(r, v, rows) \/ InstallNewView(r, v, rows)
       PROVE  StepMoves
    <2>1. /\ UNCHANGED <<accepted, prepared>>
          /\ \A m \in msgs' \ msgs : m.kind = "new-view"
          /\ UNCHANGED view \/ (v > view[r] /\ view' = [view EXCEPT ![r] = v])
        <3>1. CASE EmitNewView(r, v, rows)
            BY <3>1 DEF EmitNewView
        <3>2. CASE InstallNewView(r, v, rows)
            BY <3>2 DEF InstallNewView
        <3> QED
            BY <1>10, <3>1, <3>2
    <2>2. v \in Nat
        BY MembershipAssumption DEF Views
    <2>3. ASSUME NEW q \in Replica PROVE view[q] <= view'[q]
        <3>1. CASE UNCHANGED view
            BY <1>a, <3>1
        <3>2. CASE v > view[r] /\ view' = [view EXCEPT ![r] = v]
            BY <1>0, <1>a, <2>2, <3>2 DEF TypeOK
        <3> QED
            BY <2>1, <3>1, <3>2
    <2> QED
        BY <1>0, <1>c, <2>1, <2>3 DEF StepMoves, SlotMoves, RowMoves
<1>11. ASSUME NEW c \in PCert, BindPrepared(r, c)
       PROVE  StepMoves
    BY <1>11, <1>c, MovesQuiet DEF BindPrepared
<1>12. CASE Restart(r)
    BY <1>12, <1>c, MovesQuiet DEF Restart
<1>13. CASE Environment(r)
    BY <1>9, <1>10, <1>11, <1>12, <1>13 DEF Environment
<1>14. CASE Truncation(r)
    <2>1. r \notin Correct /\ UNCHANGED msgs
        BY <1>0, <1>14
        DEF Truncation, RestartTruncated, RestartViewLost, Correct, Amnesic
    <2>2. \A q \in Correct : q \in Replica /\ q # r
        BY <1>0, <2>1
    <2>3. \A q \in Correct : /\ prepared'[q] = prepared[q] /\ accepted'[q] = accepted[q]
                             /\ view'[q] = view[q]
        BY <2>2, StepIsLocal
    <2> QED
        BY <1>0, <1>a, <1>c, <2>1, <2>3 DEF StepMoves, SlotMoves
<1> QED
    BY <1>1, <1>2, <1>4, <1>5, <1>6, <1>8, <1>13, <1>14 DEF Step

\* The replicas that may choose a digest only become fewer.
LEMMA ChoosersShrink ==
    ASSUME TypeOK, TypeOK', StepMoves, NEW v \in Views, NEW s \in Seqs, NEW d, Choosable(v, s, d)'
    PROVE  Choosable(v, s, d)
<1> DEFINE S == Choosers(v, s, d)
           T == Choosers(v, s, d)'
<1>1. ASSUME NEW q \in T PROVE q \in S
    <2>1. q \in Replica /\ (q \notin Correct \/ view'[q] <= v \/ prepared'[q][<<v, s>>] = d)
        BY DEF Choosers
    <2>2. CASE q \in Correct
        <3>1. view[q] \in Nat /\ view'[q] \in Nat /\ v \in Nat /\ view[q] <= view'[q]
            BY <2>1, <2>2, MembershipAssumption DEF StepMoves, TypeOK, Views
        <3>2. prepared'[q][<<v, s>>] = prepared[q][<<v, s>>] \/ v = view[q]
            BY <2>2 DEF StepMoves, SlotMoves
        <3>3. view[q] <= v \/ prepared[q][<<v, s>>] = d
            BY <2>1, <2>2, <3>1, <3>2
        <3> QED
            BY <2>1, <3>3 DEF Choosers
    <2> QED
        BY <2>1, <2>2 DEF Choosers
<1>2. S \in SUBSET Replica /\ T \in SUBSET Replica /\ T \subseteq S
    BY <1>1 DEF Choosers
<1>3. Cardinality(T) >= Q
    BY DEF Choosable
<1> HIDE DEF S, T
<1>4. /\ Cardinality(T) <= Cardinality(S)
      /\ Cardinality(T) \in Nat /\ Cardinality(S) \in Nat
    BY <1>2, SubsetFinite, FS_Subset
<1>5. Cardinality(S) >= Q
    BY <1>3, <1>4, QuorumIsInt
<1> QED
    BY <1>5 DEF Choosable, S

\* What is clear below the view of a replica stays clear: it prepares only in its view.
LEMMA ClearKept ==
    ASSUME TypeOK, TypeOK', StepMoves, NEW r \in Correct, NEW w \in Views, NEW s \in Seqs,
           NEW e, w <= view[r], Clear(r, w, s, e)
    PROVE  Clear(r, w, s, e)'
<1> SUFFICES ASSUME NEW v \in Views, v < w, NEW d, d = prepared'[r][<<v, s>>], d \notin {None, e}
             PROVE  ~Choosable(v, s, d)'
    BY DEF Clear
<1>1. v # view[r]
    BY MembershipAssumption DEF Views, TypeOK, Correct, Honest
<1>2. prepared[r][<<v, s>>] = d
    BY <1>1 DEF StepMoves, SlotMoves
<1>3. ~Choosable(v, s, d)
    BY <1>2 DEF Clear
<1> QED
    BY <1>3, ChoosersShrink

\* Behind a PREPARE quorum for e nothing else can be chosen in an earlier view: one
\* of its correct voters would have prepared it, and voted for e.
LEMMA VotersClear ==
    ASSUME VotesInv, VotesClear, QuorumsMeet, NEW v \in Views, NEW w \in Views, NEW s \in Seqs,
           NEW d \in Block, NEW e, Backed(msgs, w, s, e), v < w, d # e
    PROVE  ~Choosable(v, s, d)
<1> SUFFICES ASSUME Choosable(v, s, d) PROVE FALSE
    OBVIOUS
<1> DEFINE S == Choosers(v, s, d)
           T == VotersIn(msgs, "prepare", w, s, e)
<1>1. /\ S \in SUBSET Replica /\ Cardinality(S) >= Q
      /\ T \in SUBSET Replica /\ Cardinality(T) >= Q
    BY DEF Choosable, Choosers, Backed, VotersIn
<1>2. PICK r \in S \cap T : r \notin Faulty \cup Amnesic
    BY <1>1, CorrectInBoth
<1>3. r \in Correct
    BY <1>1, <1>2 DEF Correct, Honest
<1> DEFINE m == Row("prepare", w, s, e, r)
<1>4. m.kind = "prepare" /\ m.by = r /\ m.view = w /\ m.seq = s /\ m.digest = e
    BY DEF Row
<1>5. m \in msgs
    BY <1>2, <1>4, FaultySendsAssumption DEF VotersIn
<1> HIDE DEF m
<1>6. w <= view[r] /\ Clear(r, w, s, e)
    BY <1>2, <1>3, <1>4, <1>5 DEF VotesInv, VoteLocked, VotesClear
<1>7. ~(view[r] <= v)
    BY <1>1, <1>2, <1>6, MembershipAssumption DEF VotesInv, TypeOK, Views
<1>8. prepared[r][<<v, s>>] = d
    BY <1>2, <1>3, <1>7 DEF Choosers
<1>9. d # None
    BY BlockAssumption
<1> QED
    BY <1>6, <1>8, <1>9 DEF Clear

\* What a certificate names is chosen.
LEMMA CertificateChoosable ==
    ASSUME CommitPrepared, NEW v \in Views, NEW s \in Seqs, NEW d, ValidCertificate(v, s, d)
    PROVE  Choosable(v, s, d)
<1> DEFINE S == VotersIn(msgs, "commit", v, s, d)
           T == Choosers(v, s, d)
<1>1. ASSUME NEW r \in S PROVE r \in T
    <2> DEFINE m == Row("commit", v, s, d, r)
    <2>1. m.kind = "commit" /\ m.by = r /\ m.view = v /\ m.seq = s /\ m.digest = d
        BY DEF Row
    <2>2. r \in Replica /\ m \in msgs \cup FaultySends
        BY DEF VotersIn
    <2> HIDE DEF m
    <2>3. r \in Correct => prepared[r][<<v, s>>] = d
        BY <2>1, <2>2, FaultySendsAssumption DEF CommitPrepared, Correct, Honest
    <2> QED
        BY <2>2, <2>3 DEF Choosers
<1>2. S \in SUBSET Replica /\ T \in SUBSET Replica /\ S \subseteq T
    BY <1>1 DEF Choosers, VotersIn
<1>3. Cardinality(S) >= Q
    BY DEF ValidCertificate, Voters
<1> HIDE DEF S, T
<1>4. /\ Cardinality(S) <= Cardinality(T)
      /\ Cardinality(S) \in Nat /\ Cardinality(T) \in Nat
    BY <1>2, SubsetFinite, FS_Subset
<1>5. Cardinality(T) >= Q
    BY <1>3, <1>4, QuorumIsInt
<1> QED
    BY <1>5 DEF Choosable, T

\* Beside a certificate, no other digest that is prepared anywhere can be chosen.
LEMMA CertificateClears ==
    ASSUME VotesInv, VotesClear, CommitPrepared, QuorumsMeet, NEW u \in Views, NEW s \in Seqs,
           NEW c \in Block, ValidCertificate(u, s, c),
           NEW r \in Replica, NEW v \in Views, NEW d \in Block, prepared[r][<<v, s>>] = d, d # c
    PROVE  ~Choosable(v, s, d)
<1>1. Backed(msgs, u, s, c)
    BY CertificateBacked DEF VotesInv
<1>2. Backed(msgs, v, s, d)
    BY BlockAssumption DEF VotesInv, PreparedBacked
<1>3. u \in Nat /\ v \in Nat
    BY MembershipAssumption DEF Views
<1>4. CASE u = v
    BY <1>1, <1>2, <1>4, QuorumsAgree
<1>5. CASE v < u
    BY <1>1, <1>5, VotersClear
<1>6. CASE u < v
    <2>1. ~Choosable(u, s, c)
        BY <1>2, <1>6, VotersClear
    <2> QED
        BY <2>1, CertificateChoosable
<1> QED
    BY <1>3, <1>4, <1>5, <1>6

\* A digest that a correct replica may lock, and that the certificate it holds does
\* not exclude, is clear below its view.
LEMMA AcceptClear ==
    ASSUME VotesInv, HeldInv, BookInv, ChoiceInv, QuorumsMeet, NEW r \in Correct, NEW s \in Seqs,
           NEW b \in Block, MayAccept(r, s, b),
           certificates[r][s] \in {None, b}
    PROVE  Clear(r, view[r], s, b)
<1> SUFFICES ASSUME NEW v \in Views, prepared[r][<<v, s>>] \notin {None, b}
             PROVE  ~Choosable(v, s, prepared[r][<<v, s>>])
    BY DEF Clear
<1> DEFINE d == prepared[r][<<v, s>>]
<1>1. r \in Replica
    BY DEF Correct, Honest
<1>2. d \in Block /\ d # b
    BY <1>1 DEF HeldInv, TypeOK, Slot
<1>3. CASE certificates[r][s] = None
    <2>1. d \in PreparedDigests(r, s)
        BY <1>1, <1>2, PreparedAt DEF HeldInv
    <2>2. PreparedDigests(r, s) = {d}
        BY <1>3, <2>1 DEF ChoiceInv, OnePrepared
    <2> QED
        BY <1>1, <1>2, <1>3, <2>2, MayAcceptHeld DEF Keeping, Correct
<1>4. CASE certificates[r][s] # None
    <2>1. PICK u \in Views : Certified(msgs, u, s, b)
        BY <1>1, <1>4 DEF BookInv
    <2>2. ValidCertificate(u, s, b)
        BY <2>1 DEF Certified, ValidCertificate, Voters
    <2> QED
        BY <1>1, <1>2, <2>2, CertificateClears DEF ChoiceInv
<1> QED
    BY <1>3, <1>4

\* Once overruled, for good.
LEMMA OverruledStays ==
    ASSUME VotesInv, TypeOK', StepMoves, msgs \subseteq msgs', Overruled
    PROVE  Overruled'
<1>1. PICK m \in msgs, v \in Views :
         /\ m.kind = "prepare" /\ m.by \in Correct
         /\ v < m.view
         /\ prepared[m.by][<<v, m.seq>>] \notin {None, m.digest}
         /\ certificates[m.by][m.seq] \notin {None, m.digest}
    BY DEF Overruled
<1>2. m \in Vote
    BY <1>1, VoteOfMessage DEF VotesInv, TypeOK
<1>3. m.seq \in Seqs /\ m.view \in Views /\ m.view <= view[m.by] /\ view[m.by] \in Views
    BY <1>1, <1>2 DEF Vote, VotesInv, VoteLocked, TypeOK, Correct, Honest
<1>4. v # view[m.by]
    BY <1>1, <1>3, MembershipAssumption DEF Views
<1>5. prepared'[m.by][<<v, m.seq>>] = prepared[m.by][<<v, m.seq>>]
    BY <1>1, <1>3, <1>4 DEF StepMoves, SlotMoves
<1>6. certificates'[m.by][m.seq] = certificates[m.by][m.seq]
    BY <1>1, <1>3 DEF StepMoves
<1> QED
    BY <1>1, <1>5, <1>6 DEF Overruled

\* The four parts are kept by what a step may do.
LEMMA ChoiceStep ==
    ASSUME VotesInv, HeldInv, BookInv, ChoiceInv, QuorumsMeet, TypeOK', StepMoves,
           ~ Overruled'
    PROVE  ChoiceInv'
<1>0. TypeOK /\ Correct \subseteq Replica
    BY DEF HeldInv, Correct, Honest
<1>1. ASSUME NEW q \in Correct, NEW w \in Views, NEW s \in Seqs, NEW b,
             b = accepted'[q][<<w, s>>], b # None, certificates'[q][s] \in {None, b}
      PROVE  Clear(q, w, s, b)'
    <2>1. b \in Block
        BY <1>0, <1>1 DEF TypeOK, Slot
    <2>2. SlotMoves(q, w, s) /\ certificates[q][s] \in {None, b}
        BY <1>1 DEF StepMoves
    <2>3. CASE b = accepted[q][<<w, s>>]
        <3>1. Clear(q, w, s, b) /\ w <= view[q]
            BY <1>0, <1>1, <2>1, <2>2, <2>3
            DEF ChoiceInv, LocksClear, HeldInv, UsedSlots, Keeping, Correct
        <3> QED
            BY <1>0, <3>1, ClearKept
    <2>4. CASE b # accepted[q][<<w, s>>]
        <3>1. w = view[q] /\ MayAccept(q, s, b)
            BY <1>1, <2>1, <2>2, <2>4 DEF SlotMoves
        <3>3. Clear(q, view[q], s, b)
            BY <2>1, <2>2, <3>1, AcceptClear
        <3>4. w <= view[q] /\ Clear(q, w, s, b)
            BY <3>1, <3>3, MembershipAssumption DEF Views
        <3> QED
            BY <1>0, <3>4, ClearKept
    <2> QED
        BY <2>3, <2>4
<1>2. ASSUME NEW m \in msgs', m.kind = "prepare", m.by \in Correct
      PROVE  Clear(m.by, m.view, m.seq, m.digest)'
    <2>1. m \in Vote
        BY <1>2, VoteOfMessage DEF TypeOK
    <2>2. m.view \in Views /\ m.seq \in Seqs /\ m.digest \in Block /\ m.digest # None
        BY <2>1, BlockAssumption DEF Vote
    <2>3. CASE m \in msgs
        <3>1. m.view <= view[m.by] /\ Clear(m.by, m.view, m.seq, m.digest)
            BY <1>2, <2>3 DEF Correct, Honest, VotesInv, VoteLocked, ChoiceInv, VotesClear
        <3> QED
            BY <1>0, <1>2, <2>2, <3>1, ClearKept
    <2>4. CASE m \notin msgs
        <3>1. m.view = view[m.by] /\ accepted[m.by][<<m.view, m.seq>>] = m.digest
            BY <1>2, <2>4 DEF StepMoves, RowMoves
        <3>2. m.view <= view[m.by]
            BY <2>2, <3>1, MembershipAssumption DEF Views
        <3>3. CASE certificates[m.by][m.seq] \in {None, m.digest}
            <4>1. Clear(m.by, m.view, m.seq, m.digest)
                BY <1>2, <2>2, <3>1, <3>3 DEF ChoiceInv, LocksClear
            <4> QED
                BY <1>0, <1>2, <2>2, <3>2, <4>1, ClearKept
        <3>4. CASE certificates[m.by][m.seq] \notin {None, m.digest}
            <4>1. certificates'[m.by][m.seq] = certificates[m.by][m.seq]
                BY <1>2, <2>2, <3>4 DEF StepMoves
            <4>2. \A v \in Views :
                     v < m.view => prepared'[m.by][<<v, m.seq>>] \in {None, m.digest}
                BY <1>2, <3>4, <4>1 DEF Overruled
            <4> QED
                BY <4>2 DEF Clear
        <3> QED
            BY <3>3, <3>4
    <2> QED
        BY <2>3, <2>4
<1>3. ASSUME NEW q \in Correct, NEW s \in Seqs, certificates'[q][s] = None
      PROVE  \A d, e \in PreparedDigests(q, s)' : d = e
    <2> SUFFICES ASSUME NEW d \in PreparedDigests(q, s)', NEW e \in PreparedDigests(q, s)'
                 PROVE  d = e
        OBVIOUS
    <2>0. view[q] \in Views /\ certificates[q][s] = None
        BY <1>0, <1>3 DEF TypeOK, StepMoves
    <2>1. PICK a : a = accepted[q][<<view[q], s>>]
        OBVIOUS
    <2>2. ASSUME NEW x \in PreparedDigests(q, s)'
          PROVE  x \in PreparedDigests(q, s) \/ (x = a /\ a # None)
        <3>1. PICK v \in Views : prepared'[q][<<v, s>>] = x /\ x # None
            BY DEF PreparedDigests
        <3>2. \/ prepared'[q][<<v, s>>] = prepared[q][<<v, s>>]
              \/ prepared'[q][<<v, s>>] = a /\ a # None
            BY <2>1 DEF StepMoves, SlotMoves
        <3> QED
            BY <1>0, <3>1, <3>2, PreparedAt
    <2>3. ASSUME NEW x \in PreparedDigests(q, s), a # None PROVE x = a
        <3>1. PreparedDigests(q, s) = {x}
            BY <2>0 DEF ChoiceInv, OnePrepared
        <3>2. PICK v \in Views : x = prepared[q][<<v, s>>] /\ x # None
            BY DEF PreparedDigests
        <3>3. x \in Block
            BY <1>0, <3>2 DEF TypeOK, Slot
        <3> QED
            BY <1>0, <2>0, <2>1, <2>3, <3>1, <3>3
            DEF HeldInv, LockHeld, Keeping, Correct
    <2>4. \A x, y \in PreparedDigests(q, s) : x = y
        BY <2>0 DEF ChoiceInv, OnePrepared
    <2> QED
        BY <2>2, <2>3, <2>4
<1>4. ASSUME NEW m \in msgs', m.kind = "commit", m.by \in Correct
      PROVE  prepared'[m.by][<<m.view, m.seq>>] = m.digest
    <2>1. m \in Vote
        BY <1>4, VoteOfMessage DEF TypeOK
    <2>2. m.view \in Views /\ m.seq \in Seqs /\ m.digest # None
        BY <2>1, BlockAssumption DEF Vote
    <2>3. prepared[m.by][<<m.view, m.seq>>] = m.digest
        BY <1>4 DEF StepMoves, RowMoves, ChoiceInv, CommitPrepared
    <2>4. m.view = view[m.by] =>
             prepared[m.by][<<m.view, m.seq>>] \in {None, accepted[m.by][<<m.view, m.seq>>]}
        BY <1>0, <1>4, <2>2 DEF HeldInv, UsedSlots, Keeping, Correct
    <2>5. SlotMoves(m.by, m.view, m.seq)
        BY <1>4, <2>2 DEF StepMoves
    <2> QED
        BY <2>2, <2>3, <2>4, <2>5 DEF SlotMoves
<1>5. LocksClear' /\ VotesClear'
    BY <1>1, <1>2 DEF LocksClear, VotesClear, Clear
<1>6. OnePrepared' /\ CommitPrepared'
    BY <1>3, <1>4 DEF OnePrepared, CommitPrepared
<1> QED
    BY <1>5, <1>6 DEF ChoiceInv

\* Nothing is locked, signed or prepared at first.
LEMMA ChoiceStart == VotesInit => ChoiceInv
<1> SUFFICES ASSUME VotesInit PROVE ChoiceInv
    OBVIOUS
<1>1. \A r \in Correct, v \in Views, s \in Seqs :
         accepted[r][<<v, s>>] = None /\ prepared[r][<<v, s>>] = None
    BY DEF VotesInit, Slot, Correct, Honest
<1>2. \A r \in Correct, s \in Seqs : PreparedDigests(r, s) = {}
    BY <1>1 DEF PreparedDigests
<1>3. msgs = {}
    BY DEF VotesInit
<1> QED
    BY <1>1, <1>2, <1>3 DEF ChoiceInv, LocksClear, VotesClear, OnePrepared, CommitPrepared

\* A digest chosen in one view is the only one any later view can certify.
LEMMA AgreementFromChoice ==
    ASSUME VotesInv, ChoiceInv, QuorumsMeet
    PROVE  CertificatesAgree
<1>1. ASSUME NEW v \in Views, NEW w \in Views, NEW s \in Seqs, NEW d \in Block, NEW e \in Block,
             ValidCertificate(v, s, d), ValidCertificate(w, s, e), v < w
      PROVE  d = e
    <2>1. Choosable(v, s, d) /\ Backed(msgs, w, s, e)
        BY <1>1, CertificateChoosable, CertificateBacked DEF ChoiceInv, VotesInv
    <2> QED
        BY <1>1, <2>1, VotersClear DEF ChoiceInv
<1> SUFFICES ASSUME NEW v \in Views, NEW w \in Views, NEW s \in Seqs, NEW d \in Block,
                    NEW e \in Block, ValidCertificate(v, s, d), ValidCertificate(w, s, e)
             PROVE  d = e
    BY DEF CertificatesAgree
<1>2. v \in Nat /\ w \in Nat
    BY MembershipAssumption DEF Views
<1>3. CASE v = w
    BY <1>3, AgreementFromInv DEF SameViewAgreement
<1>4. CASE v < w
    BY <1>1, <1>4
<1>5. CASE w < v
    BY <1>1, <1>5
<1> QED
    BY <1>2, <1>3, <1>4, <1>5

\* The certificates a replica holds were valid in some view.
LEMMA HeldAgreeFromInv ==
    ASSUME BookInv, CertificatesAgree
    PROVE  CertificateAgreement
<1> SUFFICES ASSUME NEW q \in Honest, NEW r \in Honest, NEW s \in Seqs,
                    certificates[q][s] # None, certificates[r][s] # None
             PROVE  certificates[q][s] = certificates[r][s]
    BY DEF CertificateAgreement
<1>1. certificates[q][s] \in Block /\ certificates[r][s] \in Block
    BY DEF Honest, BookInv, TypeOK
<1>2. PICK v \in Views : Certified(msgs, v, s, certificates[q][s])
    BY DEF Honest, BookInv
<1>3. PICK w \in Views : Certified(msgs, w, s, certificates[r][s])
    BY DEF Honest, BookInv
<1> QED
    BY <1>1, <1>2, <1>3 DEF CertificatesAgree, ValidCertificate, Voters, Certified

\* No two verifiable certificates, and no two certificates held, of whatever views,
\* name different hashes at an index, but where a correct replica was overruled by a
\* certificate it held: voted against what it had prepared there itself.  Views
\* entered, faulty rows and crashes of others cannot bring it about (_must_digest,
\* enter_view, emit_prepare).
THEOREM AgreementAcrossViews ==
    ASSUME QuorumsMeet, NobodyClaims
    PROVE  VotesSpec => []((CertificatesAgree /\ CertificateAgreement) \/ Overruled)
<1> DEFINE Choice == Overruled \/ ChoiceInv
<1>1. HeldInv /\ EnteringBelow' /\ [VotesNext]_votesVars => HeldInv'
    BY HeldNext
<1>2. ASSUME VotesInv, HeldInv, BookInv, Choice, TypeOK', [VotesNext]_votesVars
      PROVE  Choice'
    <2>1. TypeOK /\ EnteringBelow
        BY <1>2 DEF HeldInv
    <2>2. StepMoves /\ msgs \subseteq msgs'
        <3>1. CASE VotesNext
            BY <2>1, <3>1, StepOfNext, MovesStep, CertificateStep
        <3>2. CASE UNCHANGED votesVars
            BY <2>1, <3>2, MovesQuiet DEF votesVars
        <3> QED
            BY <1>2, <3>1, <3>2
    <2>3. CASE Overruled
        BY <1>2, <2>2, <2>3, OverruledStays
    <2>4. CASE ChoiceInv
        BY <1>2, <2>2, <2>4, ChoiceStep
    <2> QED
        BY <1>2, <2>3, <2>4
<1>3. VotesInv => EnteringBelow /\ TypeOK
    BY DEF VotesInv
<1>4. VotesInv /\ BookInv /\ Choice
         => (CertificatesAgree /\ CertificateAgreement) \/ Overruled
    BY AgreementFromChoice, HeldAgreeFromInv
<1>5. VotesInit => Choice
    BY ChoiceStart
<1> HIDE DEF Choice
<1> QED
    BY <1>1, <1>2, <1>3, <1>4, <1>5, HeldStart, VotesInvariant, BookInvariant, PTL
    DEF VotesSpec
=============================================================================
