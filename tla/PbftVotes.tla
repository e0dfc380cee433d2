---------------------------- MODULE PbftVotes -------------------------------
(***************************************************************************)
(* Block finality among the official replicas of ARTCB                     *)
(* (src/artcb/consensus/pbft_finality.py) together with the view counter   *)
(* it shares with settlement (src/artcb/consensus/pbft_view.py), the HTTP  *)
(* handlers that call both (src/api/consensus_routes.py) and the part of   *)
(* the public book that gates them (src/artcb/chain/manager.py).           *)
(*                                                                         *)
(* A handler call is one action.  Rows are signed, so a row is sent or it  *)
(* does not exist: "msgs" holds every row an honest replica ever signed,   *)
(* and a row may be delivered late, twice, out of order or never.  The     *)
(* faulty replicas sign whatever FaultySends contains.  A certificate is   *)
(* the votes it is made of, so it verifies exactly when they were signed.  *)
(***************************************************************************)
EXTENDS Integers, FiniteSets, Sequences

CONSTANTS
    ReplicaIds,   \* official_pbft_replica_ids(), in registry order
    MaxView,      \* bound on the views reached
    Block,        \* block hashes ("digest" in the code)
    Index,        \* Index[b]: the consensus index b carries
    Parent,       \* Parent[b]: the hash b extends, None at the first index
    None,         \* an absent entry
    Faulty,       \* replicas that sign anything in FaultySends
    FaultySends,  \* rows signed by the faulty replicas
    Routes        \* Routes[r]: what the environment may do to r (a bound)

Replica == {ReplicaIds[i] : i \in 1 .. Len(ReplicaIds)}
Honest  == Replica \ Faulty
Views   == 0 .. MaxView
Seqs    == {Index[b] : b \in Block}
Slot    == Views \X Seqs

N == Len(ReplicaIds)
F == (N - 1) \div 3

\* Seeded fault: one honest vote is taken for a quorum.
QOneHonest == F + 1

Q == 2 * F + 1

\* The routes and events a configuration may leave out at a replica.
Route == {"view-change", "view-change-265", "new-view", "bind-prepared",
          "restart", "truncate"}

\* Replicas whose state files may be truncated by a crash.
Amnesic == {r \in Replica : "truncate" \in Routes[r]}

PrimaryOf(v) == ReplicaIds[(v % N) + 1]

VoteKind == {"pre-prepare", "prepare", "commit"}
Vote     == [kind: VoteKind, view: Views, seq: Seqs, digest: Block, by: Replica]
PCert    == [view: Views, seq: Seqs, digest: Block]
ViewChange    == [kind: {"view-change"}, view: Views, by: Replica]
ViewChange265 == [kind: {"view-change-265"}, view: Views, from: Views,
                  by: Replica, prepared: SUBSET PCert]
NewView  == [kind: {"new-view"}, view: Views, by: Replica]
Message  == Vote \cup ViewChange \cup ViewChange265 \cup NewView

ASSUME MembershipAssumption ==
    /\ ReplicaIds \in Seq(Replica)
    /\ N >= 4
    /\ MaxView \in Nat
    /\ Faulty \subseteq Replica
    /\ Routes \in [Replica -> SUBSET Route]

ASSUME BlockAssumption ==
    /\ Index \in [Block -> Nat \ {0}]
    /\ Parent \in [Block -> Block \cup {None}]
    /\ None \notin Block

ASSUME FaultySendsAssumption ==
    /\ FaultySends \subseteq Message
    /\ \A m \in FaultySends : m.by \in Faulty

VARIABLES
    view,          \* view[r]: the persisted view of the view store
    accepted,      \* accepted[r][<<v, s>>]: PRE-PREPARE lock of the slot
    prepared,      \* prepared[r][<<v, s>>]: digest of the prepared certificate
    certificates,  \* certificates[r][s]: digest of the commit certificate
    mustRepropose, \* mustRepropose[r]: the digest NEW-VIEW bound, if any
    entering,      \* entering[r]: views installed whose enter_view is due
    tip,           \* tip[r]: hash of the last block of r's public book
    msgs           \* rows signed by honest replicas

votesVars == <<view, accepted, prepared, certificates, mustRepropose, entering,
               tip, msgs>>

-----------------------------------------------------------------------------
(* Signatures and certificates. *)

Signed(m) == m \in msgs \cup FaultySends

Row(k, v, s, d, r) ==
    [kind |-> k, view |-> v, seq |-> s, digest |-> d, by |-> r]

\* The replicas whose k-vote for d at slot <<v, s>> exists, given the rows
\* honest replicas signed.
VotersIn(rows, k, v, s, d) ==
    {r \in Replica : Row(k, v, s, d, r) \in rows \cup FaultySends}

Voters(k, v, s, d) == VotersIn(msgs, k, v, s, d)

\* verify_preprepare: signed by the primary of the view, for a block whose
\* hash is the digest and whose index is the sequence number.
ValidPrePrepare(v, s, d) ==
    /\ Signed(Row("pre-prepare", v, s, d, PrimaryOf(v)))
    /\ Index[d] = s

ValidPrepared(v, s, d) ==
    /\ ValidPrePrepare(v, s, d)
    /\ Cardinality(Voters("prepare", v, s, d)) >= Q

ValidCertificate(v, s, d) == Cardinality(Voters("commit", v, s, d)) >= Q

-----------------------------------------------------------------------------
(* What a replica holds. *)

FinalizedDigest(r, s) == certificates[r][s]

PreparedDigests(r, s) == {prepared[r][<<v, s>>] : v \in Views} \ {None}

\* A prepared digest speaks for its index only while it is the only one and
\* no certificate is held.
UncommittedPreparedDigest(r, s) ==
    IF /\ FinalizedDigest(r, s) = None
       /\ \E d \in Block : PreparedDigests(r, s) = {d}
    THEN CHOOSE d \in Block : PreparedDigests(r, s) = {d}
    ELSE None

\* Seeded fault: only NEW-VIEW constrains, not the prepared certificate.
MustDigestBoundOnly(r, s) ==
    IF mustRepropose[r] # None /\ mustRepropose[r].seq = s
    THEN mustRepropose[r].digest
    ELSE None

MustDigest(r, s) ==
    IF mustRepropose[r] # None /\ mustRepropose[r].seq = s
    THEN mustRepropose[r].digest
    ELSE UncommittedPreparedDigest(r, s)

\* Seeded fault: the lock of the slot is not consulted.
MayAcceptUnlocked(r, s, d) == MustDigest(r, s) \in {None, d}

\* The two checks emit_preprepare and accept_preprepare share.
MayAccept(r, s, d) ==
    /\ MustDigest(r, s) \in {None, d}
    /\ accepted[r][<<view[r], s>>] \in {None, d}

Height(b) == IF b = None THEN 0 ELSE Index[b]

\* The block extends the tip of r's public book.
Extends(r, b) == Index[b] = Height(tip[r]) + 1 /\ Parent[b] = tip[r]

-----------------------------------------------------------------------------
VotesInit ==
    /\ view = [r \in Replica |-> 0]
    /\ accepted = [r \in Replica |-> [x \in Slot |-> None]]
    /\ prepared = [r \in Replica |-> [x \in Slot |-> None]]
    /\ certificates = [r \in Replica |-> [s \in Seqs |-> None]]
    /\ mustRepropose = [r \in Replica |-> None]
    /\ entering = [r \in Replica |-> {}]
    /\ tip = [r \in Replica |-> None]
    /\ msgs = {}

-----------------------------------------------------------------------------
(* PRE-PREPARE. *)

Accept(r, v, s, d) == accepted' = [accepted EXCEPT ![r][<<v, s>>] = d]

\* The primary orders a block that extends its own tip: its own append, or a
\* block a non-primary posted to /pbft/client-request.
EmitPrePrepare(r, b) ==
    /\ r = PrimaryOf(view[r])
    /\ Extends(r, b)
    /\ MayAccept(r, Index[b], b)
    /\ Accept(r, view[r], Index[b], b)
    /\ msgs' = msgs \cup {Row("pre-prepare", view[r], Index[b], b, r)}
    /\ UNCHANGED <<view, prepared, certificates, mustRepropose, entering, tip>>

\* No test of the tip and none of the certificate: any verifiable row of the
\* current view that the two local locks let through.
AcceptPrePrepare(r, b) ==
    /\ ValidPrePrepare(view[r], Index[b], b)
    /\ MayAccept(r, Index[b], b)
    /\ Accept(r, view[r], Index[b], b)
    /\ UNCHANGED <<view, prepared, certificates, mustRepropose, entering, tip,
                   msgs>>

-----------------------------------------------------------------------------
(* PREPARE and COMMIT.  Which rows a replica has stored is left open here: *)
(* a quorum that was signed may or may not have reached it (PbftFinality   *)
(* has the stores).                                                        *)

\* Seeded fault: one row too few.
BecomesPreparedEarly(r, v, s, d) ==
    /\ Cardinality(VotersIn(msgs', "prepare", v, s, d)) >= Q - 1
    /\ prepared' = [prepared EXCEPT ![r][<<v, s>>] = d]

\* The slot may become prepared once Q PREPARE rows for its lock are signed.
BecomesPrepared(r, v, s, d) ==
    /\ Cardinality(VotersIn(msgs', "prepare", v, s, d)) >= Q
    /\ prepared' = [prepared EXCEPT ![r][<<v, s>>] = d]

\* A certificate may be built once Q COMMIT rows are signed, unless one for
\* another digest is held.
Certifies(r, v, s, d) ==
    /\ FinalizedDigest(r, s) \in {None, d}
    /\ Cardinality(VotersIn(msgs', "commit", v, s, d)) >= Q
    /\ certificates' = [certificates EXCEPT ![r][s] = d]

SignPrepare(r, s) ==
    LET d == accepted[r][<<view[r], s>>]
    IN  /\ d # None
        /\ msgs' = msgs \cup {Row("prepare", view[r], s, d, r)}
        /\ UNCHANGED prepared \/ BecomesPrepared(r, view[r], s, d)
        /\ UNCHANGED <<view, accepted, certificates, mustRepropose, entering,
                       tip>>

ReceivePrepare(r, s) ==
    LET d == accepted[r][<<view[r], s>>]
    IN  /\ d # None
        /\ UNCHANGED msgs
        /\ BecomesPrepared(r, view[r], s, d)
        /\ UNCHANGED <<view, accepted, certificates, mustRepropose, entering,
                       tip>>

\* emit_commit asks only for the prepared certificate of the slot: the slot
\* may belong to a view the replica has left.
SignCommit(r, v, s) ==
    LET d == prepared[r][<<v, s>>]
    IN  /\ d # None
        /\ msgs' = msgs \cup {Row("commit", v, s, d, r)}
        /\ UNCHANGED certificates \/ Certifies(r, v, s, d)
        /\ UNCHANGED <<view, accepted, prepared, mustRepropose, entering, tip>>

ReceiveCommit(r, s) ==
    LET d == prepared[r][<<view[r], s>>]
    IN  /\ d # None
        /\ UNCHANGED msgs
        /\ Certifies(r, view[r], s, d)
        /\ UNCHANGED <<view, accepted, prepared, mustRepropose, entering, tip>>

-----------------------------------------------------------------------------
(* Certificates and the public book. *)

\* Seeded fault: the certificate held is not compared.
InstallAnyCertificate(r, v, b) ==
    /\ \E s \in Seqs :
         /\ ValidCertificate(v, s, b)
         /\ certificates' = [certificates EXCEPT ![r][s] = b]
    /\ UNCHANGED <<view, accepted, prepared, mustRepropose, entering, tip,
                   msgs>>

\* A certificate names an index and a hash; it clears the constraint NEW-VIEW
\* put on that index.
InstallCertificate(r, v, b) ==
    /\ \E s \in Seqs :
         /\ ValidCertificate(v, s, b)
         /\ FinalizedDigest(r, s) \in {None, b}
         /\ certificates' = [certificates EXCEPT ![r][s] = b]
         /\ mustRepropose' =
               IF mustRepropose[r] # None /\ mustRepropose[r].seq = s
               THEN [mustRepropose EXCEPT ![r] = None]
               ELSE mustRepropose
    /\ UNCHANGED <<view, accepted, prepared, entering, tip, msgs>>

\* Seeded fault: the certificate is not verified.
WriteUncertifiedBlock(r, v, b) ==
    /\ FinalizedDigest(r, Index[b]) \in {None, b}
    /\ Extends(r, b)
    /\ tip' = [tip EXCEPT ![r] = b]
    /\ UNCHANGED <<view, accepted, prepared, certificates, mustRepropose,
                   entering, msgs>>

\* write_certified_block and the import of a synchronised block: the block
\* comes with a certificate for its own index and hash, contradicts no
\* certificate held locally, and extends the tip.
WriteCertifiedBlock(r, v, b) ==
    /\ ValidCertificate(v, Index[b], b)
    /\ FinalizedDigest(r, Index[b]) \in {None, b}
    /\ Extends(r, b)
    /\ tip' = [tip EXCEPT ![r] = b]
    /\ UNCHANGED <<view, accepted, prepared, certificates, mustRepropose,
                   entering, msgs>>

-----------------------------------------------------------------------------
(* View change. *)

EmitViewChange(r, v) ==
    /\ v > view[r]
    /\ msgs' = msgs \cup {[kind |-> "view-change", view |-> v, by |-> r]}
    /\ UNCHANGED <<view, accepted, prepared, certificates, mustRepropose,
                   entering, tip>>

\* The row carries the replica's prepared set; the replica goes on working in
\* its view.
EmitViewChange265(r, v) ==
    LET pset == {[view |-> x[1], seq |-> x[2], digest |-> prepared[r][x]] :
                    x \in {y \in Slot : prepared[r][y] # None}}
    IN  /\ v > view[r]
        /\ msgs' = msgs \cup {[kind |-> "view-change-265", view |-> v,
                               from |-> view[r], by |-> r, prepared |-> pset]}
        /\ UNCHANGED <<view, accepted, prepared, certificates, mustRepropose,
                       entering, tip>>

\* The 265 rows a caller of /pbft/new-view may add to the 264 rows: one row
\* of each of some replicas.
CallerRows ==
    LET rows == {m \in msgs \cup FaultySends : m.kind = "view-change-265"}
    IN  {R \in SUBSET rows : \A x, y \in R : x.by = y.by => x = y}

VcQuorum(v) ==
    Cardinality({r \in Replica :
        Signed([kind |-> "view-change", view |-> v, by |-> r])}) >= Q

EnterLater(r, v, rows) ==
    entering' = [entering EXCEPT ![r] = @ \cup {[view |-> v, rows |-> rows]}]

\* emit_new_view ignores what install_new_view answers: a stale view is
\* signed, not installed, and enter_view still follows.
EmitNewView(r, v, rows) ==
    /\ r = PrimaryOf(v)
    /\ VcQuorum(v)
    /\ msgs' = msgs \cup {[kind |-> "new-view", view |-> v, by |-> r]}
    /\ view' = IF v > view[r] THEN [view EXCEPT ![r] = v] ELSE view
    /\ EnterLater(r, v, rows)
    /\ UNCHANGED <<accepted, prepared, certificates, mustRepropose, tip>>

\* The row names the digest of its VIEW-CHANGE rows and the caller presents
\* them: signed rows stay available, so the quorum for v is what is tested.
InstallNewView(r, v, rows) ==
    /\ Signed([kind |-> "new-view", view |-> v, by |-> PrimaryOf(v)])
    /\ VcQuorum(v)
    /\ v > view[r]
    /\ view' = [view EXCEPT ![r] = v]
    /\ EnterLater(r, v, rows)
    /\ UNCHANGED <<accepted, prepared, certificates, mustRepropose, tip, msgs>>

\* analyze_new_view_certificate.
Claimed(rows)  == \E m \in rows : m.prepared # {}
QuorumOk(rows) == Cardinality({m.by : m \in rows}) >= Q
Carried(rows)  == {c \in UNION {m.prepared : m \in rows} :
                     ValidPrepared(c.view, c.seq, c.digest)}
Consistent(rows) ==
    {c \in Carried(rows) :
        \A e \in Carried(rows) : e.seq = c.seq => e.digest = c.digest}
Selected(rows) ==
    {c \in Consistent(rows) : \A e \in Consistent(rows) : e.seq <= c.seq}

\* The prepared certificates enter_view falls back on: the highest index not
\* yet certified and, the first stored one winning, its lowest view.
LocalPending(r) ==
    LET pending == {x \in Slot : /\ prepared[r][x] # None
                                 /\ FinalizedDigest(r, x[2]) = None}
    IN  {[view |-> x[1], seq |-> x[2], digest |-> prepared[r][x]] :
            x \in {y \in pending :
                     \A z \in pending : \/ z[2] < y[2]
                                        \/ z[2] = y[2] /\ y[1] <= z[1]}}

\* What enter_view chooses: nothing when the caller's rows claim a prepared
\* value without a quorum of them, the selected value when a quorum carries one,
\* the replica's own pending value when nobody claims any.
Chosen(r, rows) ==
    IF Claimed(rows)
    THEN IF QuorumOk(rows) THEN Selected(rows) ELSE {}
    ELSE LocalPending(r)

\* bind_prepared_constraint takes a certificate that verifies, or nothing.
Provable(c) == ValidPrepared(c.view, c.seq, c.digest)

\* Seeded fault: the certificate is stored whole, its view with it.
BindWholeCertificate(r, c) ==
    /\ Provable(c)
    /\ mustRepropose' = [mustRepropose EXCEPT ![r] = c]

BindConstraint(r, c) ==
    /\ Provable(c)
    /\ mustRepropose' = [mustRepropose EXCEPT ![r] =
            [seq |-> c.seq, digest |-> c.digest]]

EnterView(r, e) ==
    /\ e \in entering[r]
    /\ entering' = [entering EXCEPT ![r] = @ \ {e}]
    /\ accepted' = [accepted EXCEPT ![r] =
            [x \in Slot |-> IF x[1] < e.view THEN None ELSE @[x]]]
    /\ \/ /\ \A c \in Chosen(r, e.rows) : ~ Provable(c)
          /\ UNCHANGED mustRepropose
       \/ \E c \in Chosen(r, e.rows) : BindConstraint(r, c)
    /\ UNCHANGED <<view, prepared, certificates, tip, msgs>>

\* /pbft/bind-prepared and /pbft/select-prepared: any verifiable prepared
\* certificate becomes the constraint.
BindPrepared(r, c) ==
    /\ BindConstraint(r, c)
    /\ UNCHANGED <<view, accepted, prepared, certificates, entering, tip,
                   msgs>>

-----------------------------------------------------------------------------
(* Crashes. *)

\* The state file was complete: requests in progress are lost, nothing else.
Restart(r) ==
    /\ entering[r] # {}
    /\ entering' = [entering EXCEPT ![r] = {}]
    /\ UNCHANGED <<view, accepted, prepared, certificates, mustRepropose, tip,
                   msgs>>

\* _save truncates and rewrites the file; a crash in between leaves a file
\* _load cannot parse and reads as empty.  View file and book survive.
RestartTruncated(r) ==
    /\ accepted' = [accepted EXCEPT ![r] = [x \in Slot |-> None]]
    /\ prepared' = [prepared EXCEPT ![r] = [x \in Slot |-> None]]
    /\ certificates' = [certificates EXCEPT ![r] = [s \in Seqs |-> None]]
    /\ mustRepropose' = [mustRepropose EXCEPT ![r] = None]
    /\ entering' = [entering EXCEPT ![r] = {}]
    /\ UNCHANGED <<view, tip, msgs>>

\* The view store rewrites its file in the same way when a NEW-VIEW is
\* installed, and reads what it cannot parse as view 0.  The view that was
\* being installed may lie beyond MaxView, so the crash has no other guard.
RestartViewLost(r) ==
    /\ view' = [view EXCEPT ![r] = 0]
    /\ entering' = [entering EXCEPT ![r] = {}]
    /\ UNCHANGED <<accepted, prepared, certificates, mustRepropose, tip, msgs>>

-----------------------------------------------------------------------------
\* What the environment may do to r.
Environment(r) ==
    \/ /\ "view-change" \in Routes[r]
       /\ \E v \in Views : EmitViewChange(r, v)
    \/ /\ "view-change-265" \in Routes[r]
       /\ \E v \in Views : EmitViewChange265(r, v)
    \/ /\ "new-view" \in Routes[r]
       /\ \E v \in Views, rows \in CallerRows :
             EmitNewView(r, v, rows) \/ InstallNewView(r, v, rows)
    \/ /\ "bind-prepared" \in Routes[r]
       /\ \E c \in PCert : BindPrepared(r, c)
    \/ "restart" \in Routes[r] /\ Restart(r)

Truncation(r) ==
    "truncate" \in Routes[r] /\ (RestartTruncated(r) \/ RestartViewLost(r))

VotesNext ==
    \E r \in Honest :
       \/ \E b \in Block : EmitPrePrepare(r, b) \/ AcceptPrePrepare(r, b)
       \/ \E s \in Seqs : SignPrepare(r, s) \/ ReceivePrepare(r, s)
       \/ \E v \in Views, s \in Seqs : SignCommit(r, v, s)
       \/ \E s \in Seqs : ReceiveCommit(r, s)
       \/ \E v \in Views, b \in Block :
             InstallCertificate(r, v, b) \/ WriteCertifiedBlock(r, v, b)
       \/ \E e \in entering[r] : EnterView(r, e)
       \/ Environment(r)
       \/ Truncation(r)

VotesSpec == VotesInit /\ [][VotesNext]_votesVars

-----------------------------------------------------------------------------
(* What must hold. *)

Constraint == [seq: Seqs, digest: Block]

\* The type of the state: every table of a replica holds entries of its kind.
TypeOK ==
    /\ view \in [Replica -> Views]
    /\ accepted \in [Replica -> [Slot -> Block \cup {None}]]
    /\ prepared \in [Replica -> [Slot -> Block \cup {None}]]
    /\ certificates \in [Replica -> [Seqs -> Block \cup {None}]]
    /\ mustRepropose \in [Replica -> Constraint \cup {None}]
    /\ entering \in
          [Replica -> SUBSET [view: Views, rows: SUBSET ViewChange265]]
    /\ tip \in [Replica -> Block \cup {None}]
    /\ msgs \subseteq Message

\* A replica that keeps its file signs at most one PREPARE digest per view and
\* index, although enter_view erases its locks and runs some time after the
\* view moved (emit_prepare, accept_preprepare, enter_view).
OneVotePerSlot ==
    \A m1, m2 \in msgs :
        /\ m1.kind = "prepare" /\ m2.kind = "prepare"
        /\ m1.by = m2.by /\ m1.by \notin Amnesic
        /\ m1.view = m2.view /\ m1.seq = m2.seq
        => m1.digest = m2.digest

(* What the agreement within a view rests on, together inductive. *)

\* Backed by a quorum of PREPARE rows, given the rows honest replicas signed.
Backed(rows, v, s, d) == Cardinality(VotersIn(rows, "prepare", v, s, d)) >= Q

\* An enter_view that is still due belongs to a view already installed.
EnteringBelow == \A r \in Replica : \A e \in entering[r] : e.view <= view[r]

\* A PREPARE of the current view is still locked.
VoteLocked ==
    \A m \in msgs :
        m.kind = "prepare" /\ m.by \notin Amnesic =>
            /\ m.view <= view[m.by]
            /\ m.view = view[m.by] => accepted[m.by][<<m.view, m.seq>>] = m.digest

PreparedBacked ==
    \A r \in Replica, v \in Views, s \in Seqs :
        prepared[r][<<v, s>>] # None =>
            Backed(msgs, v, s, prepared[r][<<v, s>>])

CommitBacked ==
    \A m \in msgs : m.kind = "commit" => Backed(msgs, m.view, m.seq, m.digest)

\* A PREPARE never outlives its lock within its view, and every prepared slot
\* and every COMMIT is backed by a PREPARE quorum (enter_view, _store_prepare,
\* _maybe_mark_prepared, emit_commit).
VotesInv ==
    /\ TypeOK
    /\ EnteringBelow
    /\ VoteLocked
    /\ OneVotePerSlot
    /\ PreparedBacked
    /\ CommitBacked

\* Any two quorums share a replica that keeps its file and is not faulty.  Four
\* replicas, one of them faulty or truncated, satisfy it; five do not.
QuorumsMeet == 2 * Q > N + Cardinality(Faulty \cup Amnesic)

\* Within one view no two verifiable commit certificates name the same index
\* with different hashes: two valid PRE-PREPAREs never finalize twice.
SameViewAgreement ==
    \A v \in Views, s \in Seqs, d, e \in Block :
        ValidCertificate(v, s, d) /\ ValidCertificate(v, s, e) => d = e

\* Across all views and replicas, no two incompatible finalized values.
CertificateAgreement ==
    \A r1, r2 \in Honest, s \in Seqs :
        None \in {certificates[r1][s], certificates[r2][s]}
        \/ certificates[r1][s] = certificates[r2][s]

\* A replica that holds a certificate for an index keeps its digest whatever
\* certificates reach it later; only a truncated file forgets it
\* (install_certificate, _store_commit).
CertifiedIndexKept ==
    [][\A r \in Honest, s \in Seqs :
          \/ certificates[r][s] = None
          \/ certificates'[r][s] = certificates[r][s]
          \/ r \in Amnesic /\ certificates'[r][s] = None]_votesVars

\* While a replica that keeps its files holds one prepared digest for an index,
\* no certificate for it and no constraint on another digest, it signs no
\* PREPARE for another digest at that index, in its view or in any later one
\* (_must_digest).
PreparedValueHeld ==
    [][\A m \in msgs' \ msgs, d \in Block :
          /\ m.kind = "prepare" /\ m.by \notin Amnesic
          /\ PreparedDigests(m.by, m.seq) = {d}
          /\ certificates[m.by][m.seq] = None
          /\ mustRepropose[m.by] \in {None, [seq |-> m.seq, digest |-> d]}
          => m.digest = d]_votesVars

\* No two verifiable certificates name the same index with different hashes.
CertificatesAgree ==
    \A v, w \in Views, s \in Seqs, d, e \in Block :
        ValidCertificate(v, s, d) /\ ValidCertificate(w, s, e) => d = e

\* The book and the certificate table are written by different requests, in
\* either order, in any view.  The hash a replica wrote last and the
\* certificate it holds for that index contradict each other only when two
\* verifiable certificates do (write_certified_block, install_certificate).
BookFollowsCertificates ==
    CertificatesAgree =>
        \A r \in Honest :
            tip[r] # None => certificates[r][Index[tip[r]]] \in {None, tip[r]}
=============================================================================
