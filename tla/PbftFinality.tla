---------------------------- MODULE PbftFinality ----------------------------
(***************************************************************************)
(* The finality store of a replica with the PREPARE and COMMIT rows it     *)
(* keeps (PbftFinalityStore in src/artcb/consensus/pbft_finality.py).      *)
(*                                                                         *)
(* PbftVotes leaves open when a signed quorum has reached a replica.  Here *)
(* a row counts once the replica stored it, under the key                  *)
(* view:seq:replica_id, where a later row of the same signer replaces an   *)
(* earlier one.  PbftFinality implements PbftVotes: hiding the two stores  *)
(* is the whole refinement mapping.                                        *)
(***************************************************************************)
EXTENDS PbftVotes

VARIABLES
    prepareMsgs,  \* prepareMsgs[r]: PREPARE rows r stored
    commitMsgs    \* commitMsgs[r]: COMMIT rows r stored

stores == <<prepareMsgs, commitMsgs>>

finalityVars == <<votesVars, stores>>

FinalityInit ==
    /\ VotesInit
    /\ prepareMsgs = [r \in Replica |-> {}]
    /\ commitMsgs = [r \in Replica |-> {}]

\* The table after m went in: one row per view, index and signer.
Store(rows, m) ==
    {n \in rows : <<n.view, n.seq, n.by>> # <<m.view, m.seq, m.by>>} \cup {m}

\* The signers of the stored rows that match.
Matching(rows, v, s, d) ==
    {m.by : m \in {n \in rows : n.view = v /\ n.seq = s /\ n.digest = d}}

-----------------------------------------------------------------------------
(* _store_prepare and _maybe_mark_prepared, _store_commit. *)

\* Seeded fault: one row too few.
StorePrepareEarly(r, m) ==
    /\ prepareMsgs' = [prepareMsgs EXCEPT ![r] = Store(@, m)]
    /\ prepared' =
          IF Cardinality(Matching(prepareMsgs'[r], m.view, m.seq, m.digest))
                >= Q - 1
          THEN [prepared EXCEPT ![r][<<m.view, m.seq>>] = m.digest]
          ELSE prepared
    /\ UNCHANGED commitMsgs

StorePrepare(r, m) ==
    /\ prepareMsgs' = [prepareMsgs EXCEPT ![r] = Store(@, m)]
    /\ prepared' =
          IF Cardinality(Matching(prepareMsgs'[r], m.view, m.seq, m.digest)) >= Q
          THEN [prepared EXCEPT ![r][<<m.view, m.seq>>] = m.digest]
          ELSE prepared
    /\ UNCHANGED commitMsgs

StoreCommit(r, m) ==
    /\ commitMsgs' = [commitMsgs EXCEPT ![r] = Store(@, m)]
    /\ certificates' =
          IF /\ FinalizedDigest(r, m.seq) \in {None, m.digest}
             /\ Cardinality(Matching(commitMsgs'[r], m.view, m.seq, m.digest)) >= Q
          THEN [certificates EXCEPT ![r][m.seq] = m.digest]
          ELSE certificates
    /\ UNCHANGED prepareMsgs

EmitPrepare(r, s) ==
    LET d == accepted[r][<<view[r], s>>]
        m == Row("prepare", view[r], s, d, r)
    IN  /\ d # None
        /\ msgs' = msgs \cup {m}
        /\ StorePrepare(r, m)
        /\ UNCHANGED <<view, accepted, certificates, mustRepropose, entering,
                       tip>>

\* Seeded faults: the signature is not verified; the lock is not compared.
AcceptForgedPrepare(r, s, from) ==
    LET d == accepted[r][<<view[r], s>>]
    IN  /\ d # None
        /\ StorePrepare(r, Row("prepare", view[r], s, d, from))
        /\ UNCHANGED <<view, accepted, certificates, mustRepropose, entering,
                       tip, msgs>>

AcceptUnlockedPrepare(r, s, from) ==
    \E d \in Block :
        /\ Signed(Row("prepare", view[r], s, d, from))
        /\ StorePrepare(r, Row("prepare", view[r], s, d, from))
        /\ UNCHANGED <<view, accepted, certificates, mustRepropose, entering,
                       tip, msgs>>

\* A row of the current view that matches the lock; the sender may repeat it.
AcceptPrepare(r, s, from) ==
    LET d == accepted[r][<<view[r], s>>]
        m == Row("prepare", view[r], s, d, from)
    IN  /\ d # None
        /\ Signed(m)
        /\ StorePrepare(r, m)
        /\ UNCHANGED <<view, accepted, certificates, mustRepropose, entering,
                       tip, msgs>>

EmitCommit(r, v, s) ==
    LET d == prepared[r][<<v, s>>]
        m == Row("commit", v, s, d, r)
    IN  /\ d # None
        /\ msgs' = msgs \cup {m}
        /\ StoreCommit(r, m)
        /\ UNCHANGED <<view, accepted, prepared, mustRepropose, entering, tip>>

AcceptCommit(r, s, from) ==
    LET d == prepared[r][<<view[r], s>>]
        m == Row("commit", view[r], s, d, from)
    IN  /\ d # None
        /\ Signed(m)
        /\ StoreCommit(r, m)
        /\ UNCHANGED <<view, accepted, prepared, mustRepropose, entering, tip,
                       msgs>>

\* The rows are part of the store's file, which a crash may truncate.
LoseStores(r) ==
    /\ RestartTruncated(r)
    /\ prepareMsgs' = [prepareMsgs EXCEPT ![r] = {}]
    /\ commitMsgs' = [commitMsgs EXCEPT ![r] = {}]

\* The requests that store no PREPARE or COMMIT row.
OtherRequest(r) ==
    \/ \E b \in Block : EmitPrePrepare(r, b) \/ AcceptPrePrepare(r, b)
    \/ \E v \in Views, b \in Block :
          InstallCertificate(r, v, b) \/ WriteCertifiedBlock(r, v, b)
    \/ \E e \in entering[r] : EnterView(r, e)
    \/ Environment(r)

FinalityNext ==
    \E r \in Honest :
       \/ \E s \in Seqs : EmitPrepare(r, s)
       \/ \E s \in Seqs, from \in Replica :
             AcceptPrepare(r, s, from) \/ AcceptCommit(r, s, from)
       \/ \E v \in Views, s \in Seqs : EmitCommit(r, v, s)
       \/ OtherRequest(r) /\ UNCHANGED stores
       \/ "truncate" \in Routes[r] /\ LoseStores(r)
       \/ "truncate" \in Routes[r] /\ RestartViewLost(r) /\ UNCHANGED stores

FinalitySpec == FinalityInit /\ [][FinalityNext]_finalityVars

-----------------------------------------------------------------------------
(* What must hold. *)

\* The tables hold rows of their kind, every one of them signed by the replica
\* it names (verify_prepare, verify_commit).
StoresTypeOK ==
    \A r \in Replica :
        /\ \A m \in prepareMsgs[r] : m \in Vote /\ m.kind = "prepare" /\ Signed(m)
        /\ \A m \in commitMsgs[r] : m \in Vote /\ m.kind = "commit" /\ Signed(m)

\* The PREPARE quorum behind a prepared slot stays in the table: no later row,
\* of an equivocating signer or of a repeated request, takes a vote away
\* (_store_prepare keys a row by view, index and signer, not by digest).
PreparedStillProven ==
    \A r \in Honest \ Amnesic, v \in Views, s \in Seqs :
        LET d == prepared[r][<<v, s>>]
        IN  d # None => Cardinality(Matching(prepareMsgs[r], v, s, d)) >= Q
=============================================================================
