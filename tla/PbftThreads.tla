---------------------------- MODULE PbftThreads -----------------------------
(***************************************************************************)
(* The handlers of PRE-PREPARE as the threads of a server run them         *)
(* (PbftFinalityStore.emit_preprepare, accept_preprepare and _accept in    *)
(* src/artcb/consensus/pbft_finality.py): the tests read the locks of the  *)
(* slot without the mutex that _accept takes to write them, so a request   *)
(* may be served between the two.  Every other request is as in PbftVotes. *)
(***************************************************************************)
EXTENDS PbftVotes

VARIABLE tested  \* tested[r]: PRE-PREPAREs that passed r's tests, not written

threadsVars == <<votesVars, tested>>

\* A handler between its tests and _accept; it signs or answers afterwards.
Served(r, b, signs) == [view |-> view[r], digest |-> b, signs |-> signs]

ThreadsInit == VotesInit /\ tested = [r \in Replica |-> {}]

-----------------------------------------------------------------------------
Passes(r, b, signs) ==
    /\ MayAccept(r, Index[b], b)
    /\ tested' = [tested EXCEPT ![r] = @ \cup {Served(r, b, signs)}]
    /\ UNCHANGED votesVars

TestEmitPrePrepare(r, b) ==
    /\ r = PrimaryOf(view[r])
    /\ Extends(r, b)
    /\ Passes(r, b, TRUE)

TestAcceptPrePrepare(r, b) ==
    /\ ValidPrePrepare(view[r], Index[b], b)
    /\ Passes(r, b, FALSE)

\* _accept, whatever the locks are by now.
WriteAccepted(r, h) ==
    LET s == Index[h.digest]
    IN  /\ h \in tested[r]
        /\ tested' = [tested EXCEPT ![r] = @ \ {h}]
        /\ Accept(r, h.view, s, h.digest)
        /\ msgs' = IF h.signs
                   THEN msgs \cup {Row("pre-prepare", h.view, s, h.digest, r)}
                   ELSE msgs
        /\ UNCHANGED <<view, prepared, certificates, mustRepropose, entering,
                       tip>>

\* A crash ends the handlers of r.
CrashThreads(r) ==
    /\ \/ "restart" \in Routes[r] /\ (Restart(r) \/ UNCHANGED votesVars)
       \/ Truncation(r)
    /\ tested' = [tested EXCEPT ![r] = {}]

\* The requests PbftVotes serves in one step.
WholeRequest(r) ==
    \/ \E s \in Seqs :
          SignPrepare(r, s) \/ ReceivePrepare(r, s) \/ ReceiveCommit(r, s)
    \/ \E v \in Views, s \in Seqs : SignCommit(r, v, s)
    \/ \E v \in Views, b \in Block :
          InstallCertificate(r, v, b) \/ WriteCertifiedBlock(r, v, b)
    \/ \E e \in entering[r] : EnterView(r, e)
    \/ Environment(r) /\ ~ Restart(r)

ThreadsNext ==
    \E r \in Honest :
       \/ \E b \in Block : TestEmitPrePrepare(r, b) \/ TestAcceptPrePrepare(r, b)
       \/ \E h \in tested[r] : WriteAccepted(r, h)
       \/ WholeRequest(r) /\ UNCHANGED tested
       \/ CrashThreads(r)

ThreadsSpec == ThreadsInit /\ [][ThreadsNext]_threadsVars
=============================================================================
