----------------------------- MODULE Settlement -----------------------------
(***************************************************************************)
(* Settlement of a WorkID among live peers: prepare, then commit           *)
(* (LiveBftEngine in src/artcb/consensus/live_bft.py, the ledger in        *)
(* src/artcb/economics/economic_snapshot.py, the HTTP handlers in          *)
(* src/api/consensus_routes.py).                                           *)
(*                                                                         *)
(* A call of propose is a thread of its coordinator's server.  It asks its *)
(* peers one after the other; each request may be served at once, after    *)
(* the caller has timed out, or never, and the answer may be lost.         *)
(* Reservations live in memory, the ledger in a file that is truncated and *)
(* rewritten for every settlement.                                         *)
(***************************************************************************)
EXTENDS Integers, FiniteSets

CONSTANTS
    Node,         \* servers
    Call,         \* calls of propose
    Work,         \* WorkIDs
    Sid,          \* SettlementIDs
    Coordinator,  \* Coordinator[c]: the node that serves call c
    Peers,        \* Peers[c]: the compatible peers that node lists
    WorkOf,       \* WorkOf[c]: the WorkID proposed
    SidOf,        \* SidOf[c]: its SettlementID (forged_sid: any)
    Forgetful,    \* nodes that may restart
    None          \* an absent entry

ASSUME SettlementAssumption ==
    /\ IsFiniteSet(Node)
    /\ Coordinator \in [Call -> Node]
    /\ Peers \in [Call -> SUBSET Node]
    /\ \A c \in Call : Coordinator[c] \notin Peers[c]
    /\ WorkOf \in [Call -> Work]
    /\ SidOf \in [Call -> Sid]
    /\ Forgetful \subseteq Node
    /\ None \notin Sid \cup Node

VARIABLES
    reserved,  \* reserved[n][w]: the SettlementID n holds w for
    settled,   \* settled[n][w]: the SettlementID n's ledger has for w
    phase,     \* phase[c]: where call c stands
    waiting,   \* waiting[c]: peers c has still to ask in this phase
    asking,    \* asking[c]: the peer whose answer c waits for
    votes,     \* votes[c]: the nodes c counted as prepared
    requests   \* requests sent and not served

settleVars == <<reserved, settled, phase, waiting, asking, votes, requests>>

Phase   == {"idle", "prepare", "commit", "done"}
Request == [kind: {"prepare", "commit"}, call: Call, to: Node]

-----------------------------------------------------------------------------
Group(c) == {Coordinator[c]} \cup Peers[c]

\* Seeded fault: one vote too few.
QuorumShort(c) == 2 * ((Cardinality(Group(c)) - 1) \div 3)

\* n_f_q of the peers the coordinator itself lists.
Quorum(c) == 2 * ((Cardinality(Group(c)) - 1) \div 3) + 1

Won(c) == Cardinality(votes[c]) >= Quorum(c)

\* Seeded fault: a work reserved for another SettlementID is reserved again.
MayReserveAnyway(n, w, s) == settled[n][w] = None

MayReserve(n, w, s) == settled[n][w] = None /\ reserved[n][w] \in {None, s}

\* prepare_local.
PrepareLocal(n, w, s) ==
    reserved' = IF MayReserve(n, w, s)
                THEN [reserved EXCEPT ![n][w] = s]
                ELSE reserved

\* SettlementLedger.consume raises AlreadySettled otherwise.
Fresh(n, w, s) ==
    /\ settled[n][w] = None
    /\ \A u \in Work : settled[n][u] # s

\* commit_local: whoever holds the reservation, the ledger decides.
CommitLocal(n, w, s) ==
    IF Fresh(n, w, s)
    THEN /\ settled' = [settled EXCEPT ![n][w] = s]
         /\ reserved' = [reserved EXCEPT ![n][w] = None]
    ELSE UNCHANGED <<settled, reserved>>

-----------------------------------------------------------------------------
SettleInit ==
    /\ reserved = [n \in Node |-> [w \in Work |-> None]]
    /\ settled = [n \in Node |-> [w \in Work |-> None]]
    /\ phase = [c \in Call |-> "idle"]
    /\ waiting = [c \in Call |-> {}]
    /\ asking = [c \in Call |-> None]
    /\ votes = [c \in Call |-> {}]
    /\ requests = {}

\* propose: fewer than four nodes are refused, then the local prepare.
Propose(c) ==
    LET n == Coordinator[c]
    IN  /\ phase[c] = "idle"
        /\ Cardinality(Group(c)) >= 4
        /\ PrepareLocal(n, WorkOf[c], SidOf[c])
        /\ votes' = [votes EXCEPT ![c] =
              IF MayReserve(n, WorkOf[c], SidOf[c]) THEN {n} ELSE {}]
        /\ phase' = [phase EXCEPT ![c] = "prepare"]
        /\ waiting' = [waiting EXCEPT ![c] = Peers[c]]
        /\ UNCHANGED <<settled, asking, requests>>

Ask(c, n) ==
    /\ phase[c] \in {"prepare", "commit"}
    /\ asking[c] = None
    /\ n \in waiting[c]
    /\ requests' = requests \cup {[kind |-> phase[c], call |-> c, to |-> n]}
    /\ asking' = [asking EXCEPT ![c] = n]
    /\ waiting' = [waiting EXCEPT ![c] = @ \ {n}]
    /\ UNCHANGED <<reserved, settled, phase, votes>>

\* The timeout of _http_json, a refused connection or a lost answer.
GiveUp(c) ==
    /\ asking[c] # None
    /\ asking' = [asking EXCEPT ![c] = None]
    /\ UNCHANGED <<reserved, settled, phase, waiting, votes, requests>>

\* The caller is still there for the answer.
Answers(c, kind, n) == phase[c] = kind /\ asking[c] = n

ServePrepare(c, n) ==
    LET q == [kind |-> "prepare", call |-> c, to |-> n]
    IN  /\ q \in requests
        /\ requests' = requests \ {q}
        /\ PrepareLocal(n, WorkOf[c], SidOf[c])
        /\ \/ /\ Answers(c, "prepare", n)
              /\ asking' = [asking EXCEPT ![c] = None]
              /\ votes' = IF MayReserve(n, WorkOf[c], SidOf[c])
                          THEN [votes EXCEPT ![c] = @ \cup {n}]
                          ELSE votes
           \/ UNCHANGED <<asking, votes>>
        /\ UNCHANGED <<settled, phase, waiting>>

\* Every peer was asked.
Asked(c, p) == phase[c] = p /\ waiting[c] = {} /\ asking[c] = None

NoMajority(c) ==
    /\ Asked(c, "prepare")
    /\ ~ Won(c)
    /\ phase' = [phase EXCEPT ![c] = "done"]
    /\ UNCHANGED <<reserved, settled, waiting, asking, votes, requests>>

\* Seeded fault: the quorum is not counted.
SettleAnyway(c) ==
    /\ Asked(c, "prepare")
    /\ CommitLocal(Coordinator[c], WorkOf[c], SidOf[c])
    /\ phase' = [phase EXCEPT ![c] = "commit"]
    /\ waiting' = [waiting EXCEPT ![c] = Peers[c]]
    /\ UNCHANGED <<asking, votes, requests>>

\* The coordinator settles first; a ledger that has the SettlementID for
\* another WorkID ends the call.
Settle(c) ==
    LET n == Coordinator[c]
    IN  /\ Asked(c, "prepare")
        /\ Won(c)
        /\ CommitLocal(n, WorkOf[c], SidOf[c])
        /\ IF settled'[n][WorkOf[c]] = None
           THEN /\ phase' = [phase EXCEPT ![c] = "done"]
                /\ UNCHANGED waiting
           ELSE /\ phase' = [phase EXCEPT ![c] = "commit"]
                /\ waiting' = [waiting EXCEPT ![c] = Peers[c]]
        /\ UNCHANGED <<asking, votes, requests>>

ServeCommit(c, n) ==
    LET q == [kind |-> "commit", call |-> c, to |-> n]
    IN  /\ q \in requests
        /\ requests' = requests \ {q}
        /\ CommitLocal(n, WorkOf[c], SidOf[c])
        /\ \/ /\ Answers(c, "commit", n)
              /\ asking' = [asking EXCEPT ![c] = None]
           \/ UNCHANGED asking
        /\ UNCHANGED <<phase, waiting, votes>>

Finish(c) ==
    /\ Asked(c, "commit")
    /\ phase' = [phase EXCEPT ![c] = "done"]
    /\ UNCHANGED <<reserved, settled, waiting, asking, votes, requests>>

-----------------------------------------------------------------------------
(* A server restarts: its reservations, its calls and the requests it had *)
(* received are gone; what its own calls sent is still on its way.        *)

Down(n) ==
    /\ n \in Forgetful
    /\ reserved' = [reserved EXCEPT ![n] = [w \in Work |-> None]]
    /\ phase' = [c \in Call |->
          IF Coordinator[c] = n /\ phase[c] # "idle" THEN "done" ELSE phase[c]]
    /\ asking' = [c \in Call |-> IF Coordinator[c] = n THEN None ELSE asking[c]]
    /\ requests' = {q \in requests : q.to # n}
    /\ UNCHANGED <<waiting, votes>>

Restart(n) == Down(n) /\ UNCHANGED settled

\* The ledger file is truncated before it is rewritten: a crash in between
\* leaves a file __init__ cannot parse and starts from empty.
TornWrite(c, n) ==
    /\ \/ [kind |-> "commit", call |-> c, to |-> n] \in requests
       \/ n = Coordinator[c] /\ Asked(c, "prepare") /\ Won(c)
    /\ Fresh(n, WorkOf[c], SidOf[c])
    /\ Down(n)
    /\ settled' = [settled EXCEPT ![n] = [w \in Work |-> None]]

-----------------------------------------------------------------------------
SettleNext ==
    \/ \E c \in Call :
          \/ Propose(c) \/ GiveUp(c) \/ NoMajority(c) \/ Settle(c) \/ Finish(c)
          \/ \E n \in Node :
                \/ Ask(c, n) \/ ServePrepare(c, n) \/ ServeCommit(c, n)
                \/ TornWrite(c, n)
    \/ \E n \in Node : Restart(n)

SettleSpec == SettleInit /\ [][SettleNext]_settleVars

-----------------------------------------------------------------------------
(* What must hold. *)

\* Any two quorums for one work share a node that never restarts: Q = 2F+1 of
\* four nodes, at most one of which restarts, satisfy it.
CallsMeet ==
    \A c, e \in Call :
        WorkOf[c] = WorkOf[e] =>
            Quorum(c) + Quorum(e)
                > Cardinality(Group(c) \cup Group(e)) + Cardinality(Forgetful)

\* The type of the state.
SettleTypeOK ==
    /\ reserved \in [Node -> [Work -> Sid \cup {None}]]
    /\ settled \in [Node -> [Work -> Sid \cup {None}]]
    /\ phase \in [Call -> Phase]
    /\ waiting \in [Call -> SUBSET Node]
    /\ \A c \in Call : waiting[c] \subseteq Peers[c]
    /\ asking \in [Call -> Node \cup {None}]
    /\ \A c \in Call : asking[c] \in Peers[c] \cup {None}
    /\ votes \in [Call -> SUBSET Node]
    /\ \A c \in Call : votes[c] \subseteq Group(c)
    /\ \A c \in Call : phase[c] = "idle" => votes[c] = {}
    /\ requests \subseteq Request
    /\ \A q \in requests : q.to \in Peers[q.call]

\* A node that answered "prepared" and never restarts holds the work for that
\* SettlementID until its ledger has the work (prepare_local, commit_local).
VoteStands ==
    \A c \in Call : \A n \in votes[c] \ Forgetful :
        \/ reserved[n][WorkOf[c]] = SidOf[c]
        \/ settled[n][WorkOf[c]] # None

\* It answered "prepared" for one SettlementID of a work only.
VotesAgree ==
    \A c, e \in Call :
        WorkOf[c] = WorkOf[e] /\ SidOf[c] # SidOf[e] =>
            votes[c] \cap votes[e] \subseteq Forgetful

\* Every commit on its way, and every ledger row, has a quorum behind it: a
\* late, lost or repeated commit request never settles what was not agreed.
CommitsWon ==
    /\ \A c \in Call : phase[c] = "commit" => Won(c)
    /\ \A q \in requests : q.kind = "commit" => Won(q.call)
    /\ \A n \in Node, w \in Work :
          settled[n][w] # None =>
              \E c \in Call : WorkOf[c] = w /\ SidOf[c] = settled[n][w] /\ Won(c)

\* The inductive invariant behind the uniqueness of settlement.
SettleInv == SettleTypeOK /\ VoteStands /\ VotesAgree /\ CommitsWon

\* Same WorkID, different SettlementID: never two payments, on any two nodes.
OneSettlement ==
    \A n, m \in Node, w \in Work :
        None \in {settled[n][w], settled[m][w]} \/ settled[n][w] = settled[m][w]

\* Settlement implements what it promises: the SettlementIDs that won, and
\* what the ledgers paid.
Promise == INSTANCE WorkSettlement WITH
    winners <- [w \in Work |->
                   {SidOf[c] : c \in {e \in Call : WorkOf[e] = w /\ Won(e)}}],
    paid    <- settled

WorkSettled == Promise!WorkSpec
=============================================================================
