------------------------- MODULE Settlement_proofs --------------------------
(***************************************************************************)
(* Proofs about Settlement: for any set of nodes, calls, peer lists and    *)
(* SettlementIDs the invariant holds, and where quorums meet in a node     *)
(* that never restarts a WorkID is settled once.                           *)
(***************************************************************************)
EXTENDS Settlement, FiniteSetTheorems, TLAPS

\* The empty ledgers and reservations have their type.
LEMMA SettleInitInv == SettleInit => SettleInv
<1> SUFFICES ASSUME SettleInit PROVE SettleInv
    OBVIOUS
<1>1. SettleTypeOK
    BY SettlementAssumption DEF SettleInit, SettleTypeOK, Phase
<1>2. VoteStands /\ VotesAgree /\ CommitsWon
    BY DEF SettleInit, VoteStands, VotesAgree, CommitsWon
<1> QED
    BY <1>1, <1>2 DEF SettleInv

-----------------------------------------------------------------------------
(* Cardinalities. *)

\* The nodes a call can count are finitely many.
LEMMA GroupFinite ==
    ASSUME NEW c \in Call, NEW e \in Call
    PROVE  /\ IsFiniteSet(Group(c) \cup Group(e))
           /\ IsFiniteSet(Group(c))
           /\ Group(c) \subseteq Node
<1>1. Group(c) \subseteq Node /\ Group(e) \subseteq Node
    BY SettlementAssumption DEF Group
<1> QED
    BY <1>1, SettlementAssumption, FS_Subset

\* The size a quorum needs is a number.
LEMMA QuorumNat ==
    ASSUME NEW c \in Call
    PROVE  Quorum(c) \in Int
<1>1. Cardinality(Group(c)) \in Nat
    BY GroupFinite, FS_CardinalityType
<1> QED
    BY <1>1 DEF Quorum

\* A call that won has still won after votes were added.
LEMMA WonKept ==
    ASSUME SettleTypeOK, NEW c \in Call, votes[c] \subseteq votes'[c],
           votes'[c] \subseteq Group(c), Won(c)
    PROVE  Won(c)'
<1>1. IsFiniteSet(votes'[c])
    BY GroupFinite, FS_Subset
<1>2. /\ Cardinality(votes[c]) \in Nat /\ Cardinality(votes'[c]) \in Nat
      /\ Cardinality(votes[c]) <= Cardinality(votes'[c])
    BY <1>1, FS_Subset, FS_CardinalityType
<1>3. Quorum(c)' = Quorum(c)
    BY DEF Quorum, Group
<1> QED
    BY <1>2, <1>3, QuorumNat DEF Won

-----------------------------------------------------------------------------
(* Type correctness. *)

\* Writing one entry of one node's table keeps the type of the tables.
LEMMA NodeEntry ==
    ASSUME NEW V, NEW f \in [Node -> [Work -> V]],
           NEW n \in Node, NEW w \in Work, NEW s \in V
    PROVE  [f EXCEPT ![n][w] = s] \in [Node -> [Work -> V]]
OBVIOUS

\* A prepare or a commit writes SettlementIDs only.
LEMMA LocalTypes ==
    ASSUME SettleTypeOK, NEW c \in Call, NEW n \in Node
    PROVE  /\ PrepareLocal(n, WorkOf[c], SidOf[c]) =>
                 reserved' \in [Node -> [Work -> Sid \cup {None}]]
           /\ CommitLocal(n, WorkOf[c], SidOf[c]) =>
                 /\ reserved' \in [Node -> [Work -> Sid \cup {None}]]
                 /\ settled' \in [Node -> [Work -> Sid \cup {None}]]
<1> DEFINE V == Sid \cup {None}
<1>1. /\ reserved \in [Node -> [Work -> V]]
      /\ settled \in [Node -> [Work -> V]]
    BY DEF SettleTypeOK
<1>2. WorkOf[c] \in Work /\ SidOf[c] \in V /\ None \in V
    BY SettlementAssumption
<1> HIDE DEF V
<1>3. /\ [reserved EXCEPT ![n][WorkOf[c]] = SidOf[c]] \in [Node -> [Work -> V]]
      /\ [settled EXCEPT ![n][WorkOf[c]] = SidOf[c]] \in [Node -> [Work -> V]]
      /\ [reserved EXCEPT ![n][WorkOf[c]] = None] \in [Node -> [Work -> V]]
    BY <1>1, <1>2, NodeEntry
<1>4. PrepareLocal(n, WorkOf[c], SidOf[c]) => reserved' \in [Node -> [Work -> V]]
    BY <1>1, <1>3 DEF PrepareLocal
<1>5. CommitLocal(n, WorkOf[c], SidOf[c]) =>
         /\ reserved' \in [Node -> [Work -> V]]
         /\ settled' \in [Node -> [Work -> V]]
    BY <1>1, <1>3 DEF CommitLocal
<1> QED
    BY <1>4, <1>5 DEF V

\* Losing all of a node's table keeps its type.
LEMMA NodeCleared ==
    ASSUME NEW V, NEW f \in [Node -> [Work -> V]], NEW n \in Node, None \in V
    PROVE  [f EXCEPT ![n] = [w \in Work |-> None]] \in [Node -> [Work -> V]]
OBVIOUS

\* A restart empties tables and ends calls.
LEMMA DownTypes ==
    ASSUME SettleTypeOK, NEW n \in Node, Down(n),
           settled' \in [Node -> [Work -> Sid \cup {None}]]
    PROVE  SettleTypeOK'
<1>1. reserved' \in [Node -> [Work -> Sid \cup {None}]]
    BY NodeCleared DEF Down, SettleTypeOK
<1>2. /\ phase' \in [Call -> Phase]
      /\ \A c \in Call : phase'[c] = "idle" => phase[c] = "idle"
    BY DEF Down, SettleTypeOK, Phase
<1>3. /\ asking' \in [Call -> Node \cup {None}]
      /\ \A c \in Call : asking'[c] \in Peers[c] \cup {None}
    BY DEF Down, SettleTypeOK
<1>4. requests' \subseteq requests /\ waiting' = waiting /\ votes' = votes
    BY DEF Down
<1> QED
    BY <1>1, <1>2, <1>3, <1>4 DEF SettleTypeOK, Group

\* Writing one entry of a table of calls changes that entry only.
LEMMA CallEntry ==
    ASSUME NEW V, NEW f \in [Call -> V], NEW c \in Call, NEW v \in V
    PROVE  /\ [f EXCEPT ![c] = v] \in [Call -> V]
           /\ \A e \in Call : [f EXCEPT ![c] = v][e] = IF e = c THEN v ELSE f[e]
OBVIOUS

\* The parts of the type that a step which starts, ends or advances a call
\* can disturb.
CallsOK ==
    /\ phase \in [Call -> Phase]
    /\ waiting \in [Call -> SUBSET Node]
    /\ \A c \in Call : waiting[c] \subseteq Peers[c]
    /\ asking \in [Call -> Node \cup {None}]
    /\ \A c \in Call : asking[c] \in Peers[c] \cup {None}
    /\ votes \in [Call -> SUBSET Node]
    /\ \A c \in Call : votes[c] \subseteq Group(c)
    /\ \A c \in Call : phase[c] = "idle" => votes[c] = {}

\* A step that writes at most one entry of each table of calls.
LEMMA CallStep ==
    ASSUME CallsOK, NEW c \in Call,
           \/ phase' = phase
           \/ \E p \in Phase \ {"idle"} : phase' = [phase EXCEPT ![c] = p],
           \/ waiting' = waiting
           \/ \E W \in SUBSET Peers[c] : waiting' = [waiting EXCEPT ![c] = W],
           \/ asking' = asking
           \/ \E a \in Peers[c] \cup {None} : asking' = [asking EXCEPT ![c] = a],
           \/ votes' = votes
           \/ /\ phase'[c] # "idle"
              /\ \E S \in SUBSET Group(c) : votes' = [votes EXCEPT ![c] = S]
    PROVE  CallsOK'
<1>0. Peers[c] \subseteq Node /\ Group(c) \subseteq Node
    BY SettlementAssumption DEF Group
<1>1. /\ phase' \in [Call -> Phase]
      /\ \A e \in Call : phase'[e] = "idle" => phase[e] = "idle"
    BY CallEntry DEF CallsOK, Phase
<1>2. /\ waiting' \in [Call -> SUBSET Node]
      /\ \A e \in Call : waiting'[e] \subseteq Peers[e]
    BY <1>0, CallEntry DEF CallsOK
<1>3. /\ asking' \in [Call -> Node \cup {None}]
      /\ \A e \in Call : asking'[e] \in Peers[e] \cup {None}
    BY <1>0, CallEntry DEF CallsOK
<1>4. /\ votes' \in [Call -> SUBSET Node]
      /\ \A e \in Call : votes'[e] \subseteq Group(e)
      /\ \A e \in Call : phase'[e] = "idle" => votes'[e] = {}
    <2>1. CASE votes' = votes
        BY <1>1, <2>1 DEF CallsOK
    <2>2. CASE phase'[c] # "idle" /\ \E S \in SUBSET Group(c) :
                    votes' = [votes EXCEPT ![c] = S]
        BY <1>0, <1>1, <2>2 DEF CallsOK
    <2> QED
        BY <2>1, <2>2
<1> QED
    BY <1>1, <1>2, <1>3, <1>4 DEF CallsOK, Group

\* The type in two parts.
TablesOK ==
    /\ reserved \in [Node -> [Work -> Sid \cup {None}]]
    /\ settled \in [Node -> [Work -> Sid \cup {None}]]
    /\ requests \subseteq Request
    /\ \A q \in requests : q.to \in Peers[q.call]

\* The type of the state is the type of its two parts.
LEMMA TypeParts == SettleTypeOK <=> CallsOK /\ TablesOK
BY DEF SettleTypeOK, CallsOK, TablesOK

\* A step keeps the type of every table.
LEMMA SettleTypeStep ==
    ASSUME SettleTypeOK, SettleNext
    PROVE  SettleTypeOK'
<1>0. CallsOK /\ TablesOK /\ (CallsOK' /\ TablesOK' => SettleTypeOK')
    BY TypeParts DEF SettleTypeOK, CallsOK, TablesOK
<1>1. ASSUME NEW c \in Call, Propose(c)
      PROVE  SettleTypeOK'
    <2>1. Coordinator[c] \in Node /\ Coordinator[c] \in Group(c)
        BY SettlementAssumption DEF Group
    <2>2. \E S \in SUBSET Group(c) : votes' = [votes EXCEPT ![c] = S]
        BY <1>1, <2>1 DEF Propose
    <2>3. phase'[c] # "idle"
        BY <1>0, <1>1 DEF Propose, CallsOK
    <2>4. CallsOK'
        BY <1>0, <1>1, <2>2, <2>3, CallStep DEF Propose, Phase
    <2>5. TablesOK'
        BY <1>0, <1>1, <2>1, LocalTypes DEF Propose, TablesOK
    <2> QED
        BY <1>0, <2>4, <2>5
<1>2. ASSUME NEW c \in Call, GiveUp(c) \/ NoMajority(c) \/ Finish(c)
      PROVE  SettleTypeOK'
    <2>1. CallsOK'
        BY <1>0, <1>2, CallStep DEF GiveUp, NoMajority, Finish, Phase
    <2>2. TablesOK'
        BY <1>0, <1>2 DEF GiveUp, NoMajority, Finish, TablesOK
    <2> QED
        BY <1>0, <2>1, <2>2
<1>3. ASSUME NEW c \in Call, Settle(c)
      PROVE  SettleTypeOK'
    <2>1. Coordinator[c] \in Node
        BY SettlementAssumption
    <2>2. /\ \E p \in Phase \ {"idle"} : phase' = [phase EXCEPT ![c] = p]
          /\ \/ waiting' = waiting
             \/ waiting' = [waiting EXCEPT ![c] = Peers[c]]
          /\ UNCHANGED <<asking, votes, requests>>
        BY <1>3 DEF Settle, Phase
    <2>3. CallsOK'
        BY <1>0, <2>2, CallStep
    <2>4. TablesOK'
        BY <1>0, <1>3, <2>1, LocalTypes DEF Settle, TablesOK
    <2> QED
        BY <1>0, <2>3, <2>4
<1>4. ASSUME NEW c \in Call, NEW n \in Node, Ask(c, n)
      PROVE  SettleTypeOK'
    <2>1. [kind |-> phase[c], call |-> c, to |-> n] \in Request /\ n \in Peers[c]
        BY <1>0, <1>4 DEF Ask, Request, CallsOK
    <2>2. waiting[c] \ {n} \in SUBSET Peers[c]
        BY <1>0 DEF CallsOK
    <2>3. /\ \E W \in SUBSET Peers[c] : waiting' = [waiting EXCEPT ![c] = W]
          /\ \E a \in Peers[c] \cup {None} : asking' = [asking EXCEPT ![c] = a]
          /\ UNCHANGED <<phase, votes>>
        BY <1>4, <2>1, <2>2 DEF Ask
    <2>4. CallsOK'
        BY <1>0, <2>3, CallStep
    <2>5. TablesOK'
        BY <1>0, <1>4, <2>1 DEF Ask, TablesOK
    <2> QED
        BY <1>0, <2>4, <2>5
<1>5. ASSUME NEW c \in Call, NEW n \in Node, ServePrepare(c, n)
      PROVE  SettleTypeOK'
    <2>1. n \in Group(c)
        BY <1>0, <1>5 DEF ServePrepare, TablesOK, Group
    <2>2. votes[c] \cup {n} \in SUBSET Group(c)
        BY <1>0, <2>1 DEF CallsOK
    <2>3. /\ \/ asking' = asking
             \/ asking' = [asking EXCEPT ![c] = None]
          /\ \/ votes' = votes
             \/ /\ phase'[c] # "idle"
                /\ \E S \in SUBSET Group(c) : votes' = [votes EXCEPT ![c] = S]
          /\ UNCHANGED <<phase, waiting>>
        BY <1>5, <2>2 DEF ServePrepare, Answers
    <2>4. CallsOK'
        BY <1>0, <2>3, CallStep
    <2>5. TablesOK'
        BY <1>0, <1>5, LocalTypes DEF ServePrepare, TablesOK
    <2> QED
        BY <1>0, <2>4, <2>5
<1>6. ASSUME NEW c \in Call, NEW n \in Node, ServeCommit(c, n)
      PROVE  SettleTypeOK'
    <2>1. /\ \/ asking' = asking
             \/ asking' = [asking EXCEPT ![c] = None]
          /\ UNCHANGED <<phase, waiting, votes>>
        BY <1>6 DEF ServeCommit
    <2>2. CallsOK'
        BY <1>0, <2>1, CallStep
    <2>3. TablesOK'
        BY <1>0, <1>6, LocalTypes DEF ServeCommit, TablesOK
    <2> QED
        BY <1>0, <2>2, <2>3
<1>7. ASSUME NEW c \in Call, NEW n \in Node, TornWrite(c, n)
      PROVE  SettleTypeOK'
    <2>1. settled' \in [Node -> [Work -> Sid \cup {None}]]
        BY <1>0, <1>7, NodeCleared DEF TornWrite, TablesOK
    <2> QED
        BY <1>7, <2>1, DownTypes DEF TornWrite
<1>8. ASSUME NEW n \in Node, Restart(n)
      PROVE  SettleTypeOK'
    BY <1>8, DownTypes DEF Restart, SettleTypeOK
<1> QED
    BY <1>1, <1>2, <1>3, <1>4, <1>5, <1>6, <1>7, <1>8 DEF SettleNext

-----------------------------------------------------------------------------
(* The inductive invariant. *)

\* Counting a node that reserved the work keeps every vote standing, and the
\* node's earlier votes for the work name the same SettlementID.
LEMMA ReserveKeeps ==
    ASSUME SettleInv, NEW c \in Call, NEW n \in Group(c),
           PrepareLocal(n, WorkOf[c], SidOf[c]), settled' = settled,
           \/ votes' = votes
           \/ /\ MayReserve(n, WorkOf[c], SidOf[c])
              /\ votes' = [votes EXCEPT ![c] = @ \cup {n}]
    PROVE  VoteStands' /\ VotesAgree'
<1>0. /\ n \in Node /\ WorkOf[c] \in Work
      /\ reserved \in [Node -> [Work -> Sid \cup {None}]]
      /\ votes \in [Call -> SUBSET Node]
      /\ \A e \in Call : WorkOf[e] \in Work /\ SidOf[e] \in Sid
      /\ None \notin Sid
    BY GroupFinite, SettlementAssumption DEF SettleInv, SettleTypeOK
<1>1. ASSUME NEW e \in Call, NEW m \in votes[e] \ Forgetful
      PROVE  reserved'[m][WorkOf[e]] = SidOf[e] \/ settled'[m][WorkOf[e]] # None
    <2>1. m \in Node
        BY <1>0
    <2>2. reserved[m][WorkOf[e]] = SidOf[e] \/ settled[m][WorkOf[e]] # None
        BY DEF SettleInv, VoteStands
    <2>3. CASE MayReserve(n, WorkOf[c], SidOf[c]) /\ m = n /\ WorkOf[e] = WorkOf[c]
        <3>1. SidOf[e] = SidOf[c] \/ settled[m][WorkOf[e]] # None
            BY <1>0, <2>2, <2>3 DEF MayReserve
        <3>2. reserved'[m][WorkOf[e]] = SidOf[c]
            BY <1>0, <2>1, <2>3 DEF PrepareLocal
        <3> QED
            BY <3>1, <3>2
    <2>4. CASE ~ (MayReserve(n, WorkOf[c], SidOf[c]) /\ m = n /\ WorkOf[e] = WorkOf[c])
        <3>1. reserved'[m][WorkOf[e]] = reserved[m][WorkOf[e]]
            BY <1>0, <2>1, <2>4 DEF PrepareLocal
        <3> QED
            BY <2>2, <3>1
    <2> QED
        BY <2>3, <2>4
<1>2. CASE votes' = votes
    BY <1>1, <1>2 DEF VoteStands, VotesAgree, SettleInv
<1>3. CASE /\ MayReserve(n, WorkOf[c], SidOf[c])
           /\ votes' = [votes EXCEPT ![c] = @ \cup {n}]
    <2>1. \A e \in Call : votes'[e] = IF e = c THEN votes[c] \cup {n} ELSE votes[e]
        BY <1>0, <1>3
    <2>2. reserved'[n][WorkOf[c]] = SidOf[c]
        BY <1>0, <1>3 DEF PrepareLocal
    <2>3. VoteStands'
        BY <1>1, <2>1, <2>2 DEF VoteStands
    <2>4. ASSUME NEW e \in Call, WorkOf[e] = WorkOf[c], SidOf[e] # SidOf[c],
                 n \in votes[e]
          PROVE  n \in Forgetful
        <3>1. n \notin Forgetful =>
                 reserved[n][WorkOf[c]] = SidOf[e] \/ settled[n][WorkOf[c]] # None
            BY <2>4 DEF SettleInv, VoteStands
        <3> QED
            BY <1>0, <1>3, <2>4, <3>1 DEF MayReserve
    <2>5. VotesAgree'
        <3> SUFFICES ASSUME NEW a \in Call, NEW b \in Call,
                            WorkOf[a] = WorkOf[b], SidOf[a] # SidOf[b],
                            NEW m \in votes'[a] \cap votes'[b]
                     PROVE  m \in Forgetful
            BY DEF VotesAgree
        <3>1. CASE m \in votes[a] \cap votes[b]
            BY <3>1 DEF SettleInv, VotesAgree
        <3>2. CASE m \notin votes[a] \cap votes[b]
            BY <2>1, <2>4, <3>2
        <3> QED
            BY <3>1, <3>2
    <2> QED
        BY <2>3, <2>5
<1> QED
    BY <1>2, <1>3

\* Settling at a node releases a reservation only for a work its ledger has.
LEMMA ConsumeKeeps ==
    ASSUME SettleInv, NEW c \in Call, NEW n \in Node,
           CommitLocal(n, WorkOf[c], SidOf[c]), votes' = votes
    PROVE  /\ VoteStands' /\ VotesAgree'
           /\ \A m \in Node, w \in Work :
                 \/ settled'[m][w] = settled[m][w]
                 \/ m = n /\ w = WorkOf[c] /\ settled'[m][w] = SidOf[c]
<1>0. /\ WorkOf[c] \in Work /\ SidOf[c] \in Sid /\ None \notin Sid
      /\ \A e \in Call : WorkOf[e] \in Work
      /\ reserved \in [Node -> [Work -> Sid \cup {None}]]
      /\ settled \in [Node -> [Work -> Sid \cup {None}]]
      /\ votes \in [Call -> SUBSET Node]
    BY SettlementAssumption DEF SettleInv, SettleTypeOK
<1>1. VotesAgree'
    BY DEF SettleInv, VotesAgree
<1>2. ASSUME NEW m \in Node, NEW w \in Work
      PROVE  \/ /\ settled'[m][w] = settled[m][w]
                /\ reserved'[m][w] = reserved[m][w]
             \/ m = n /\ w = WorkOf[c] /\ settled'[m][w] = SidOf[c]
    BY <1>0 DEF CommitLocal
<1>3. VoteStands'
    <2> SUFFICES ASSUME NEW e \in Call, NEW m \in votes[e] \ Forgetful
                 PROVE  \/ reserved'[m][WorkOf[e]] = SidOf[e]
                        \/ settled'[m][WorkOf[e]] # None
        BY DEF VoteStands
    <2>1. reserved[m][WorkOf[e]] = SidOf[e] \/ settled[m][WorkOf[e]] # None
        BY DEF SettleInv, VoteStands
    <2> QED
        BY <1>0, <1>2, <2>1
<1> QED
    BY <1>1, <1>2, <1>3

\* A restart touches only a node nothing is promised about.
LEMMA DownKeeps ==
    ASSUME SettleInv, NEW n \in Node, Down(n),
           \A m \in Node : m # n => settled'[m] = settled[m]
    PROVE  VoteStands' /\ VotesAgree'
<1>0. /\ reserved \in [Node -> [Work -> Sid \cup {None}]]
      /\ votes \in [Call -> SUBSET Node] /\ votes' = votes /\ n \in Forgetful
    BY DEF SettleInv, SettleTypeOK, Down
<1>1. \A m \in Node : m # n => reserved'[m] = reserved[m]
    BY <1>0 DEF Down
<1>2. VoteStands'
    BY <1>0, <1>1 DEF VoteStands, SettleInv
<1>3. VotesAgree'
    BY <1>0 DEF VotesAgree, SettleInv
<1> QED
    BY <1>2, <1>3

\* A step that adds votes, and starts a commit or settles only what was won.
Faithful ==
    /\ \A c \in Call : votes[c] \subseteq votes'[c]
    /\ \A c \in Call : phase'[c] = "commit" => phase[c] = "commit" \/ Won(c)
    /\ \A q \in requests' : q.kind = "commit" =>
           q \in requests \/ (q.call \in Call /\ Won(q.call))
    /\ \A n \in Node, w \in Work :
           \/ settled'[n][w] \in {None, settled[n][w]}
           \/ \E c \in Call :
                 WorkOf[c] = w /\ SidOf[c] = settled'[n][w] /\ Won(c)

\* Votes are only added, so what a quorum stood behind it still does.
LEMMA CommitsKept ==
    ASSUME SettleInv, SettleTypeOK', Faithful
    PROVE  CommitsWon'
<1>1. ASSUME NEW c \in Call, Won(c)
      PROVE  Won(c)'
    <2>1. votes'[c] \subseteq Group(c)
        BY DEF SettleTypeOK, Group
    <2> QED
        BY <1>1, <2>1, WonKept DEF SettleInv, Faithful
<1>2. \A c \in Call : phase'[c] = "commit" => Won(c)'
    BY <1>1 DEF SettleInv, CommitsWon, Faithful
<1>3. \A q \in requests' : q.kind = "commit" => Won(q.call)'
    <2> SUFFICES ASSUME NEW q \in requests', q.kind = "commit"
                 PROVE  Won(q.call)'
        OBVIOUS
    <2>1. q.call \in Call /\ Won(q.call)
        BY DEF SettleInv, CommitsWon, SettleTypeOK, Request, Faithful
    <2> QED
        BY <1>1, <2>1
<1>4. ASSUME NEW n \in Node, NEW w \in Work, settled'[n][w] # None
      PROVE  \E c \in Call : WorkOf[c] = w /\ SidOf[c] = settled'[n][w] /\ Won(c)'
    <2>1. \E c \in Call : WorkOf[c] = w /\ SidOf[c] = settled'[n][w] /\ Won(c)
        BY <1>4 DEF SettleInv, CommitsWon, Faithful
    <2> QED
        BY <1>1, <2>1
<1> QED
    BY <1>2, <1>3, <1>4 DEF CommitsWon

\* A step that touches no vote, reservation or ledger.
LEMMA IdleStep ==
    ASSUME SettleInv, SettleTypeOK', UNCHANGED <<reserved, settled, votes>>,
           \A c \in Call : phase'[c] = "commit" => phase[c] = "commit" \/ Won(c),
           \A q \in requests' : q.kind = "commit" =>
               q \in requests \/ (q.call \in Call /\ Won(q.call))
    PROVE  SettleInv'
<1>1. VoteStands' /\ VotesAgree'
    BY DEF SettleInv, VoteStands, VotesAgree
<1>2. Faithful
    BY DEF Faithful
<1>3. CommitsWon'
    BY <1>2, CommitsKept
<1> QED
    BY <1>1, <1>3 DEF SettleInv

\* A step of any call or node keeps the invariant, and no vote is withdrawn.
LEMMA SettleInvStep ==
    ASSUME SettleInv, SettleNext
    PROVE  SettleInv' /\ \A c \in Call : votes[c] \subseteq votes'[c]
<1>0. SettleTypeOK /\ SettleTypeOK'
    BY SettleTypeStep DEF SettleInv
<1>p. phase \in [Call -> Phase] /\ votes \in [Call -> SUBSET Node]
    BY <1>0 DEF SettleTypeOK
<1>1. ASSUME NEW c \in Call, Propose(c)
      PROVE  SettleInv' /\ \A e \in Call : votes[e] \subseteq votes'[e]
    <2> DEFINE n == Coordinator[c]
    <2>1. n \in Group(c) /\ votes[c] = {}
        BY <1>0, <1>1 DEF Propose, SettleTypeOK, Group
    <2>2. \/ votes' = votes
          \/ /\ MayReserve(n, WorkOf[c], SidOf[c])
             /\ votes' = [votes EXCEPT ![c] = @ \cup {n}]
        BY <1>p, <1>1, <2>1 DEF Propose
    <2>3. VoteStands' /\ VotesAgree'
        BY <1>1, <2>1, <2>2, ReserveKeeps DEF Propose
    <2>4. \A e \in Call : votes[e] \subseteq votes'[e]
        BY <1>p, <2>2
    <2>5. \A e \in Call : phase'[e] = "commit" => phase[e] = "commit"
        BY <1>p, <1>1 DEF Propose
    <2>6. Faithful
        BY <1>1, <2>4, <2>5 DEF Propose, Faithful
    <2>7. CommitsWon'
        BY <1>0, <2>6, CommitsKept
    <2> QED
        BY <1>0, <2>3, <2>4, <2>7 DEF SettleInv
<1>2. ASSUME NEW c \in Call, GiveUp(c) \/ NoMajority(c) \/ Finish(c)
      PROVE  SettleInv' /\ \A e \in Call : votes[e] \subseteq votes'[e]
    <2>1. /\ UNCHANGED <<reserved, settled, votes, requests>>
          /\ \A e \in Call : phase'[e] = "commit" => phase[e] = "commit"
        BY <1>p, <1>2 DEF GiveUp, NoMajority, Finish
    <2> QED
        BY <1>0, <2>1, IdleStep
<1>3. ASSUME NEW c \in Call, Settle(c)
      PROVE  SettleInv' /\ \A e \in Call : votes[e] \subseteq votes'[e]
    <2> DEFINE n == Coordinator[c]
    <2>1. n \in Node /\ Won(c) /\ votes' = votes /\ requests' = requests
        BY <1>3, SettlementAssumption DEF Settle
    <2>2. /\ VoteStands' /\ VotesAgree'
          /\ \A m \in Node, w \in Work :
                \/ settled'[m][w] = settled[m][w]
                \/ m = n /\ w = WorkOf[c] /\ settled'[m][w] = SidOf[c]
        BY <1>3, <2>1, ConsumeKeeps DEF Settle
    <2>3. \A e \in Call : phase'[e] = "commit" => phase[e] = "commit" \/ Won(e)
        BY <1>p, <1>3, <2>1 DEF Settle
    <2>4. Faithful
        BY <2>1, <2>2, <2>3 DEF Faithful
    <2>5. CommitsWon'
        BY <1>0, <2>4, CommitsKept
    <2> QED
        BY <1>0, <2>1, <2>2, <2>5 DEF SettleInv
<1>4. ASSUME NEW c \in Call, NEW n \in Node, Ask(c, n)
      PROVE  SettleInv' /\ \A e \in Call : votes[e] \subseteq votes'[e]
    <2>1. UNCHANGED <<reserved, settled, votes, phase>>
        BY <1>4 DEF Ask
    <2>2. \A q \in requests' : q.kind = "commit" =>
              q \in requests \/ (q.call \in Call /\ Won(q.call))
        BY <1>4 DEF Ask, SettleInv, CommitsWon
    <2> QED
        BY <1>0, <2>1, <2>2, IdleStep
<1>5. ASSUME NEW c \in Call, NEW n \in Node, ServePrepare(c, n)
      PROVE  SettleInv' /\ \A e \in Call : votes[e] \subseteq votes'[e]
    <2>1. /\ n \in Group(c) /\ requests' \subseteq requests
          /\ UNCHANGED <<settled, phase>>
        BY <1>0, <1>5 DEF ServePrepare, SettleTypeOK, Group
    <2>2. \/ votes' = votes
          \/ /\ MayReserve(n, WorkOf[c], SidOf[c])
             /\ votes' = [votes EXCEPT ![c] = @ \cup {n}]
        BY <1>5 DEF ServePrepare
    <2>3. VoteStands' /\ VotesAgree'
        BY <1>5, <2>1, <2>2, ReserveKeeps DEF ServePrepare
    <2>4. \A e \in Call : votes[e] \subseteq votes'[e]
        BY <1>p, <2>2
    <2>5. Faithful
        BY <2>1, <2>4 DEF Faithful
    <2>6. CommitsWon'
        BY <1>0, <2>5, CommitsKept
    <2> QED
        BY <1>0, <2>3, <2>4, <2>6 DEF SettleInv
<1>6. ASSUME NEW c \in Call, NEW n \in Node, ServeCommit(c, n)
      PROVE  SettleInv' /\ \A e \in Call : votes[e] \subseteq votes'[e]
    <2>1. /\ Won(c) /\ votes' = votes /\ phase' = phase
          /\ requests' \subseteq requests
        BY <1>6 DEF ServeCommit, SettleInv, CommitsWon
    <2>2. /\ VoteStands' /\ VotesAgree'
          /\ \A m \in Node, w \in Work :
                \/ settled'[m][w] = settled[m][w]
                \/ m = n /\ w = WorkOf[c] /\ settled'[m][w] = SidOf[c]
        BY <1>6, <2>1, ConsumeKeeps DEF ServeCommit
    <2>3. Faithful
        BY <2>1, <2>2 DEF Faithful
    <2>4. CommitsWon'
        BY <1>0, <2>3, CommitsKept
    <2> QED
        BY <1>0, <2>1, <2>2, <2>4 DEF SettleInv
<1>7. ASSUME NEW n \in Node, Down(n),
             settled' \in {settled, [settled EXCEPT ![n] = [w \in Work |-> None]]}
      PROVE  SettleInv' /\ \A e \in Call : votes[e] \subseteq votes'[e]
    <2>1. /\ votes' = votes /\ requests' \subseteq requests
          /\ \A e \in Call : phase'[e] = "commit" => phase[e] = "commit"
        BY <1>p, <1>7 DEF Down
    <2>2. /\ \A m \in Node : m # n => settled'[m] = settled[m]
          /\ \A m \in Node, w \in Work : settled'[m][w] \in {None, settled[m][w]}
        <3>1. settled \in [Node -> [Work -> Sid \cup {None}]]
            BY <1>0 DEF SettleTypeOK
        <3>2. CASE settled' = settled
            BY <3>2
        <3>3. CASE settled' = [settled EXCEPT ![n] = [w \in Work |-> None]]
            BY <3>1, <3>3
        <3> QED
            BY <1>7, <3>2, <3>3
    <2>3. VoteStands' /\ VotesAgree'
        BY <1>7, <2>2, DownKeeps
    <2>4. Faithful
        BY <2>1, <2>2 DEF Faithful
    <2>5. CommitsWon'
        BY <1>0, <2>4, CommitsKept
    <2> QED
        BY <1>0, <2>1, <2>3, <2>5 DEF SettleInv
<1> QED
    BY <1>1, <1>2, <1>3, <1>4, <1>5, <1>6, <1>7
    DEF SettleNext, TornWrite, Restart

\* A node that answered "prepared" keeps its word, whatever requests are late,
\* lost or repeated, and nothing is settled that no quorum agreed on.
THEOREM SettleInvariant == SettleSpec => []SettleInv
<1>1. SettleInv /\ [SettleNext]_settleVars => SettleInv'
    <2>1. ASSUME SettleInv, UNCHANGED settleVars
          PROVE  SettleInv'
        <3>1. SettleTypeOK'
            BY <2>1 DEF SettleInv, SettleTypeOK, settleVars, Group
        <3> QED
            BY <2>1, <3>1, IdleStep DEF settleVars
    <2> QED
        BY <2>1, SettleInvStep
<1> QED
    BY SettleInitInv, <1>1, PTL DEF SettleSpec

-----------------------------------------------------------------------------
(* One settlement per work. *)

\* Two quorums of calls for one work, where quorums meet, share a voter that
\* never restarts.
LEMMA QuorumsShare ==
    ASSUME CallsMeet, NEW c \in Call, NEW e \in Call, WorkOf[c] = WorkOf[e],
           NEW S \in SUBSET Group(c), NEW T \in SUBSET Group(e),
           Cardinality(S) >= Quorum(c), Cardinality(T) >= Quorum(e)
    PROVE  ~ (S \cap T \subseteq Forgetful)
<1> DEFINE U == Group(c) \cup Group(e)
<1>1. /\ IsFiniteSet(U) /\ S \subseteq U /\ T \subseteq U
      /\ IsFiniteSet(Forgetful)
    BY GroupFinite, SettlementAssumption, FS_Subset
<1>2. /\ IsFiniteSet(S) /\ IsFiniteSet(T)
      /\ IsFiniteSet(S \cup T) /\ S \cup T \subseteq U
      /\ IsFiniteSet(S \cap T)
    BY <1>1, FS_Subset, FS_Union
<1>3. /\ Cardinality(U) \in Nat /\ Cardinality(Forgetful) \in Nat
      /\ Cardinality(S) \in Nat /\ Cardinality(T) \in Nat
      /\ Cardinality(S \cap T) \in Nat /\ Cardinality(S \cup T) \in Nat
    BY <1>1, <1>2, FS_CardinalityType
<1>4. Cardinality(S \cup T)
        = Cardinality(S) + Cardinality(T) - Cardinality(S \cap T)
    BY <1>2, FS_Union
<1>5. Cardinality(S \cup T) <= Cardinality(U)
    BY <1>1, <1>2, FS_Subset
<1>6. Quorum(c) + Quorum(e) > Cardinality(U) + Cardinality(Forgetful)
    BY DEF CallsMeet
<1>7. Cardinality(S \cap T) > Cardinality(Forgetful)
    BY <1>3, <1>4, <1>5, <1>6, QuorumNat
<1> QED
    BY <1>1, <1>3, <1>7, FS_Subset

\* Two calls for one work that both won voted for one SettlementID.
LEMMA WinnersAgree ==
    ASSUME CallsMeet, SettleTypeOK, VotesAgree,
           NEW c \in Call, NEW e \in Call, WorkOf[c] = WorkOf[e], Won(c), Won(e)
    PROVE  SidOf[c] = SidOf[e]
<1>1. votes[c] \in SUBSET Group(c) /\ votes[e] \in SUBSET Group(e)
    BY DEF SettleTypeOK
<1> QED
    BY <1>1, QuorumsShare DEF VotesAgree, Won

\* Same WorkID, different SettlementID: never two payments, on any two nodes,
\* whatever is late or lost, when quorums meet in a node that never restarts.
THEOREM SettlementUnique ==
    ASSUME CallsMeet
    PROVE  SettleSpec => []OneSettlement
<1>1. SettleInv => OneSettlement
    <2> SUFFICES ASSUME SettleInv, NEW n \in Node, NEW m \in Node, NEW w \in Work,
                        settled[n][w] # None, settled[m][w] # None
                 PROVE  settled[n][w] = settled[m][w]
        BY DEF OneSettlement
    <2>1. PICK c \in Call : WorkOf[c] = w /\ SidOf[c] = settled[n][w] /\ Won(c)
        BY DEF SettleInv, CommitsWon
    <2>2. PICK e \in Call : WorkOf[e] = w /\ SidOf[e] = settled[m][w] /\ Won(e)
        BY DEF SettleInv, CommitsWon
    <2> QED
        BY <2>1, <2>2, WinnersAgree DEF SettleInv
<1> QED
    BY <1>1, SettleInvariant, PTL

-----------------------------------------------------------------------------
(* Settlement implements WorkSettlement. *)

\* The SettlementIDs a quorum agreed on, as WorkSettlement sees them.
Winners == [w \in Work |->
              {SidOf[c] : c \in {e \in Call : WorkOf[e] = w /\ Won(e)}}]

\* A step counts votes of one call, settles one won work at one node, empties
\* one ledger, or does none of these.
LEMMA StepKinds ==
    ASSUME SettleInv, SettleNext
    PROVE  \/ votes' = votes /\ settled' = settled
           \/ /\ settled' = settled
              /\ \E c \in Call : \A e \in Call : e # c => votes'[e] = votes[e]
           \/ /\ votes' = votes
              /\ \E c \in Call, n \in Node :
                    Won(c) /\ settled' = [settled EXCEPT ![n][WorkOf[c]] = SidOf[c]]
           \/ /\ votes' = votes
              /\ \E n \in Node :
                    settled' = [settled EXCEPT ![n] = [w \in Work |-> None]]
<1>0. votes \in [Call -> SUBSET Node] /\ Coordinator \in [Call -> Node]
    BY SettlementAssumption DEF SettleInv, SettleTypeOK
<1>1. ASSUME NEW c \in Call, NEW n \in Node, ServePrepare(c, n)
      PROVE  /\ settled' = settled
             /\ \A e \in Call : e # c => votes'[e] = votes[e]
    BY <1>0, <1>1 DEF ServePrepare
<1>2. ASSUME NEW c \in Call, Propose(c)
      PROVE  /\ settled' = settled
             /\ \A e \in Call : e # c => votes'[e] = votes[e]
    BY <1>0, <1>2 DEF Propose
<1>3. ASSUME NEW c \in Call, NEW n \in Node,
             GiveUp(c) \/ NoMajority(c) \/ Finish(c) \/ Ask(c, n)
      PROVE  votes' = votes /\ settled' = settled
    BY <1>3 DEF GiveUp, NoMajority, Finish, Ask
<1>4. ASSUME NEW c \in Call, NEW n \in Node,
             (Settle(c) /\ n = Coordinator[c]) \/ ServeCommit(c, n)
      PROVE  /\ votes' = votes /\ Won(c)
             /\ \/ settled' = settled
                \/ settled' = [settled EXCEPT ![n][WorkOf[c]] = SidOf[c]]
    BY <1>4 DEF Settle, ServeCommit, CommitLocal, SettleInv, CommitsWon
<1>5. ASSUME NEW c \in Call, NEW n \in Node, TornWrite(c, n) \/ Restart(n)
      PROVE  /\ votes' = votes
             /\ \/ settled' = settled
                \/ settled' = [settled EXCEPT ![n] = [w \in Work |-> None]]
    BY <1>5 DEF TornWrite, Restart, Down
<1>6. ASSUME NEW n \in Node, Restart(n)
      PROVE  votes' = votes /\ settled' = settled
    BY <1>6 DEF Restart, Down
<1>7. CASE \E n \in Node : Restart(n)
    BY <1>6, <1>7
<1>8. ASSUME NEW c \in Call,
             \/ Propose(c) \/ GiveUp(c) \/ NoMajority(c) \/ Settle(c) \/ Finish(c)
             \/ \E n \in Node :
                   \/ Ask(c, n) \/ ServePrepare(c, n) \/ ServeCommit(c, n)
                   \/ TornWrite(c, n)
      PROVE  \/ votes' = votes /\ settled' = settled
             \/ /\ settled' = settled
                /\ \A e \in Call : e # c => votes'[e] = votes[e]
             \/ /\ votes' = votes
                /\ \E n \in Node :
                    Won(c) /\ settled' = [settled EXCEPT ![n][WorkOf[c]] = SidOf[c]]
             \/ /\ votes' = votes
                /\ \E n \in Node :
                    settled' = [settled EXCEPT ![n] = [w \in Work |-> None]]
    BY <1>0, <1>1, <1>2, <1>3, <1>4, <1>5, <1>8
<1> QED
    BY <1>7, <1>8 DEF SettleNext

\* The step a settlement step implements.
LEMMA PromiseStep ==
    ASSUME CallsMeet, SettleInv, SettleInv', SettleNext,
           \A c \in Call : votes[c] \subseteq votes'[c]
    PROVE  [Promise!WorkNext]_(Promise!workVars)
<1> DEFINE W == Winners
<1>0. /\ settled \in [Node -> [Work -> Sid \cup {None}]]
      /\ \A c \in Call : WorkOf[c] \in Work /\ SidOf[c] \in Sid
    BY SettlementAssumption DEF SettleInv, SettleTypeOK
<1>1. ASSUME votes' = votes
      PROVE  Winners' = Winners
    BY <1>1 DEF Winners, Won, Quorum, Group
<1>2. CASE votes' = votes /\ settled' = settled
    BY <1>1, <1>2 DEF Promise!workVars, Winners
<1>3. ASSUME settled' = settled, NEW c \in Call,
             \A e \in Call : e # c => votes'[e] = votes[e]
      PROVE  [Promise!WorkNext]_(Promise!workVars)
    <2>1. \A e \in Call : e # c => (Won(e)' <=> Won(e))
        BY <1>3 DEF Won, Quorum, Group
    <2>2. Won(c) => Won(c)'
        <3>1. votes'[c] \subseteq Group(c)
            BY DEF SettleInv, SettleTypeOK, Group
        <3> QED
            BY <3>1, WonKept DEF SettleInv
    <2>3. CASE ~ Won(c)'
        <3>1. \A e \in Call : Won(e)' <=> Won(e)
            BY <2>1, <2>2, <2>3
        <3>2. Winners' = Winners
            BY <3>1 DEF Winners
        <3> QED
            BY <1>3, <3>2 DEF Promise!workVars, Winners
    <2>4. CASE Won(c)'
        <3> DEFINE w == WorkOf[c]
                   s == SidOf[c]
        <3>1. \A e \in Call : WorkOf[e] = w /\ Won(e)' => SidOf[e] = s
            <4> SUFFICES ASSUME NEW e \in Call, WorkOf[e] = w, Won(e)'
                         PROVE  SidOf[e] = s
                OBVIOUS
            <4>1. votes'[c] \in SUBSET Group(c) /\ votes'[e] \in SUBSET Group(e)
                BY DEF SettleInv, SettleTypeOK, Group
            <4>2. /\ Cardinality(votes'[c]) >= Quorum(c)
                  /\ Cardinality(votes'[e]) >= Quorum(e)
                BY <2>4 DEF Won, Quorum, Group
            <4>3. ~ (votes'[c] \cap votes'[e] \subseteq Forgetful)
                BY <4>1, <4>2, QuorumsShare
            <4> QED
                BY <4>3 DEF SettleInv, VotesAgree
        <3>2. \A u \in Work : Winners'[u] = IF u = w THEN {s} ELSE Winners[u]
            BY <2>1, <2>4, <3>1 DEF Winners
        <3>3. Winners[w] \subseteq {s}
            BY <1>0, <2>1, <2>2, <3>1 DEF Winners
        <3>4. Winners' = [Winners EXCEPT ![w] = {s}]
            BY <1>0, <3>2 DEF Winners
        <3>5. Promise!Win(w, s)
            BY <1>3, <3>3, <3>4 DEF Promise!Win, Winners
        <3> QED
            BY <1>0, <3>5 DEF Promise!WorkNext
    <2> QED
        BY <2>3, <2>4
<1>4. ASSUME votes' = votes, NEW c \in Call, NEW n \in Node, Won(c),
             settled' = [settled EXCEPT ![n][WorkOf[c]] = SidOf[c]]
      PROVE  [Promise!WorkNext]_(Promise!workVars)
    <2>1. SidOf[c] \in Winners[WorkOf[c]]
        BY <1>0, <1>4 DEF Winners
    <2>2. Promise!Pay(n, WorkOf[c])
        BY <1>1, <1>4, <2>1 DEF Promise!Pay, Winners
    <2> QED
        BY <1>0, <2>2 DEF Promise!WorkNext
<1>5. ASSUME votes' = votes, NEW n \in Node,
             settled' = [settled EXCEPT ![n] = [w \in Work |-> None]]
      PROVE  [Promise!WorkNext]_(Promise!workVars)
    <2>1. Promise!Forget(n)
        BY <1>1, <1>5 DEF Promise!Forget, Winners
    <2> QED
        BY <2>1 DEF Promise!WorkNext
<1> QED
    BY <1>2, <1>3, <1>4, <1>5, StepKinds

\* Settlement implements its promise: a work is won once, a ledger pays what
\* was won.
THEOREM SettlementRefines ==
    ASSUME CallsMeet
    PROVE  SettleSpec => WorkSettled
<1>1. SettleInit => Promise!WorkInit
    <2> SUFFICES ASSUME SettleInit PROVE Promise!WorkInit
        OBVIOUS
    <2>1. \A c \in Call : ~ Won(c)
        <3> SUFFICES ASSUME NEW c \in Call PROVE ~ Won(c)
            OBVIOUS
        <3>1. Group(c) # {} /\ IsFiniteSet(Group(c))
            BY GroupFinite DEF Group
        <3>2. Cardinality(Group(c)) \in Nat /\ Cardinality(Group(c)) # 0
            BY <3>1, FS_CardinalityType, FS_EmptySet
        <3>3. Quorum(c) >= 1
            BY <3>2 DEF Quorum
        <3>4. Cardinality(votes[c]) = 0
            BY FS_EmptySet DEF SettleInit
        <3> QED
            BY <3>3, <3>4, QuorumNat DEF Won
    <2> QED
        BY <2>1 DEF SettleInit, Promise!WorkInit
<1>2. SettleInv /\ SettleInv' /\ [SettleNext]_settleVars
        => [Promise!WorkNext]_(Promise!workVars)
    <2>1. UNCHANGED settleVars => UNCHANGED Promise!workVars
        BY DEF settleVars, Promise!workVars, Won, Quorum, Group
    <2> QED
        BY <2>1, SettleInvStep, PromiseStep
<1> QED
    BY <1>1, <1>2, SettleInvariant, PTL DEF SettleSpec, WorkSettled, Promise!WorkSpec
=============================================================================
