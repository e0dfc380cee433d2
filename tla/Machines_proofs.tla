-------------------------- MODULE Machines_proofs ---------------------------
(***************************************************************************)
(* Machines and the people behind them: the fleet of an owner, the device  *)
(* a wallet is bound to, the way in of a node, the jobs of a pool and the  *)
(* addresses a node refuses, for any machines, people, threads and crashes.*)
(***************************************************************************)
EXTENDS MachineEpochs, DeviceBindings, NetworkGate, PoolJobs, Slashing,
        SequenceTheorems, TLAPS

-----------------------------------------------------------------------------
(* Fleets: no machine is lost between two owners, no human has two.        *)

\* The machine that a transfer makes of another.
Heir(op) == Append(op.id, op.to)

\* The transfers that begin_epoch is past have registered their heirs.
TransfersPast ==
    \A i \in DOMAIN waiting :
        i < applying.at /\ waiting[i].kind = "transfer" => Heir(waiting[i]) \in Registered

\* What waits, and what an epoch leaves, are operations; a machine that may be
\* transferred has not moved more often than the bound allows.
OpsShape ==
    /\ waiting \in Seq(Op) /\ applying.left \in Seq(Op)
    /\ \A i \in DOMAIN waiting : waiting[i].kind = "transfer" => Len(waiting[i].id) <= MaxMoves
    /\ \A i \in DOMAIN applying.left : applying.left[i].kind = "reconnect"

\* How far begin_epoch is, and what it has to keep for the next epoch.
ApplyingShape ==
    /\ DOMAIN applying = {"at", "left", "half"}
    /\ applying.at \in Nat /\ applying.half \in BOOLEAN
    /\ applying.at <= Len(waiting) + 1

MachineShape ==
    /\ OpsShape /\ ApplyingShape
    /\ Registered \subseteq MachineId
    /\ \A id \in Registered : machines[id] \in Row
    /\ revived \in BOOLEAN /\ restarted \in BOOLEAN

\* The inductive invariant: what the two properties say, and that each transfer
\* the epoch is past has an heir.
MachineInv == MachineShape /\ TransfersPast /\ NoMachineLost /\ BoundOnce

-----------------------------------------------------------------------------
\* A machine and the owners it moved to make an identifier.
LEMMA IdOfMoves ==
    ASSUME NEW m \in Machine, NEW moves \in BoundedSeq(FleetOwner, MaxMoves)
    PROVE  <<m>> \o moves \in MachineId
<1> DEFINE x == <<m, moves>>
<1>1. x \in Machine \X BoundedSeq(FleetOwner, MaxMoves) /\ x[1] = m /\ x[2] = moves
    OBVIOUS
<1> HIDE DEF x
<1> QED
    BY <1>1 DEF MachineId

\* No epoch is under way.
LEMMA NoEpoch ==
    /\ NotApplying.at = 0 /\ NotApplying.left = << >> /\ NotApplying.half \in BOOLEAN
    /\ DOMAIN NotApplying = {"at", "left", "half"} /\ DOMAIN NotApplying.left = {}
    /\ << >> \in Seq(Op)
BY DEF NotApplying

\* A machine that is transferred gets an identifier of its own length more.
LEMMA HeirIsId ==
    ASSUME NEW id \in MachineId, NEW p \in FleetOwner, Len(id) <= MaxMoves
    PROVE  Append(id, p) \in MachineId
<1>1. PICK m \in Machine, moves \in BoundedSeq(FleetOwner, MaxMoves) : id = <<m>> \o moves
    BY DEF MachineId
<1>2. PICK n \in 0 .. MaxMoves : moves \in [1 .. n -> FleetOwner]
    BY DEF BoundedSeq, SeqOf
<1>3. moves \in Seq(FleetOwner) /\ Len(moves) = n /\ n \in Nat /\ MaxMoves \in Nat
    BY <1>2, MachineAssumption
<1>4. Len(id) = n + 1
    BY <1>1, <1>3
<1>5. Append(moves, p) \in Seq(FleetOwner) /\ Len(Append(moves, p)) = n + 1
    BY <1>3
<1>6. Append(moves, p) \in [1 .. n + 1 -> FleetOwner] /\ n + 1 \in 0 .. MaxMoves
  <2>1. n + 1 \in 0 .. MaxMoves
      BY <1>3, <1>4
  <2>2. Append(moves, p) \in [1 .. Len(Append(moves, p)) -> FleetOwner]
      BY <1>5, LenProperties
  <2> QED
      BY <1>5, <2>1, <2>2
<1>7. Append(id, p) = <<m>> \o Append(moves, p)
    BY <1>1, <1>3
<1>8. Append(moves, p) \in BoundedSeq(FleetOwner, MaxMoves)
    BY <1>6 DEF BoundedSeq, SeqOf
<1> QED
    BY <1>7, <1>8, IdOfMoves

LEMMA MachineStart == MachineInit => MachineInv
<1> SUFFICES ASSUME MachineInit PROVE MachineInv
    OBVIOUS
<1>1. /\ DOMAIN machines = {} /\ waiting = << >> /\ applying = NotApplying /\ DOMAIN waiting = {}
      /\ applying.left = << >> /\ DOMAIN applying.left = {} /\ applying.at = 0 /\ applying.half = FALSE
      /\ DOMAIN applying = {"at", "left", "half"} /\ Len(waiting) = 0
    BY DEF MachineInit, NotApplying
<1>2. OpsShape /\ ApplyingShape
    BY <1>1 DEF OpsShape, ApplyingShape, NotApplying
<1>3. MachineShape
    BY <1>1, <1>2 DEF MachineInit, MachineShape, Registered
<1>4. TransfersPast /\ NoMachineLost /\ BoundOnce
    BY <1>1 DEF TransfersPast, NoMachineLost, BoundOnce, Live, Registered
<1> QED
    BY <1>3, <1>4 DEF MachineInv

\* What a new status of one machine leaves of the rows.
LEMMA StatusRows ==
    ASSUME MachineShape, NEW id \in Registered,
           NEW s \in {"live", "transferred", "retired"}, machines' = WithStatus(id, s)
    PROVE  /\ Registered' = Registered
           /\ machines'[id] = [machines[id] EXCEPT !.status = s]
           /\ \A x \in Registered \ {id} : machines'[x] = machines[x]
           /\ \A x \in Registered : machines'[x] \in Row
<1>1. /\ Registered' = Registered
      /\ machines'[id] = [machines[id] EXCEPT !.status = s]
      /\ \A x \in Registered \ {id} : machines'[x] = machines[x]
    BY DEF WithStatus, Registered
<1>2. [machines[id] EXCEPT !.status = s] \in Row
    BY DEF MachineShape, Row
<1> QED
    BY <1>1, <1>2 DEF MachineShape

\* A machine that leaves frees its human; nobody else changes.
LEMMA LeaveKeepsBound ==
    ASSUME MachineShape, BoundOnce, NEW id \in Registered, NEW s \in {"transferred", "retired"},
           machines' = WithStatus(id, s), revived' = revived
    PROVE  BoundOnce'
<1>1. /\ Registered' = Registered /\ machines'[id].status # "live"
      /\ \A x \in Registered \ {id} : machines'[x] = machines[x]
  <2>1. machines'[id] = [machines[id] EXCEPT !.status = s] /\ machines[id] \in Row
      BY StatusRows DEF MachineShape
  <2> QED
      BY <2>1, StatusRows DEF Row
<1>2. \A x \in Live' : x \in Live /\ machines'[x] = machines[x]
    BY <1>1 DEF Live
<1> QED
    BY <1>2 DEF BoundOnce

\* A machine is registered, by its owner or by a transfer.
LEMMA RegisterRows ==
    ASSUME MachineShape, NEW id \in MachineId, NEW p \in FleetOwner, NEW h \in Human \cup {Alone},
           MayRegister(id, p, h), machines' = WithRow(id, NewRow(p, h))
    PROVE  /\ id \notin Registered /\ Registered' = Registered \cup {id}
           /\ machines'[id] = NewRow(p, h) /\ NewRow(p, h) \in Row
           /\ \A x \in Registered : machines'[x] = machines[x]
    BY DEF MachineShape, MayRegister, WithRow, NewRow, Row, Registered

\* A machine is registered for a human who has no live one.
LEMMA RegisterKeepsBound ==
    ASSUME MachineShape, BoundOnce, NEW id \in MachineId, NEW p \in FleetOwner,
           NEW h \in Human \cup {Alone},
           MayRegister(id, p, h), machines' = WithRow(id, NewRow(p, h)), revived' = revived
    PROVE  BoundOnce'
<1>1. /\ id \notin Registered /\ Registered' = Registered \cup {id}
      /\ machines'[id] = NewRow(p, h)
      /\ \A x \in Registered : machines'[x] = machines[x]
    BY RegisterRows
<1>2. Live' = Live \cup {id}
    BY <1>1 DEF Live, NewRow
<1>3. ASSUME NEW x \in Live,
             machines'[x].bound = machines'[id].bound,
             machines'[x].bound = Alone => machines'[x].owner = machines'[id].owner
      PROVE  FALSE
  <2>1. /\ machines'[x] = machines[x] /\ machines'[id].owner = p
        /\ machines'[id].bound = IF Fleet(p) = {} THEN Alone ELSE h
      BY <1>1 DEF Live, NewRow
  <2>2. CASE Fleet(p) = {}
      BY <1>3, <2>1, <2>2 DEF Fleet
  <2>3. CASE Fleet(p) # {}
      BY <1>3, <2>1, <2>3 DEF MayRegister
  <2> QED
      BY <2>2, <2>3
<1>4. \A x \in Live : machines'[x] = machines[x]
    BY <1>1 DEF Live
<1> QED
    BY <1>2, <1>3, <1>4 DEF BoundOnce

-----------------------------------------------------------------------------
\* A machine is registered by its owner.
LEMMA RegisterStep ==
    ASSUME MachineInv, NEW m \in Machine, NEW p \in FleetOwner, NEW h \in Human \cup {Alone},
           Register(m, p, h)
    PROVE  MachineInv'
<1>1. <<m>> \in MachineId
  <2>1. << >> \in BoundedSeq(FleetOwner, MaxMoves) /\ <<m>> = <<m>> \o << >>
    <3>1. << >> \in [1 .. 0 -> FleetOwner] /\ 0 \in 0 .. MaxMoves
        BY MachineAssumption
    <3> QED
        BY <3>1 DEF BoundedSeq, SeqOf
  <2> QED
      BY <2>1, IdOfMoves
<1>2. /\ MachineShape /\ MayRegister(<<m>>, p, h) /\ machines' = WithRow(<<m>>, NewRow(p, h))
      /\ UNCHANGED <<waiting, applying, revived, restarted>>
    BY DEF MachineInv, Register
<1>3. /\ Registered' = Registered \cup {<<m>>}
      /\ machines'[<<m>>] = NewRow(p, h) /\ NewRow(p, h) \in Row
      /\ \A x \in Registered : machines'[x] = machines[x]
    BY <1>1, <1>2, RegisterRows
<1>4. MachineShape'
    BY <1>1, <1>2, <1>3 DEF MachineShape, OpsShape, ApplyingShape
<1>5. TransfersPast'
    BY <1>2, <1>3 DEF MachineInv, TransfersPast
<1>6. NoMachineLost'
  <2>1. machines'[<<m>>].status = "live"
      BY <1>3 DEF NewRow
  <2> QED
      BY <1>2, <1>3, <2>1 DEF MachineInv, NoMachineLost
<1>7. BoundOnce'
    BY <1>1, <1>2, RegisterKeepsBound DEF MachineInv
<1> QED
    BY <1>4, <1>5, <1>6, <1>7 DEF MachineInv

\* A machine that missed its beat is made live again, which the history
\* variable revived remembers.
LEMMA MissBeatStep ==
    ASSUME MachineInv, NEW id \in Registered, MissBeat(id)
    PROVE  MachineInv'
<1>1. /\ machines' = WithStatus(id, "live") /\ revived' = TRUE
      /\ UNCHANGED <<waiting, applying, restarted>> /\ MachineShape
    BY DEF MissBeat, MachineInv
<1>2. /\ Registered' = Registered
      /\ machines'[id] = [machines[id] EXCEPT !.status = "live"]
      /\ \A x \in Registered \ {id} : machines'[x] = machines[x]
      /\ \A x \in Registered : machines'[x] \in Row
    BY <1>1, StatusRows
<1>3. MachineShape'
    BY <1>1, <1>2 DEF MachineShape, OpsShape, ApplyingShape
<1>4. TransfersPast' /\ BoundOnce'
    BY <1>1, <1>2 DEF MachineInv, TransfersPast, BoundOnce
<1>5. machines'[id].status = "live"
    BY <1>2 DEF MachineInv, MachineShape, Row
<1>6. NoMachineLost'
    BY <1>1, <1>2, <1>5 DEF MachineInv, NoMachineLost
<1> QED
    BY <1>3, <1>4, <1>6 DEF MachineInv

\* One more operation waits; no epoch is under way.
LEMMA QueueStep ==
    ASSUME MachineInv, NEW op \in Op, Queue(op),
           op.kind = "transfer" => Len(op.id) <= MaxMoves
    PROVE  MachineInv'
<1>1. /\ waiting \in Seq(Op) /\ waiting' = Append(waiting, op) /\ applying.at = 0
      /\ UNCHANGED <<machines, applying, revived, restarted>>
    BY DEF Queue, MachineInv, MachineShape, OpsShape, NotApplying
<1>2. /\ waiting' \in Seq(Op) /\ Len(waiting') = Len(waiting) + 1
      /\ \A i \in DOMAIN waiting : i \in DOMAIN waiting' /\ waiting'[i] = waiting[i]
      /\ \A i \in DOMAIN waiting' : i \in DOMAIN waiting \/ waiting'[i] = op
    BY <1>1
<1>3. OpsShape' /\ ApplyingShape'
    BY <1>1, <1>2 DEF MachineInv, MachineShape, OpsShape, ApplyingShape
<1>4. MachineShape'
    BY <1>1, <1>3 DEF MachineInv, MachineShape, Registered
<1>5. TransfersPast'
  <2>1. \A i \in DOMAIN waiting' : ~(i < 0)
      BY <1>2
  <2> QED
      BY <1>1, <2>1 DEF TransfersPast
<1>6. NoMachineLost' /\ BoundOnce'
    BY <1>1, <1>2 DEF MachineInv, NoMachineLost, BoundOnce, Registered, Live
<1> QED
    BY <1>4, <1>5, <1>6 DEF MachineInv

-----------------------------------------------------------------------------
\* A new epoch begins, one ends by an exception, the process dies.
LEMMA StopStep ==
    ASSUME MachineInv, BeginEpoch \/ OpFails \/ EpochBegun \/ Forget
    PROVE  MachineInv'
<1> USE DEF Registered, Live
<1>1. MachineShape /\ machines' = machines /\ revived' = revived
    BY DEF MachineInv, BeginEpoch, OpFails, EpochBegun, Forget
<1>2. BoundOnce'
    BY <1>1 DEF MachineInv, BoundOnce
<1>3. CASE BeginEpoch
  <2>1. /\ applying' = [NotApplying EXCEPT !.at = 1] /\ applying.left = << >>
        /\ UNCHANGED <<waiting, restarted>>
      BY <1>3 DEF BeginEpoch, NotApplying
  <2>2. applying'.at = 1 /\ applying'.left = << >> /\ applying'.half \in BOOLEAN /\ DOMAIN applying' = {"at", "left", "half"}
      BY <2>1 DEF NotApplying
  <2>3. waiting \in Seq(Op) /\ Len(waiting) \in Nat
      BY <1>1 DEF MachineShape, OpsShape
  <2>4. OpsShape'
      BY <1>1, <2>1, <2>2, <2>3 DEF MachineShape, OpsShape
  <2>7. ApplyingShape'
      BY <2>1, <2>2, <2>3 DEF ApplyingShape
  <2>5. TransfersPast'
    <3>1. \A i \in DOMAIN waiting : ~(i < 1)
        BY <2>3
    <3> QED
        BY <2>1, <2>2, <3>1 DEF TransfersPast
  <2>6. NoMachineLost'
      BY <1>1, <2>1 DEF MachineInv, NoMachineLost
  <2> QED
      BY <1>1, <1>2, <2>1, <2>4, <2>5, <2>6, <2>7 DEF MachineInv, MachineShape
<1>4. CASE OpFails \/ Forget \/ EpochBegun
  <2>1. /\ applying' = NotApplying /\ restarted' \in BOOLEAN
        /\ waiting' \in {waiting, << >>, applying.left}
      BY <1>1, <1>4 DEF OpFails, Forget, EpochBegun, MachineShape
  <2>2. waiting' \in Seq(Op)
      BY <1>1, <2>1, NoEpoch DEF MachineShape, OpsShape
  <2>3. \A i \in DOMAIN waiting' : waiting'[i].kind = "transfer" => Len(waiting'[i].id) <= MaxMoves
    <3>1. DOMAIN << >> = {}
        OBVIOUS
    <3> QED
        BY <1>1, <2>1, <3>1 DEF MachineShape, OpsShape
  <2>4. OpsShape' /\ ApplyingShape'
    <3>1. OpsShape'
        BY <2>1, <2>2, <2>3, NoEpoch DEF OpsShape
    <3>2. Len(waiting') \in Nat
        BY <2>2
    <3> QED
        BY <2>1, <3>1, <3>2, NoEpoch DEF ApplyingShape
  <2>5. TransfersPast'
    <3>1. \A i \in DOMAIN waiting' : ~(i < 0)
        BY <2>2
    <3> QED
        BY <2>1, <3>1, NoEpoch DEF TransfersPast
  <2>6. NoMachineLost'
    <3>1. CASE OpFails
        BY <1>1, <3>1 DEF OpFails, MachineInv, NoMachineLost
    <3>2. CASE Forget
        BY <3>2 DEF Forget, NoMachineLost
    <3>3. CASE EpochBegun
      <4>1. /\ applying.at > Len(waiting) /\ applying.at \in Nat /\ waiting \in Seq(Op)
            /\ restarted' = restarted
          BY <1>1, <3>3 DEF EpochBegun, MachineShape, OpsShape, ApplyingShape
      <4>2. ASSUME NEW i \in DOMAIN waiting, waiting[i].kind = "transfer"
            PROVE  \E p \in FleetOwner : Append(waiting[i].id, p) \in Registered
        <5>1. i < applying.at
            BY <4>1
        <5>2. waiting[i] \in Op
            BY <4>1
        <5>3. waiting[i].to \in FleetOwner
            BY <4>2, <5>2 DEF Op
        <5> QED
            BY <4>2, <5>1, <5>3 DEF MachineInv, TransfersPast, Heir
      <4> QED
          BY <1>1, <4>1, <4>2 DEF MachineInv, NoMachineLost
    <3> QED
        BY <1>4, <3>1, <3>2, <3>3
  <2> QED
      BY <1>1, <1>2, <2>1, <2>4, <2>5, <2>6 DEF MachineInv, MachineShape
<1> QED
    BY <1>3, <1>4

\* One operation of the epoch is applied, or half of it.
LEMMA CurrentOp ==
    ASSUME MachineInv, NEW kind, Applying(kind)
    PROVE  /\ waiting \in Seq(Op) /\ applying.at \in Nat /\ applying.at \in DOMAIN waiting
           /\ Current \in Op /\ Current.kind = kind /\ Current.id \in MachineId
           /\ kind = "transfer" => /\ Current.to \in FleetOwner
                                   /\ Current.bound \in Human \cup {Alone}
                                   /\ Len(Current.id) <= MaxMoves
<1>1. /\ waiting \in Seq(Op) /\ applying.at \in Nat /\ applying.at \in DOMAIN waiting
      /\ Current.kind = kind
    BY DEF MachineInv, MachineShape, OpsShape, ApplyingShape, Applying, Current
<1>2. Current \in Op
    BY <1>1 DEF Current
<1>3. Current.id \in MachineId
    BY <1>2 DEF Op
<1>4. kind = "transfer" => Current.to \in FleetOwner /\ Current.bound \in Human \cup {Alone}
    BY <1>1, <1>2 DEF Op
<1>5. kind = "transfer" => Len(Current.id) <= MaxMoves
    BY <1>1 DEF MachineInv, MachineShape, OpsShape, Current
<1> QED
    BY <1>1, <1>2, <1>3, <1>4, <1>5

\* The epoch moves to its next operation, or is in the middle of a transfer.
LEMMA NextOpShape ==
    ASSUME MachineInv, applying.at \in DOMAIN waiting, waiting' = waiting,
           NextOp \/ applying' = [applying EXCEPT !.half = TRUE]
    PROVE  /\ OpsShape' /\ ApplyingShape'
           /\ applying'.at \in {applying.at, applying.at + 1}
           /\ NextOp => applying'.at = applying.at + 1
           /\ ~NextOp => applying'.at = applying.at
<1>1. /\ DOMAIN applying = {"at", "left", "half"} /\ applying.at \in Nat /\ applying.half \in BOOLEAN
      /\ waiting \in Seq(Op) /\ OpsShape
    BY DEF MachineInv, MachineShape, ApplyingShape, OpsShape
<1>2. /\ DOMAIN applying' = {"at", "left", "half"} /\ applying'.half \in BOOLEAN
      /\ applying'.left = applying.left
      /\ applying'.at \in {applying.at, applying.at + 1}
      /\ NextOp => applying'.at = applying.at + 1
      /\ ~NextOp => applying'.at = applying.at
    BY <1>1 DEF NextOp
<1>3. applying'.at <= Len(waiting) + 1
    BY <1>1, <1>2
<1> QED
    BY <1>1, <1>2, <1>3 DEF OpsShape, ApplyingShape

LEMMA RetireStep == MachineInv /\ ApplyRetire => MachineInv'
<1> SUFFICES ASSUME MachineInv, ApplyRetire PROVE MachineInv'
    OBVIOUS
<1>1. /\ Applying("retire") /\ Current.id \in Registered /\ NextOp /\ MachineShape
      /\ machines' = WithStatus(Current.id, "retired") /\ UNCHANGED <<waiting, revived, restarted>>
    BY DEF ApplyRetire, MachineInv
<1>2. /\ Registered' = Registered
      /\ machines'[Current.id] = [machines[Current.id] EXCEPT !.status = "retired"]
      /\ \A x \in Registered \ {Current.id} : machines'[x] = machines[x]
      /\ \A x \in Registered : machines'[x] \in Row
    BY <1>1, StatusRows
<1>3. waiting \in Seq(Op) /\ applying.at \in Nat /\ applying.at \in DOMAIN waiting /\ Current.kind = "retire"
    BY <1>1, CurrentOp
<1>4. OpsShape' /\ ApplyingShape' /\ applying'.at = applying.at + 1
    BY <1>1, <1>3, NextOpShape
<1>5. MachineShape'
    BY <1>1, <1>2, <1>4 DEF MachineShape
<1>6. TransfersPast'
  <2>1. ASSUME NEW i \in DOMAIN waiting, i < applying.at + 1, waiting[i].kind = "transfer"
        PROVE  i < applying.at
      BY <1>3, <2>1 DEF Current
  <2> QED
      BY <1>1, <1>2, <1>4, <2>1 DEF MachineInv, TransfersPast
<1>7. machines'[Current.id].status = "retired"
    BY <1>1, <1>2 DEF MachineShape, Row
<1>8. NoMachineLost'
    BY <1>1, <1>2, <1>7 DEF MachineInv, NoMachineLost
<1>9. BoundOnce'
    BY <1>1, LeaveKeepsBound DEF MachineInv
<1> QED
    BY <1>5, <1>6, <1>8, <1>9 DEF MachineInv

LEMMA ReconnectStep == MachineInv /\ ApplyReconnect => MachineInv'
<1> USE DEF Registered, Live
<1> SUFFICES ASSUME MachineInv, ApplyReconnect PROVE MachineInv'
    OBVIOUS
<1>1. /\ Applying("reconnect") /\ MachineShape /\ UNCHANGED <<machines, waiting, revived, restarted>>
    BY DEF ApplyReconnect, MachineInv
<1>2. /\ waiting \in Seq(Op) /\ applying.at \in Nat /\ applying.at \in DOMAIN waiting
      /\ Current \in Op /\ Current.kind = "reconnect"
    BY <1>1, CurrentOp
<1>3. OpsShape' /\ ApplyingShape' /\ applying'.at = applying.at + 1
  <2>1. CASE NextOp
      BY <1>1, <1>2, <2>1, NextOpShape
  <2>2. CASE applying' = [applying EXCEPT !.at = @ + 1, !.left = Append(@, Current)]
    <3> DEFINE left == applying.left
    <3>1. left \in Seq(Op) /\ DOMAIN applying = {"at", "left", "half"} /\ applying.half \in BOOLEAN
        BY <1>1 DEF MachineShape, OpsShape, ApplyingShape
    <3>2. /\ applying'.left = Append(left, Current) /\ applying'.at = applying.at + 1
          /\ DOMAIN applying' = {"at", "left", "half"} /\ applying'.half \in BOOLEAN
        BY <1>2, <2>2, <3>1
    <3>3. \A i \in DOMAIN left : left[i].kind = "reconnect"
        BY <1>1 DEF MachineShape, OpsShape
    <3>4. \A i \in DOMAIN Append(left, Current) : Append(left, Current)[i].kind = "reconnect"
        BY <1>2, <3>1, <3>3
    <3>5. applying'.at <= Len(waiting) + 1
        BY <1>2, <3>2
    <3> QED
        BY <1>1, <1>2, <3>1, <3>2, <3>4, <3>5 DEF MachineShape, OpsShape, ApplyingShape
  <2> QED
      BY <2>1, <2>2 DEF ApplyReconnect
<1>4. MachineShape'
    BY <1>1, <1>3 DEF MachineShape
<1>5. TransfersPast'
  <2>1. ASSUME NEW i \in DOMAIN waiting, i < applying.at + 1, waiting[i].kind = "transfer"
        PROVE  i < applying.at
      BY <1>2, <2>1 DEF Current
  <2> QED
      BY <1>1, <1>3, <2>1 DEF MachineInv, TransfersPast
<1>6. NoMachineLost' /\ BoundOnce'
    BY <1>1 DEF MachineInv, NoMachineLost, BoundOnce
<1> QED
    BY <1>4, <1>5, <1>6 DEF MachineInv

\* The first half of a transfer: the machine leaves its owner.
LEMMA TransferOutStep == MachineInv /\ TransferOut => MachineInv'
<1> SUFFICES ASSUME MachineInv, TransferOut PROVE MachineInv'
    OBVIOUS
<1>1. /\ Applying("transfer") /\ Current.id \in Registered /\ MachineShape
      /\ machines' = WithStatus(Current.id, "transferred")
      /\ applying' = [applying EXCEPT !.half = TRUE] /\ UNCHANGED <<waiting, revived, restarted>>
    BY DEF TransferOut, MachineInv
<1>2. /\ Registered' = Registered
      /\ \A x \in Registered \ {Current.id} : machines'[x] = machines[x]
      /\ \A x \in Registered : machines'[x] \in Row
    BY <1>1, StatusRows
<1>3. waiting \in Seq(Op) /\ applying.at \in Nat /\ applying.at \in DOMAIN waiting /\ Current.kind = "transfer"
    BY <1>1, CurrentOp
<1>4. OpsShape' /\ ApplyingShape' /\ applying'.at = applying.at
  <2>1. OpsShape' /\ ApplyingShape'
      BY <1>1, <1>3, NextOpShape
  <2>2. applying'.at = applying.at
      BY <1>1 DEF MachineShape, ApplyingShape
  <2> QED
      BY <2>1, <2>2
<1>5. MachineShape'
    BY <1>1, <1>2, <1>4 DEF MachineShape
<1>6. TransfersPast'
    BY <1>1, <1>2, <1>4 DEF MachineInv, TransfersPast
<1>7. NoMachineLost'
    BY <1>1, <1>2, <1>3 DEF MachineInv, NoMachineLost, Current
<1>8. BoundOnce'
    BY <1>1, LeaveKeepsBound DEF MachineInv
<1> QED
    BY <1>5, <1>6, <1>7, <1>8 DEF MachineInv

\* The second half: its heir is registered for the next one.
LEMMA TransferInStep == MachineInv /\ TransferIn => MachineInv'
<1> SUFFICES ASSUME MachineInv, TransferIn PROVE MachineInv'
    OBVIOUS
<1> DEFINE id == Heir(Current)
           p  == Current.to
           h  == Current.bound
<1>1. /\ Applying("transfer") /\ MachineShape /\ NextOp
      /\ MayRegister(id, p, h) /\ machines' = WithRow(id, NewRow(p, h))
      /\ UNCHANGED <<waiting, revived, restarted>>
    BY DEF TransferIn, MachineInv, Heir
<1>2. /\ waiting \in Seq(Op) /\ applying.at \in Nat /\ applying.at \in DOMAIN waiting
      /\ Current.kind = "transfer" /\ Current.id \in MachineId
      /\ p \in FleetOwner /\ h \in Human \cup {Alone} /\ Len(Current.id) <= MaxMoves
    BY <1>1, CurrentOp
<1>3. id \in MachineId
    BY <1>2, HeirIsId DEF Heir
<1>4. /\ Registered' = Registered \cup {id}
      /\ machines'[id] = NewRow(p, h) /\ NewRow(p, h) \in Row
      /\ \A x \in Registered : machines'[x] = machines[x]
    BY <1>1, <1>2, <1>3, RegisterRows
<1>5. OpsShape' /\ ApplyingShape' /\ applying'.at = applying.at + 1
    BY <1>1, <1>2, NextOpShape
<1>6. MachineShape'
    BY <1>1, <1>3, <1>4, <1>5 DEF MachineShape
<1>7. TransfersPast'
  <2>1. ASSUME NEW i \in DOMAIN waiting, i < applying.at + 1, waiting[i].kind = "transfer"
        PROVE  i < applying.at \/ Heir(waiting[i]) = id
      BY <1>2, <2>1 DEF Current
  <2> QED
      BY <1>1, <1>4, <1>5, <2>1 DEF MachineInv, TransfersPast
<1>8. machines'[id].status = "live"
    BY <1>4 DEF NewRow
<1>9. NoMachineLost'
    BY <1>1, <1>4, <1>8 DEF MachineInv, NoMachineLost
<1>10. BoundOnce'
    BY <1>1, <1>2, <1>3, RegisterKeepsBound DEF MachineInv
<1> QED
    BY <1>6, <1>7, <1>9, <1>10 DEF MachineInv

-----------------------------------------------------------------------------
LEMMA MachineStep == MachineInv /\ [MachineNext]_machineVars => MachineInv'
<1> SUFFICES ASSUME MachineInv, [MachineNext]_machineVars PROVE MachineInv'
    OBVIOUS
<1>1. ASSUME NEW m \in Machine, NEW p \in FleetOwner, NEW h \in Human \cup {Alone}, Register(m, p, h)
      PROVE  MachineInv'
    BY <1>1, RegisterStep
<1>2. ASSUME NEW id \in Registered, MissBeat(id) PROVE MachineInv'
    BY <1>2, MissBeatStep
<1>3. ASSUME NEW id \in Registered, NEW k \in {"retire", "reconnect"}, Queue([kind |-> k, id |-> id])
      PROVE  MachineInv'
  <2> DEFINE op == [kind |-> k, id |-> id]
  <2>1. op \in Op /\ op.kind # "transfer"
      BY DEF MachineInv, MachineShape, Op
  <2> HIDE DEF op
  <2>2. Queue(op)
      BY <1>3 DEF op
  <2> QED
      BY <2>1, <2>2, QueueStep
<1>4. ASSUME NEW id \in Registered, Len(id) <= MaxMoves, NEW p \in FleetOwner,
             NEW h \in Human \cup {Alone},
             Queue([kind |-> "transfer", id |-> id, to |-> p, bound |-> h])
      PROVE  MachineInv'
  <2> DEFINE op == [kind |-> "transfer", id |-> id, to |-> p, bound |-> h]
  <2>1. op \in Op /\ op.id = id
      BY DEF MachineInv, MachineShape, Op
  <2> HIDE DEF op
  <2>2. Queue(op)
      BY <1>4 DEF op
  <2> QED
      BY <1>4, <2>1, <2>2, QueueStep
<1>5. CASE UNCHANGED machineVars
    BY <1>5 DEF machineVars, MachineInv, MachineShape, OpsShape, ApplyingShape, TransfersPast,
                NoMachineLost, BoundOnce, Registered, Live
<1> QED
    BY <1>1, <1>2, <1>3, <1>4, <1>5, StopStep, RetireStep, ReconnectStep, TransferOutStep,
       TransferInStep DEF MachineNext

\* Whatever is registered, queued and applied, and wherever an epoch fails or the
\* process dies, MachineInv holds (EpochCoordinator.begin_epoch and its operations).
THEOREM MachineInvariant == MachineSpec => []MachineInv
    BY MachineStart, MachineStep, PTL DEF MachineSpec

\* Until the process restarts, a machine that has left its owner is still being
\* transferred or has an heir: an operation that fails half-way is not dropped
\* from the queue.
THEOREM NoneLost == MachineSpec => []NoMachineLost
    BY MachineInvariant, PTL DEF MachineInv

\* Until a missed beat revives a machine, no human has two live ones, and no owner
\* without humans has two, however registrations and transfers interleave.
THEOREM HumanBoundOnce == MachineSpec => []BoundOnce
    BY MachineInvariant, PTL DEF MachineInv

\* The registry's rows and the waiting operations keep their types.
THEOREM MachinesTyped == MachineSpec => []MachineTypeOK
<1>1. MachineInv => MachineTypeOK
    BY DEF MachineInv, MachineShape, OpsShape, ApplyingShape, MachineTypeOK
<1> QED
    BY <1>1, MachineInvariant, PTL

-----------------------------------------------------------------------------
(* Bindings: one wallet a device, none vanishes, what is revoked stays so. *)

\* Identifiers are drawn once in a registry.
IdsDrawn ==
    /\ \A ns \in Registry : \A r \in bindings[ns] : r.id <= created
    /\ \A ns \in Registry : \A r, s \in bindings[ns] : r.id = s.id => r = s

\* The purge log has the record, revoked.
Logged(r) ==
    \E i \in DOMAIN purgeLog : purgeLog[i].record = r /\ ~purgeLog[i].record.active

\* A purge logs what it removes before it removes it.
PurgeLogged == \A ns \in Registry : purging[ns] # Nobody => Logged(purging[ns])

\* The inductive invariant of the registries; one active binding per device and
\* no lost binding are inductive beside it.
BindingInv == BindingTypeOK /\ IdsDrawn /\ PurgeLogged

LEMMA BindingStart == ASSUME BindingAssumption, BindingInit
    PROVE BindingInv /\ OneActivePerDevice /\ NoBindingVanishes
  BY DEF BindingAssumption, BindingInit, BindingInv, BindingTypeOK, IdsDrawn, PurgeLogged,
         OneActivePerDevice, NoBindingVanishes, Registry

\* One more binding is drawn.
LEMMA AddStep ==
    ASSUME BindingAssumption, BindingInv,
           NEW ns \in Registry, NEW w \in Wallet, NEW d \in Device, Add(ns, w, d)
    PROVE  BindingInv' /\ (NoBindingVanishes => NoBindingVanishes')
<1> DEFINE new == [id |-> created + 1, wallet |-> w, device |-> d,
                   active |-> TRUE, version |-> 1]
<1>1. /\ created \in Nat /\ created + 1 \in BindingId
      /\ created' = created + 1 /\ purgeLog' = purgeLog /\ purging' = purging
      /\ bindings' = [bindings EXCEPT ![ns] = @ \cup {new}]
  BY DEF Add, BindingAssumption, BindingInv, BindingTypeOK, BindingId
<1>2. new \in Binding
  BY <1>1 DEF Binding
<1> HIDE DEF new
<1>3. BindingTypeOK'
  BY <1>1, <1>2 DEF BindingInv, BindingTypeOK, BindingId
<1>4. new.id = created + 1
  BY DEF new
<1>5. \A ns2 \in Registry : \A r \in bindings[ns2] : r.id \in Nat /\ r.id <= created
  BY DEF BindingInv, BindingTypeOK, IdsDrawn, Binding, BindingId
<1>6. IdsDrawn'
  BY <1>1, <1>4, <1>5 DEF IdsDrawn, BindingInv, BindingTypeOK
<1>7. PurgeLogged'
  BY <1>1 DEF PurgeLogged, Logged, BindingInv
<1>8. ASSUME NoBindingVanishes PROVE NoBindingVanishes'
  <2> SUFFICES ASSUME NEW id \in 1 .. created + 1
               PROVE  \/ \E ns2 \in Registry : \E r \in bindings'[ns2] : r.id = id
                      \/ \E i \in DOMAIN purgeLog :
                            purgeLog[i].record.id = id /\ ~purgeLog[i].record.active
    BY <1>1 DEF NoBindingVanishes
  <2>1. CASE id = created + 1
    BY <2>1, <1>1, <1>4 DEF BindingInv, BindingTypeOK
  <2>2. CASE id # created + 1
    <3>1. id \in 1 .. created
      BY <2>2, <1>1
    <3>2. \A ns2 \in Registry : bindings[ns2] \subseteq bindings'[ns2]
      BY <1>1 DEF BindingInv, BindingTypeOK
    <3> QED BY <3>1, <3>2, <1>8 DEF NoBindingVanishes
  <2> QED BY <2>1, <2>2
<1> QED BY <1>3, <1>6, <1>7, <1>8 DEF BindingInv

\* One active binding is revoked: it keeps its identifier and nothing else moves.
LEMMA RevokeStep ==
    ASSUME BindingAssumption, BindingInv, NEW ns \in Registry,
           NEW id, NEW w, NEW d, NEW v, Revoke(ns, id, w, d, v)
    PROVE  /\ BindingInv'
           /\ OneActivePerDevice => OneActivePerDevice'
           /\ NoBindingVanishes => NoBindingVanishes'
           /\ \A n \in Registry : \A r \in bindings[n], s \in bindings'[n] :
                 ~r.active /\ s.id = r.id => s = r
<1>1. PICK r \in bindings[ns] :
          /\ r.active
          /\ bindings' = [bindings EXCEPT ![ns] =
                 (@ \ {r}) \cup {[r EXCEPT !.active = FALSE, !.version = r.version + 1]}]
  BY DEF Revoke, FirstFit, Revocable
<1> DEFINE new == [r EXCEPT !.active = FALSE, !.version = r.version + 1]
<1>2. /\ bindings' = [bindings EXCEPT ![ns] = (@ \ {r}) \cup {new}]
      /\ created' = created /\ purgeLog' = purgeLog /\ purging' = purging
  BY <1>1 DEF Revoke
<1>3. r \in Binding
  BY DEF BindingInv, BindingTypeOK
<1>4. new \in Binding /\ new.id = r.id /\ ~new.active
  <2>1. r.version + 1 \in Nat
    BY <1>3 DEF Binding
  <2>2. ASSUME NEW k \in Nat
        PROVE  LET q == [r EXCEPT !.active = FALSE, !.version = k] IN
                   q \in Binding /\ q.id = r.id /\ ~q.active
    BY <1>3 DEF Binding
  <2> QED BY <2>1, <2>2
<1> HIDE DEF new
<1>5. bindings \in [Registry -> SUBSET Binding] /\ bindings' \in [Registry -> SUBSET Binding]
  BY <1>2, <1>4 DEF BindingInv, BindingTypeOK
<1>6. \A n \in Registry : bindings'[n] \subseteq bindings[n] \cup {new}
  BY <1>2, <1>5
<1>7. \A n \in Registry : n # ns => bindings'[n] = bindings[n]
  BY <1>2, <1>5
<1>8. bindings'[ns] = (bindings[ns] \ {r}) \cup {new}
  BY <1>2, <1>5
<1>9. BindingTypeOK'
  BY <1>2, <1>5 DEF BindingInv, BindingTypeOK
<1>10. IdsDrawn'
  BY <1>2, <1>4, <1>7, <1>8 DEF BindingInv, IdsDrawn
<1>11. PurgeLogged'
  BY <1>2 DEF BindingInv, PurgeLogged, Logged
<1>12. OneActivePerDevice => OneActivePerDevice'
  <2>1. "PRODUCTION" \in Registry
    BY DEF Registry
  <2> QED BY <2>1, <1>4, <1>6, <1>5 DEF OneActivePerDevice
<1>13. NoBindingVanishes => NoBindingVanishes'
  <2>1. \A n \in Registry : \A s \in bindings[n] : \E u \in bindings'[n] : u.id = s.id
    BY <1>4, <1>7, <1>8
  <2> QED BY <2>1, <1>2 DEF NoBindingVanishes
<1>14. \A n \in Registry : \A q \in bindings[n], s \in bindings'[n] :
           ~q.active /\ s.id = q.id => s = q
  BY <1>1, <1>4, <1>7, <1>8 DEF BindingInv, IdsDrawn
<1> QED BY <1>9, <1>10, <1>11, <1>12, <1>13, <1>14 DEF BindingInv

\* The purge log grows by a revoked binding.
LEMMA LogPurgeStep ==
    ASSUME BindingAssumption, BindingInv, NEW ns \in Registry, NEW r, LogPurge(ns, r)
    PROVE  BindingInv' /\ (NoBindingVanishes => NoBindingVanishes')
<1>1. /\ r \in bindings[ns] /\ ~r.active /\ r \in Binding
      /\ bindings' = bindings /\ created' = created
      /\ purging' = [purging EXCEPT ![ns] = r]
  BY DEF LogPurge, Purgeable, BindingInv, BindingTypeOK
<1> DEFINE e == [record |-> r, hash |-> Len(purgeLog) + 1, prev |-> LastHash]
<1>2. purgeLog \in Seq(LogEntry) /\ purgeLog' = Append(purgeLog, e)
  BY DEF LogPurge, ChainedEntry, BindingInv, BindingTypeOK
<1>3. LastHash \in Nat
  <2>1. CASE purgeLog = << >>
    BY <2>1 DEF LastHash, NoEntry
  <2>2. CASE purgeLog # << >>
    <3>1. Last(purgeLog) \in LogEntry
      BY <2>2, <1>2 DEF Last
    <3> QED BY <3>1, <2>2 DEF LastHash, LogEntry
  <2> QED BY <2>1, <2>2
<1>4. e \in LogEntry /\ e.record = r
  BY <1>1, <1>2, <1>3 DEF LogEntry
<1> HIDE DEF e
<1>5. /\ purgeLog' \in Seq(LogEntry) /\ Len(purgeLog') = Len(purgeLog) + 1
      /\ Len(purgeLog) \in Nat
      /\ DOMAIN purgeLog = 1 .. Len(purgeLog) /\ DOMAIN purgeLog' = 1 .. Len(purgeLog')
      /\ purgeLog'[Len(purgeLog')] = e
      /\ \A i \in 1 .. Len(purgeLog) : purgeLog'[i] = purgeLog[i]
  BY <1>2, <1>4
<1>6. BindingTypeOK'
  BY <1>1, <1>5 DEF BindingInv, BindingTypeOK
<1>7. IdsDrawn'
  BY <1>1 DEF BindingInv, IdsDrawn
<1>8. DOMAIN purgeLog \subseteq DOMAIN purgeLog' /\ Len(purgeLog') \in DOMAIN purgeLog'
  BY <1>5
<1>9. PurgeLogged'
  <2> SUFFICES ASSUME NEW n \in Registry, purging'[n] # Nobody
               PROVE  \E i \in DOMAIN purgeLog' : purgeLog'[i].record = purging'[n]
                                                  /\ ~purgeLog'[i].record.active
    BY DEF PurgeLogged, Logged
  <2>1. CASE n = ns
    BY <2>1, <1>1, <1>4, <1>5, <1>8 DEF BindingInv, BindingTypeOK
  <2>2. CASE n # ns
    <3>1. purging'[n] = purging[n]
      BY <2>2, <1>1 DEF BindingInv, BindingTypeOK
    <3>2. PICK i \in DOMAIN purgeLog : purgeLog[i].record = purging[n]
                                       /\ ~purgeLog[i].record.active
      BY <3>1 DEF BindingInv, PurgeLogged, Logged
    <3> QED BY <3>1, <3>2, <1>5, <1>8
  <2> QED BY <2>1, <2>2
<1>10. NoBindingVanishes => NoBindingVanishes'
  BY <1>1, <1>5, <1>8 DEF NoBindingVanishes
<1> QED BY <1>6, <1>7, <1>9, <1>10 DEF BindingInv

\* The binding logged is removed from its registry.
LEMMA RemoveStep ==
    ASSUME BindingAssumption, BindingInv, NEW ns \in Registry, RemovePurged(ns)
    PROVE  BindingInv' /\ (NoBindingVanishes => NoBindingVanishes')
<1>1. /\ bindings' = [bindings EXCEPT ![ns] = {r \in @ : r.id # purging[ns].id}]
      /\ purging' = [purging EXCEPT ![ns] = Nobody]
      /\ purgeLog' = purgeLog /\ created' = created
      /\ bindings \in [Registry -> SUBSET Binding]
      /\ purging \in [Registry -> Binding \cup {Nobody}]
  BY DEF RemovePurged, BindingInv, BindingTypeOK
<1>2. /\ \A n \in Registry : bindings'[n] \subseteq bindings[n]
      /\ bindings' \in [Registry -> SUBSET Binding]
  BY <1>1
<1>3. BindingTypeOK' /\ IdsDrawn'
  BY <1>1, <1>2 DEF BindingInv, BindingTypeOK, IdsDrawn
<1>4. PurgeLogged'
  BY <1>1 DEF BindingInv, PurgeLogged, Logged
<1>5. ASSUME NoBindingVanishes PROVE NoBindingVanishes'
  <2>1. PICK k \in DOMAIN purgeLog : purgeLog[k].record = purging[ns]
                                     /\ ~purgeLog[k].record.active
    BY DEF RemovePurged, Unlocked, BindingInv, PurgeLogged, Logged
  <2>2. \A n \in Registry : \A r \in bindings[n] :
            r.id # purging[ns].id => r \in bindings'[n]
    BY <1>1
  <2> QED BY <1>1, <1>5, <2>1, <2>2 DEF NoBindingVanishes
<1> QED BY <1>3, <1>4, <1>5 DEF BindingInv

\* The process dies between the log and the removal.
LEMMA DieStep ==
    ASSUME BindingInv, NEW ns \in Registry, DieInPurge(ns)
    PROVE  BindingInv' /\ (NoBindingVanishes => NoBindingVanishes')
  BY DEF BindingInv, DieInPurge, BindingTypeOK, IdsDrawn, PurgeLogged, Logged, NoBindingVanishes

\* What every step preserves: the invariant, the two properties, and what is
\* revoked.
BindingFacts ==
    /\ BindingInv'
    /\ OneActivePerDevice => OneActivePerDevice'
    /\ NoBindingVanishes => NoBindingVanishes'
    /\ \A n \in Registry : \A r \in bindings[n], s \in bindings'[n] :
          ~r.active /\ s.id = r.id => s = r

\* Removing bindings frees devices, and reactivates nothing.
LEMMA Unbound ==
    ASSUME BindingInv, \A n \in Registry : bindings'[n] \subseteq bindings[n]
    PROVE  /\ OneActivePerDevice => OneActivePerDevice'
           /\ \A n \in Registry : \A r \in bindings[n], s \in bindings'[n] :
                 ~r.active /\ s.id = r.id => s = r
<1>1. "PRODUCTION" \in Registry
  BY DEF Registry
<1> QED BY <1>1 DEF OneActivePerDevice, BindingInv, IdsDrawn

LEMMA BindingStep == ASSUME BindingAssumption, BindingInv, [BindingNext]_bindingVars
    PROVE BindingFacts
<1> USE DEF BindingFacts
<1> "PRODUCTION" \in Registry /\ "TEST" \in Registry
  BY DEF Registry
<1> bindings \in [Registry -> SUBSET Binding] /\ created \in Nat
  BY DEF BindingInv, BindingTypeOK, BindingAssumption
<1>1. ASSUME NEW ns \in Registry, NEW w \in Wallet, NEW d \in Device, Add(ns, w, d)
      PROVE  \A n \in Registry : \A r \in bindings[n], s \in bindings'[n] :
                 ~r.active /\ s.id = r.id => s = r
  <2>1. \A n \in Registry : \A s \in bindings'[n] : s \in bindings[n] \/ s.id = created + 1
    BY <1>1 DEF Add
  <2>2. \A n \in Registry : \A r \in bindings[n] : r.id \in Nat /\ r.id <= created
    BY DEF BindingInv, BindingTypeOK, IdsDrawn, Binding, BindingId
  <2>3. \A n \in Registry : \A r \in bindings[n] : r.id # created + 1
    BY <2>2
  <2>4. \A n \in Registry : \A r, s \in bindings[n] : r.id = s.id => r = s
    BY DEF BindingInv, IdsDrawn
  <2> QED BY <2>1, <2>3, <2>4
<1>2. ASSUME NEW w \in Wallet, NEW d \in Device, BindProduction(w, d)
      PROVE  BindingFacts
  <2>1. Add("PRODUCTION", w, d)
    BY <1>2 DEF BindProduction
  <2>2. \A r \in bindings["PRODUCTION"] : r.device = d => ~r.active
    BY <1>2 DEF BindProduction, DeviceFree
  <2>3. \A s \in bindings'["PRODUCTION"] :
            s \in bindings["PRODUCTION"]
              \/ s = [id |-> created + 1, wallet |-> w, device |-> d,
                      active |-> TRUE, version |-> 1]
    BY <2>1 DEF Add
  <2>4. OneActivePerDevice => OneActivePerDevice'
    <3> DEFINE new == [id |-> created + 1, wallet |-> w, device |-> d,
                       active |-> TRUE, version |-> 1]
    <3>1. new.device = d
      OBVIOUS
    <3>2. \A s \in bindings'["PRODUCTION"] : s \in bindings["PRODUCTION"] \/ s = new
      BY <2>3
    <3> HIDE DEF new
    <3> QED BY <2>2, <3>1, <3>2 DEF OneActivePerDevice
  <2> QED BY <2>1, <2>4, <1>1, AddStep
<1>3. ASSUME NEW w \in Wallet, NEW d \in Device, BindTest(w, d)
      PROVE  BindingFacts
  <2>1. Add("TEST", w, d)
    BY <1>3 DEF BindTest
  <2>2. bindings'["PRODUCTION"] = bindings["PRODUCTION"]
    BY <2>1 DEF Add
  <2>3. OneActivePerDevice => OneActivePerDevice'
    BY <2>2 DEF OneActivePerDevice
  <2> QED BY <2>1, <2>3, <1>1, AddStep
<1>4. ASSUME NEW ns \in Registry, NEW id, NEW w, NEW d, NEW v, Revoke(ns, id, w, d, v)
      PROVE  BindingFacts
  BY <1>4, RevokeStep
<1>5. ASSUME NEW ns \in Registry, NEW r, LogPurge(ns, r)
      PROVE  BindingFacts
  <2>1. \A n \in Registry : bindings'[n] \subseteq bindings[n]
    BY <1>5 DEF LogPurge
  <2> QED BY <1>5, <2>1, LogPurgeStep, Unbound
<1>6. ASSUME NEW ns \in Registry, RemovePurged(ns)
      PROVE  BindingFacts
  <2>1. \A n \in Registry : bindings'[n] \subseteq bindings[n]
    BY <1>6 DEF RemovePurged
  <2> QED BY <1>6, <2>1, RemoveStep, Unbound
<1>7. ASSUME NEW ns \in Registry, DieInPurge(ns)
      PROVE  BindingFacts
  <2>1. \A n \in Registry : bindings'[n] \subseteq bindings[n]
    BY <1>7 DEF DieInPurge
  <2> QED BY <1>7, <2>1, DieStep, Unbound
<1>8. ASSUME UNCHANGED bindingVars PROVE BindingFacts
  <2>1. /\ \A n \in Registry : bindings'[n] \subseteq bindings[n]
        /\ BindingInv' /\ (NoBindingVanishes => NoBindingVanishes')
    BY <1>8 DEF bindingVars, BindingInv, BindingTypeOK, IdsDrawn, PurgeLogged, Logged,
                NoBindingVanishes
  <2> QED BY <2>1, Unbound
<1> QED BY <1>2, <1>3, <1>4, <1>5, <1>6, <1>7, <1>8 DEF BindingNext

\* For any wallets, devices, calls and crashes, BindingInv holds (WalletDeviceBindingStore:
\* check_and_bind, revoke_with_history, purge_binding).
THEOREM BindingInvariant == BindingSpec => []BindingInv
<1>1. BindingInit => BindingInv
  BY BindingAssumption, BindingStart
<1>2. BindingInv /\ [BindingNext]_bindingVars => BindingInv'
  BY BindingAssumption, BindingStep DEF BindingFacts
<1> QED BY <1>1, <1>2, PTL DEF BindingSpec

\* A device has at most one active binding in production, however revocations,
\* purges, crashes and tests interleave with the requests.
THEOREM OneWallet == BindingSpec => []OneActivePerDevice
<1>1. BindingInit => OneActivePerDevice
  BY BindingAssumption, BindingStart
<1>2. BindingInv /\ OneActivePerDevice /\ [BindingNext]_bindingVars => OneActivePerDevice'
  BY BindingAssumption, BindingStep DEF BindingFacts
<1> QED BY <1>1, <1>2, BindingInvariant, PTL DEF BindingSpec

\* A binding that was made is in its registry or, revoked, in the purge log: a
\* crash between the log and the removal loses none.
THEOREM NoneVanishes == BindingSpec => []NoBindingVanishes
<1>1. BindingInit => NoBindingVanishes
  BY BindingAssumption, BindingStart
<1>2. BindingInv /\ NoBindingVanishes /\ [BindingNext]_bindingVars => NoBindingVanishes'
  BY BindingAssumption, BindingStep DEF BindingFacts
<1> QED BY <1>1, <1>2, BindingInvariant, PTL DEF BindingSpec

\* No step makes a revoked binding active again or changes it while it stays in
\* its registry.
THEOREM RevokedStays == BindingSpec => RevokedForGood
<1>1. BindingInv /\ [BindingNext]_bindingVars =>
          [\A ns \in Registry : \A r \in bindings[ns], s \in bindings'[ns] :
              ~r.active /\ s.id = r.id => s = r]_bindingVars
  BY BindingAssumption, BindingStep DEF BindingFacts
<1> QED BY <1>1, BindingInvariant, PTL DEF BindingSpec, RevokedForGood

-----------------------------------------------------------------------------
(* The network gate: the whole grace period is given.                      *)

\* The anti-flap count stays below its limit while the node is suspended.
StreakBounded ==
    /\ streak \in 0 .. MinStreak
    /\ netState = "SUSPENDED" => streak < MinStreak

\* The node's grace runs no longer than it has had no way in.
GraceInv ==
    /\ NetTypeOK /\ StreakBounded
    /\ degraded # Never => lacking # Never /\ degraded <= lacking
    /\ GraceGiven

LEMMA NetStart == NetInit => GraceInv
    BY NetworkAssumption DEF NetInit, GraceInv, NetTypeOK, NetworkState, StreakBounded, GraceGiven

\* A timer runs no longer than the bound, and does not start by itself.
LEMMA LaterType ==
    ASSUME NEW time \in 0 .. Grace \cup {Never}
    PROVE  /\ Later(time) \in 0 .. Grace \cup {Never}
           /\ Later(time) = Never <=> time = Never
           /\ time # Never => time <= Later(time)
    BY NetworkAssumption DEF Later

\* A moment passes.
LEMMA TimeStep == GraceInv /\ TimePasses => GraceInv'
<1> SUFFICES ASSUME GraceInv, TimePasses PROVE GraceInv'
    OBVIOUS
<1>1. /\ degraded \in 0 .. Grace \cup {Never} /\ lacking \in 0 .. Grace \cup {Never}
      /\ degraded' = Later(degraded) /\ lacking' = Later(lacking)
      /\ UNCHANGED <<netState, reason, streak, probes>>
    BY DEF GraceInv, NetTypeOK, TimePasses
<1>2. NetTypeOK' /\ StreakBounded'
    BY <1>1, LaterType DEF GraceInv, NetTypeOK, StreakBounded
<1>3. degraded' # Never => lacking' # Never /\ degraded' <= lacking'
    BY <1>1, NetworkAssumption DEF GraceInv, Later
<1>4. GraceGiven'
    BY <1>1 DEF GraceInv, GraceGiven, Later
<1> QED
    BY <1>2, <1>3, <1>4 DEF GraceInv

\* An assessment, whether the network has changed or not.
LEMMA AssessStep ==
    ASSUME GraceInv, NEW prev \in NetworkState \cup {"TESTING"}, NEW count \in 0 .. MinStreak,
           NEW since \in 0 .. Grace \cup {Never}, NEW proofs \in [seen: BOOLEAN, ok: BOOLEAN],
           prev = "SUSPENDED" => count < MinStreak,
           since # Never => lacking # Never /\ since <= lacking,
           Assess(prev, count, since, proofs)
    PROVE  GraceInv'
<1>1. PICK out, relay, listens \in BOOLEAN :
          LET found  == Classify(out, relay, listens, proofs, since)
              passes == prev = "SUSPENDED" /\ found \in Usable
              held   == passes /\ count + 1 < MinStreak
              state  == IF held THEN "SUSPENDED" ELSE found
              noWay  == out /\ found \notin Usable \cup {"INDETERMINATE"}
          IN  /\ netState' = state
              /\ reason' = IF held THEN "flap"
                           ELSE IF ~out THEN "cut"
                           ELSE IF found = "SUSPENDED" THEN "grace" ELSE "measured"
              /\ streak' = IF passes THEN count + 1 ELSE 0
              /\ degraded' = DegradedSince(state, since)
              /\ probes' = proofs
              /\ lacking' = IF ~noWay THEN Never
                            ELSE IF lacking = Never THEN 0 ELSE lacking
    BY DEF Assess
<1> DEFINE found  == Classify(out, relay, listens, proofs, since)
           passes == prev = "SUSPENDED" /\ found \in Usable
           held   == passes /\ count + 1 < MinStreak
           noWay  == out /\ found \notin Usable \cup {"INDETERMINATE"}
<1>2. /\ netState' = (IF held THEN "SUSPENDED" ELSE found)
      /\ reason' = IF held THEN "flap"
                   ELSE IF ~out THEN "cut"
                   ELSE IF found = "SUSPENDED" THEN "grace" ELSE "measured"
      /\ streak' = IF passes THEN count + 1 ELSE 0
      /\ degraded' = DegradedSince(netState', since)
      /\ probes' = proofs
      /\ lacking' = IF ~noWay THEN Never ELSE IF lacking = Never THEN 0 ELSE lacking
    BY <1>1
<1>3. /\ found \in NetworkState
      /\ found = "DEGRADED" => noWay
      /\ found = "SUSPENDED" /\ out => noWay /\ since = Grace
    BY DEF Classify, NetworkState, Usable
<1>4. lacking \in 0 .. Grace \cup {Never} /\ Grace \in Nat /\ MinStreak \in Nat \ {0} /\ Never \notin Nat
    BY NetworkAssumption DEF GraceInv, NetTypeOK
<1> HIDE DEF found, noWay
<1>5. degraded' # Never => netState' = "DEGRADED" /\ found = "DEGRADED"
                           /\ degraded' = IF since = Never THEN 0 ELSE since
    BY <1>2 DEF DegradedSince
<1>6. degraded' \in 0 .. Grace \cup {Never} /\ lacking' \in 0 .. Grace \cup {Never}
    BY <1>2, <1>4, <1>5
<1>7. StreakBounded'
    BY <1>2, <1>4 DEF StreakBounded, Usable
<1>8. NetTypeOK'
    BY <1>2, <1>3, <1>6, <1>7 DEF NetTypeOK, StreakBounded, NetworkState
<1>9. degraded' # Never => lacking' # Never /\ degraded' <= lacking'
    BY <1>2, <1>3, <1>4, <1>5
<1>10. GraceGiven'
    BY <1>2, <1>3, <1>4 DEF GraceGiven
<1> QED
    BY <1>7, <1>8, <1>9, <1>10 DEF GraceInv

LEMMA NetStep == GraceInv /\ [NetNext]_netVars => GraceInv'
<1> SUFFICES ASSUME GraceInv, [NetNext]_netVars PROVE GraceInv'
    OBVIOUS
<1>1. CASE TimePasses
    BY <1>1, TimeStep
<1>2. ASSUME NEW success \in BOOLEAN, RecordProbe(success) PROVE GraceInv'
    BY <1>2 DEF RecordProbe, GraceInv, NetTypeOK, StreakBounded, GraceGiven
<1>3. CASE AssessNow
    BY <1>3, AssessStep DEF AssessNow, GraceInv, NetTypeOK, StreakBounded
<1>4. CASE NetworkChanges
  <2>1. /\ [seen |-> FALSE, ok |-> FALSE] \in [seen: BOOLEAN, ok: BOOLEAN]
        /\ 0 \in 0 .. MinStreak /\ Never \in 0 .. Grace \cup {Never}
        /\ "TESTING" \in NetworkState \cup {"TESTING"} /\ "TESTING" # "SUSPENDED"
      BY NetworkAssumption
  <2>2. Assess("TESTING", 0, Never, [seen |-> FALSE, ok |-> FALSE])
      BY <1>4 DEF NetworkChanges
  <2> QED
      BY <2>1, <2>2, AssessStep, Zenon
<1>5. CASE UNCHANGED netVars
    BY <1>5 DEF netVars, GraceInv, NetTypeOK, StreakBounded, GraceGiven
<1> QED
    BY <1>1, <1>2, <1>3, <1>4, <1>5 DEF NetNext

\* However the monitor assesses, the probes answer and the network changes, the
\* grace the node gives itself is measured from when it lost its way in
\* (classify_network_state and NetworkEligibilityGate.assess).
THEOREM GraceInvariant == NetSpec => []GraceInv
    BY NetStart, NetStep, PTL DEF NetSpec

\* A node that can reach out is only suspended for want of a way in after the
\* whole grace period without one: nothing it remembers shortens the period.
THEOREM GraceIsGiven == NetSpec => []GraceGiven
    BY GraceInvariant, PTL DEF GraceInv

-----------------------------------------------------------------------------
(* Pools: what is done was delivered, what is minted is complete.          *)

\* Lines that are done and name their owner's address were delivered.
TrueLines(items, results) ==
    \A c \in Chunk : items[c].callback /\ "done" \in items[c].lines => c \in results

\* A copy of the job with these results at most, complete if it says so.
TrueJob(j, results) ==
    /\ j.done \subseteq results
    /\ j.status # "dispatched" => j.done = Chunk

\* What a thread has read, and will write, is true of the results delivered.
TrueRequest(r, results) ==
    /\ r.pc \in {"queue", "finish", "post", "answer", "collect"} => TrueLines(r.items, results)
    /\ r.pc \in {"answer", "finish"} /\ r.items[r.chunk].callback => r.chunk \in results
    /\ r.pc = "collect" => TrueJob(r.job, results \cup {r.chunk})
    /\ r.pc \in {"mint", "complete"} => r.job.done = Chunk /\ results = Chunk

\* The inductive invariant: what is stored, and what each request will write,
\* is true of the results delivered.
PoolInv ==
    /\ PoolTypeOK
    /\ \A n \in PoolNode : TrueLines(incoming[n], delivered)
    /\ job # NoJob => TrueJob(job, delivered)
    /\ minted > 0 => delivered = Chunk
    /\ \A t \in PoolThread : request[t] # PoolIdle => TrueRequest(request[t], delivered)

LEMMA PoolStart == PoolInit => PoolInv
<1> SUFFICES ASSUME PoolInit PROVE PoolInv
    OBVIOUS
<1>1. NoIncoming \in Incoming
    BY DEF NoIncoming, Incoming
<1>2. [status |-> "dispatched", done |-> {}] \in Job
    BY DEF Job
<1>3. PoolTypeOK
    BY <1>1, <1>2, PoolAssumption DEF PoolInit, PoolTypeOK
<1> QED
    BY <1>3 DEF PoolInit, PoolInv, TrueLines, TrueJob, NoIncoming

\* A thread's request is another one, the files are as they were.
LEMMA ServeStep ==
    ASSUME PoolInv, NEW t \in PoolThread, NEW r \in PoolRequest \cup {PoolIdle}, Serve(t, r),
           r # PoolIdle => TrueRequest(r, delivered),
           UNCHANGED <<job, incoming, delivered, minted>>
    PROVE  PoolInv'
<1>1. /\ request'[t] = r /\ \A u \in PoolThread \ {t} : request'[u] = request[u]
      /\ request' \in [PoolThread -> PoolRequest \cup {PoolIdle}]
    BY DEF PoolInv, PoolTypeOK, Serve
<1>2. \A u \in PoolThread : request'[u] # PoolIdle => TrueRequest(request'[u], delivered)
    BY <1>1 DEF PoolInv
<1> QED
    BY <1>1, <1>2 DEF PoolInv, PoolTypeOK, TrueLines, TrueJob

\* What a request holds, whatever it is at.
LEMMA RequestFields ==
    ASSUME PoolInv, NEW t \in PoolThread, request[t] # PoolIdle
    PROVE  /\ TrueRequest(request[t], delivered)
           /\ request[t].pc \in {"queue", "finish", "post", "answer", "collect"} =>
                  request[t].chunk \in Chunk /\ request[t].items \in Incoming
           /\ request[t].pc \in {"collect", "mint", "complete"} => request[t].job \in Job
    BY DEF PoolInv, PoolTypeOK, PoolRequest

\* What a reader finds is what is there, or nothing.
LEMMA SeenLines ==
    ASSUME PoolInv, NEW n \in PoolNode, NEW items \in SeenIncoming(n)
    PROVE  items \in Incoming /\ TrueLines(items, delivered)
<1>1. NoIncoming \in Incoming /\ TrueLines(NoIncoming, delivered)
    BY DEF NoIncoming, Incoming, TrueLines
<1> QED
    BY <1>1 DEF PoolInv, PoolTypeOK, SeenIncoming

LEMMA SeenJobs ==
    ASSUME PoolInv, NEW j \in SeenJob \ {NoJob}
    PROVE  j = job /\ j \in Job /\ TrueJob(j, delivered)
<1>1. j = job /\ job # NoJob
    BY DEF SeenJob
<1> QED
    BY <1>1 DEF PoolInv, PoolTypeOK

-----------------------------------------------------------------------------
\* The owner dispatches a chunk to its own queue.
LEMMA DispatchStep ==
    ASSUME PoolInv, NEW c \in Chunk, DispatchLocal(c)
    PROVE  PoolInv'
<1>1. PICK s \in {"pending"} \cup {"done" : d \in {c} \cap delivered} :
          incoming' = [incoming EXCEPT ![Owner][c].lines = @ \cup {s}]
    BY DEF DispatchLocal
<1>2. s = "pending" \/ (s = "done" /\ c \in delivered)
    BY <1>1
<1>3. incoming \in [PoolNode -> [Chunk -> [lines: SUBSET {"pending", "done"}, callback: BOOLEAN]]] /\ Owner \in PoolNode
    BY PoolAssumption DEF PoolInv, PoolTypeOK, Incoming
<1> DEFINE old == incoming[Owner][c]
           new == [old EXCEPT !.lines = old.lines \cup {s}]
<1>4. /\ new \in [lines: SUBSET {"pending", "done"}, callback: BOOLEAN]
      /\ "done" \in new.lines => "done" \in old.lines \/ c \in delivered
      /\ new.callback = old.callback
    BY <1>2, <1>3
<1>5. incoming' = [incoming EXCEPT ![Owner] = [incoming[Owner] EXCEPT ![c] = new]]
    BY <1>1
<1>6. UNCHANGED <<job, delivered, minted, request>>
    BY DEF DispatchLocal
<1> HIDE DEF new
<1>7. incoming' \in [PoolNode -> Incoming]
    BY <1>3, <1>4, <1>5 DEF Incoming
<1>8. \A n \in PoolNode : TrueLines(incoming'[n], delivered)
    BY <1>3, <1>4, <1>5 DEF PoolInv, TrueLines
<1> QED
    BY <1>6, <1>7, <1>8 DEF PoolInv, PoolTypeOK, TrueLines, TrueJob, TrueRequest

\* A worker is given a chunk, or takes one from its queue.
LEMMA ReceiveChunkStep ==
    ASSUME PoolInv, NEW t \in PoolThread, NEW c \in Chunk, ReceiveChunk(t, c) \/ ProcessChunk(t, c)
    PROVE  PoolInv'
<1>1. WorkerOf[c] \in PoolNode
    BY PoolAssumption
<1>2. UNCHANGED <<job, incoming, delivered, minted>>
    BY DEF ReceiveChunk, ProcessChunk
<1>3. CASE ReceiveChunk(t, c)
  <2>1. PICK items \in SeenIncoming(WorkerOf[c]), callback \in BOOLEAN :
            Serve(t, [pc |-> "queue", chunk |-> c,
                      items |-> [items EXCEPT ![c] =
                                     [lines |-> {"pending"}, callback |-> callback]]])
      BY <1>3 DEF ReceiveChunk
  <2> DEFINE more == [items EXCEPT ![c] = [lines |-> {"pending"}, callback |-> callback]]
             r == [pc |-> "queue", chunk |-> c, items |-> more]
  <2>2. items \in Incoming /\ TrueLines(items, delivered)
      BY <1>1, SeenLines
  <2>3. more \in Incoming /\ TrueLines(more, delivered)
      BY <2>2 DEF Incoming, TrueLines
  <2> HIDE DEF more
  <2>4. r \in PoolRequest /\ TrueRequest(r, delivered)
      BY <2>3 DEF PoolRequest, TrueRequest
  <2>5. Serve(t, r)
      BY <2>1 DEF more
  <2> HIDE DEF r
  <2> QED
      BY <1>2, <2>4, <2>5, ServeStep
<1>4. CASE ProcessChunk(t, c)
  <2>1. PICK items \in SeenIncoming(WorkerOf[c]) :
            Serve(t, [pc |-> IF items[c].callback THEN "post" ELSE "answer",
                      chunk |-> c, items |-> items])
      BY <1>4 DEF ProcessChunk
  <2> DEFINE r == [pc |-> IF items[c].callback THEN "post" ELSE "answer",
                   chunk |-> c, items |-> items]
  <2>2. items \in Incoming /\ TrueLines(items, delivered)
      BY <1>1, SeenLines
  <2>3. r \in PoolRequest /\ TrueRequest(r, delivered)
      BY <2>2 DEF PoolRequest, TrueRequest
  <2> HIDE DEF r
  <2>4. Serve(t, r)
      BY <2>1 DEF r
  <2> QED
      BY <1>2, <2>3, <2>4, ServeStep
<1> QED
    BY <1>3, <1>4

\* A thread writes the lines it holds.
LEMMA SaveIncomingStep ==
    ASSUME PoolInv, NEW t \in PoolThread, SaveIncoming(t)
    PROVE  PoolInv'
<1> DEFINE r == request[t]
           n == WorkerOf[r.chunk]
<1>1. /\ r # PoolIdle /\ r.pc \in {"queue", "finish"}
      /\ incoming' = [incoming EXCEPT ![n] = r.items]
      /\ request' = [request EXCEPT ![t] = PoolIdle] /\ UNCHANGED <<job, delivered, minted>>
    BY DEF SaveIncoming, Serve
<1>2. r.items \in Incoming /\ TrueLines(r.items, delivered) /\ n \in PoolNode
    BY <1>1, RequestFields, PoolAssumption DEF TrueRequest
<1> HIDE DEF n, r
<1>3. incoming' \in [PoolNode -> Incoming] /\ \A m \in PoolNode : incoming'[m] \in {incoming[m], r.items}
    BY <1>1, <1>2 DEF PoolInv, PoolTypeOK
<1>4. \A m \in PoolNode : TrueLines(incoming'[m], delivered)
    BY <1>2, <1>3 DEF PoolInv
<1>5. /\ request' \in [PoolThread -> PoolRequest \cup {PoolIdle}]
      /\ \A u \in PoolThread : request'[u] # PoolIdle => request'[u] = request[u]
    BY <1>1 DEF PoolInv, PoolTypeOK
<1> QED
    BY <1>1, <1>3, <1>4, <1>5 DEF PoolInv, PoolTypeOK, TrueLines, TrueJob, TrueRequest

\* The owner has read the job to which the result belongs.
LEMMA ReceiveResultStep ==
    ASSUME PoolInv, NEW t \in PoolThread, ReceiveResult(t)
    PROVE  PoolInv'
<1> DEFINE c == request[t].chunk
           items == request[t].items
<1>1. PICK j \in SeenJob \ {NoJob} :
          Serve(t, [pc |-> "collect", chunk |-> c, items |-> items, job |-> WithResult(j, c)])
    BY DEF ReceiveResult
<1>2. /\ request[t] # PoolIdle /\ request[t].pc = "post"
      /\ UNCHANGED <<job, incoming, delivered, minted>>
    BY DEF ReceiveResult
<1>3. c \in Chunk /\ items \in Incoming /\ TrueLines(items, delivered)
    BY <1>2, RequestFields DEF TrueRequest
<1> DEFINE k == WithResult(j, c)
           r == [pc |-> "collect", chunk |-> c, items |-> items, job |-> k]
<1> HIDE DEF c, items
<1>4. j \in Job /\ TrueJob(j, delivered)
    BY SeenJobs
<1>5. k \in Job /\ TrueJob(k, delivered \cup {c})
  <2>1. /\ k.done = j.done \cup {c}
        /\ k.status = IF j.done \cup {c} = Chunk THEN "ready_finalize" ELSE j.status
        /\ k = [status |-> k.status, done |-> k.done]
      BY DEF WithResult
  <2>2. j.done \subseteq Chunk /\ j.status \in {"dispatched", "ready_finalize", "completed"}
      BY <1>4 DEF Job
  <2> HIDE DEF k
  <2>3. k.status # "dispatched" => k.done = Chunk
      BY <1>3, <1>4, <2>1, <2>2 DEF TrueJob
  <2>4. k.done \subseteq Chunk /\ k.status \in {"dispatched", "ready_finalize", "completed"}
      BY <1>3, <2>1, <2>2
  <2> QED
      BY <1>4, <2>1, <2>3, <2>4 DEF Job, TrueJob
<1> HIDE DEF k
<1>6. r \in PoolRequest /\ TrueRequest(r, delivered)
    BY <1>3, <1>5 DEF PoolRequest, TrueRequest
<1>7. Serve(t, r)
    BY <1>1 DEF k
<1> HIDE DEF r
<1> QED
    BY <1>2, <1>6, <1>7, ServeStep

\* A result is written: the job as it was read, and the result itself.
LEMMA SaveResultStep ==
    ASSUME PoolInv, NEW t \in PoolThread, SaveResult(t)
    PROVE  PoolInv'
<1> DEFINE c == request[t].chunk
           r == [pc |-> "answer", chunk |-> c, items |-> request[t].items]
<1>1. /\ request[t] # PoolIdle /\ request[t].pc = "collect"
      /\ job' = request[t].job /\ delivered' = delivered \cup {c}
      /\ request' = [request EXCEPT ![t] = r] /\ UNCHANGED <<incoming, minted>>
    BY DEF SaveResult, Serve
<1>2. /\ c \in Chunk /\ request[t].items \in Incoming /\ TrueLines(request[t].items, delivered)
      /\ request[t].job \in Job /\ TrueJob(request[t].job, delivered \cup {c})
    BY <1>1, RequestFields DEF TrueRequest
<1>3. r \in PoolRequest
    BY <1>2 DEF PoolRequest
<1>4. r.pc = "answer" /\ r.chunk = c /\ r.items = request[t].items
    OBVIOUS
<1> HIDE DEF r
<1>5. /\ request'[t] = r /\ \A u \in PoolThread \ {t} : request'[u] = request[u]
      /\ request' \in [PoolThread -> PoolRequest \cup {PoolIdle}]
    BY <1>1, <1>3 DEF PoolInv, PoolTypeOK
<1>6. delivered' \subseteq Chunk /\ (delivered = Chunk => delivered' = Chunk)
    BY <1>1, <1>2 DEF PoolInv, PoolTypeOK
<1>7. TrueRequest(r, delivered')
    BY <1>1, <1>2, <1>4 DEF TrueRequest, TrueLines
<1>8. ASSUME NEW u \in PoolThread \ {t}, request'[u] # PoolIdle
      PROVE  TrueRequest(request'[u], delivered')
    BY <1>1, <1>5, <1>6, <1>8 DEF PoolInv, TrueRequest, TrueLines, TrueJob
<1>9. PoolTypeOK'
    BY <1>1, <1>2, <1>5, <1>6 DEF PoolInv, PoolTypeOK
<1>10. TrueJob(job', delivered') /\ \A n \in PoolNode : TrueLines(incoming'[n], delivered')
    BY <1>1, <1>2 DEF PoolInv, TrueJob, TrueLines
<1>11. \A u \in PoolThread : request'[u] # PoolIdle => TrueRequest(request'[u], delivered')
    BY <1>5, <1>7, <1>8
<1> QED
    BY <1>1, <1>6, <1>9, <1>10, <1>11 DEF PoolInv

LEMMA MarkDoneStep ==
    ASSUME PoolInv, NEW t \in PoolThread, MarkDone(t)
    PROVE  PoolInv'
<1> DEFINE c == request[t].chunk
           done == [request[t].items EXCEPT ![c].lines = {"done"}]
           r == [pc |-> "finish", chunk |-> c, items |-> done]
<1>1. /\ request[t] # PoolIdle /\ request[t].pc = "answer" /\ Serve(t, r)
      /\ UNCHANGED <<job, incoming, delivered, minted>>
    BY DEF MarkDone, Answered
<1>2. /\ c \in Chunk /\ request[t].items \in Incoming /\ TrueLines(request[t].items, delivered)
      /\ request[t].items[c].callback => c \in delivered
    BY <1>1, RequestFields DEF TrueRequest
<1>3. done \in Incoming /\ TrueLines(done, delivered) /\ done[c].callback = request[t].items[c].callback
    BY <1>2 DEF Incoming, TrueLines
<1> HIDE DEF c, done
<1>4. r \in PoolRequest /\ TrueRequest(r, delivered)
    BY <1>2, <1>3 DEF PoolRequest, TrueRequest
<1> HIDE DEF r
<1> QED
    BY <1>1, <1>4, ServeStep

LEMMA FinalizeStep ==
    ASSUME PoolInv, NEW t \in PoolThread, FinalizeJob(t)
    PROVE  PoolInv'
<1>1. PICK j \in SeenJob \ {NoJob} : j.done = Chunk /\ Serve(t, [pc |-> "mint", job |-> j])
    BY DEF FinalizeJob
<1> DEFINE r == [pc |-> "mint", job |-> j]
<1>2. j \in Job /\ TrueJob(j, delivered) /\ UNCHANGED <<job, incoming, delivered, minted>>
    BY SeenJobs DEF FinalizeJob
<1>3. delivered = Chunk
    BY <1>1, <1>2 DEF TrueJob, PoolInv, PoolTypeOK
<1>4. r \in PoolRequest /\ TrueRequest(r, delivered)
    BY <1>1, <1>2, <1>3 DEF PoolRequest, TrueRequest
<1>5. Serve(t, r)
    BY <1>1
<1> HIDE DEF r
<1> QED
    BY <1>2, <1>4, <1>5, ServeStep

LEMMA MintStep ==
    ASSUME PoolInv, NEW t \in PoolThread, Mint(t)
    PROVE  PoolInv'
<1> DEFINE j == [request[t].job EXCEPT !.status = "completed"]
           r == [pc |-> "complete", job |-> j]
<1>1. /\ request[t] # PoolIdle /\ request[t].pc = "mint" /\ minted < MaxBlocks
      /\ minted' = minted + 1 /\ request' = [request EXCEPT ![t] = r]
      /\ UNCHANGED <<job, incoming, delivered>>
    BY DEF Mint, Serve
<1>2. request[t].job \in Job /\ request[t].job.done = Chunk /\ delivered = Chunk
    BY <1>1, RequestFields DEF TrueRequest
<1>3. j \in Job /\ j.done = Chunk
    BY <1>2 DEF Job
<1> HIDE DEF j
<1>4. r \in PoolRequest /\ TrueRequest(r, delivered)
    BY <1>2, <1>3 DEF PoolRequest, TrueRequest
<1> HIDE DEF r
<1>5. /\ request'[t] = r /\ \A u \in PoolThread \ {t} : request'[u] = request[u]
      /\ request' \in [PoolThread -> PoolRequest \cup {PoolIdle}]
    BY <1>1, <1>4 DEF PoolInv, PoolTypeOK
<1>6. \A u \in PoolThread : request'[u] # PoolIdle => TrueRequest(request'[u], delivered)
    BY <1>4, <1>5 DEF PoolInv
<1>7. minted' \in 0 .. MaxBlocks
    BY <1>1, PoolAssumption DEF PoolInv, PoolTypeOK
<1> QED
    BY <1>1, <1>2, <1>5, <1>6, <1>7
       DEF PoolInv, PoolTypeOK, TrueRequest, TrueLines, TrueJob

\* The job is written as complete, a thread gives up, or dies while it writes.
LEMMA EndStep ==
    ASSUME PoolInv, NEW t \in PoolThread, CompleteJob(t) \/ Abandon(t) \/ DieWriting(t)
    PROVE  PoolInv'
<1>1. request' = [request EXCEPT ![t] = PoolIdle] /\ UNCHANGED <<delivered, minted>>
    BY DEF CompleteJob, Abandon, DieWriting, Serve
<1>2. /\ request' \in [PoolThread -> PoolRequest \cup {PoolIdle}]
      /\ \A u \in PoolThread : request'[u] # PoolIdle => request'[u] = request[u]
    BY <1>1 DEF PoolInv, PoolTypeOK
<1>3. job' \in Job \cup {NoJob} /\ (job' # NoJob => TrueJob(job', delivered))
  <2>1. CASE job' \in {job, NoJob}
      BY <2>1 DEF PoolInv, PoolTypeOK
  <2>2. CASE CompleteJob(t)
    <3>1. /\ request[t] # PoolIdle /\ request[t].pc = "complete" /\ job' = request[t].job
        BY <2>2 DEF CompleteJob
    <3>2. request[t].job \in Job /\ request[t].job.done = Chunk /\ delivered = Chunk
        BY <3>1, RequestFields DEF TrueRequest
    <3> QED
        BY <3>1, <3>2 DEF TrueJob
  <2> QED
      BY <2>1, <2>2 DEF Abandon, DieWriting
<1>4. incoming' \in [PoolNode -> Incoming] /\ \A n \in PoolNode : TrueLines(incoming'[n], delivered)
  <2>1. CASE incoming' = incoming
      BY <2>1 DEF PoolInv, PoolTypeOK
  <2>2. CASE \E n \in PoolNode : incoming' = [incoming EXCEPT ![n] = NoIncoming]
      BY <2>2 DEF PoolInv, PoolTypeOK, NoIncoming, Incoming, TrueLines
  <2> QED
      BY <2>1, <2>2 DEF CompleteJob, Abandon, DieWriting
<1> QED
    BY <1>1, <1>2, <1>3, <1>4 DEF PoolInv, PoolTypeOK, TrueLines, TrueJob, TrueRequest

LEMMA PoolStep == PoolInv /\ [PoolNext]_poolVars => PoolInv'
<1> SUFFICES ASSUME PoolInv, [PoolNext]_poolVars PROVE PoolInv'
    OBVIOUS
<1>1. ASSUME NEW c \in Chunk, DispatchLocal(c) PROVE PoolInv'
    BY <1>1, DispatchStep
<1>2. ASSUME NEW t \in PoolThread, NEW c \in Chunk, ReceiveChunk(t, c) \/ ProcessChunk(t, c)
      PROVE  PoolInv'
    BY <1>2, ReceiveChunkStep
<1>3. ASSUME NEW t \in PoolThread,
             \/ SaveIncoming(t) \/ ReceiveResult(t) \/ SaveResult(t) \/ MarkDone(t)
             \/ FinalizeJob(t) \/ Mint(t) \/ CompleteJob(t) \/ Abandon(t) \/ DieWriting(t)
      PROVE  PoolInv'
    BY <1>3, SaveIncomingStep, ReceiveResultStep, SaveResultStep, MarkDoneStep, FinalizeStep,
       MintStep, EndStep
<1>4. CASE UNCHANGED poolVars
    BY <1>4 DEF poolVars, PoolInv, PoolTypeOK, TrueLines, TrueJob, TrueRequest
<1> QED
    BY <1>1, <1>2, <1>3, <1>4 DEF PoolNext

\* For any chunks, workers and threads that overlap, die while they write or give
\* up, PoolInv holds (PoolService).
THEOREM PoolInvariant == PoolSpec => []PoolInv
    BY PoolStart, PoolStep, PTL DEF PoolSpec

\* A line of a worker's queue that names its owner's address and says done is
\* about a result the owner has stored, however stale the queue the thread wrote back.
THEOREM DoneDelivered == PoolSpec => []DoneWasDelivered
<1>1. PoolInv => DoneWasDelivered
    BY DEF PoolInv, DoneWasDelivered, TrueLines
<1> QED
    BY <1>1, PoolInvariant, PTL

\* No block is minted for a job, and no job is completed, before the result of
\* every chunk has reached the owner.
THEOREM FinalizedComplete == PoolSpec => []OnlyCompleteJobsFinalized
<1>1. PoolInv => OnlyCompleteJobsFinalized
    BY DEF PoolInv, OnlyCompleteJobsFinalized, TrueJob, TrueRequest
<1> QED
    BY <1>1, PoolInvariant, PTL

-----------------------------------------------------------------------------
(* Slashing: a critical slash that returned is for good, as long as crashes cut
   one write at most.  Either file alone restores every ban.*)

\* A thread whose critical slash has not returned.
Applies(t) == slashing[t] # SlashIdle /\ slashing[t].event.severity = "critical"

SlashShape ==
    /\ banned \subseteq Suspect /\ blacklist \subseteq Suspect
    /\ events \in Seq(Event \cup {CutLine})
    /\ listFile = Unreadable \/ listFile \subseteq Suspect
    /\ DOMAIN slashing = SlashThread /\ cuts \in Nat
    /\ \A t \in SlashThread : slashing[t] # SlashIdle =>
          slashing[t] \in [event: Event, pc: {"list", "event"}]
    /\ \A t \in SlashThread : Applies(t) =>
          slashing[t].event.who \in banned \cap blacklist

\* The blacklist's file restores every ban.
ListHolds ==
    /\ listFile # Unreadable /\ listFile \subseteq blacklist /\ sentenced \subseteq listFile
    /\ \A t \in SlashThread :
          Applies(t) /\ slashing[t].pc = "event" => slashing[t].event.who \in listFile

\* The events do.
EventsHold ==
    /\ \A i \in DOMAIN events : events[i] # CutLine
    /\ sentenced \subseteq BannedBy(events) \cap banned

BanInv ==
    /\ SlashShape
    /\ cuts = 0 => ListHolds /\ EventsHold
    /\ cuts = 1 => ListHolds \/ EventsHold

LEMMA BanStart == SlashInit => BanInv
<1> SUFFICES ASSUME SlashInit PROVE BanInv
    OBVIOUS
<1>1. events \in Seq(Event \cup {CutLine}) /\ DOMAIN events = {}
    BY DEF SlashInit
<1>2. \A t \in SlashThread : slashing[t] = SlashIdle
    BY DEF SlashInit
<1>3. SlashShape
    BY <1>1, <1>2 DEF SlashInit, SlashShape, Applies
<1>4. ListHolds
    BY <1>2, SlashAssumption DEF SlashInit, ListHolds, Applies
<1>5. EventsHold
    BY <1>1 DEF SlashInit, EventsHold
<1> QED
    BY <1>3, <1>4, <1>5 DEF BanInv

\* Without a cut line, an event more bans whom the events before it banned, and
\* whom it slashes.
LEMMA BannedByMore ==
    ASSUME NEW file \in Seq(Event \cup {CutLine}), NEW e \in Event,
           \A i \in DOMAIN file : file[i] # CutLine
    PROVE  /\ \A i \in DOMAIN Append(file, e) : Append(file, e)[i] # CutLine
           /\ BannedBy(file) \subseteq BannedBy(Append(file, e))
           /\ e.severity = "critical" => e.who \in BannedBy(Append(file, e))
<1> DEFINE more == Append(file, e)
           n == Len(file) + 1
<1>1. /\ DOMAIN file = 1 .. Len(file) /\ DOMAIN more = 1 .. n /\ n \in DOMAIN more
      /\ Len(file) \in Nat /\ more[n] = e /\ \A i \in DOMAIN file : more[i] = file[i]
    OBVIOUS
<1> HIDE DEF more
<1>2. \A i \in DOMAIN more : more[i] # CutLine
  <2>1. \A i \in DOMAIN more : i = n \/ i \in DOMAIN file
      BY <1>1
  <2> QED
      BY <1>1, <2>1, SlashAssumption
<1>3. BannedBy(file) \subseteq BannedBy(more)
  <2> SUFFICES ASSUME NEW j \in DOMAIN file, file[j].severity = "critical"
               PROVE  file[j].who \in BannedBy(more)
      BY DEF BannedBy
  <2>1. j \in DOMAIN more /\ more[j] = file[j] /\ \A k \in 1 .. j : more[k] # CutLine
      BY <1>1, <1>2
  <2> QED
      BY <2>1 DEF BannedBy
<1>4. e.severity = "critical" => e.who \in BannedBy(more)
    BY <1>1, <1>2 DEF BannedBy
<1> QED
    BY <1>2, <1>3, <1>4 DEF more

\* A slash begins, in memory.
LEMMA BeginStep ==
    ASSUME BanInv, NEW t \in SlashThread, NEW e \in Event, BeginSlash(t, e)
    PROVE  BanInv'
<1> DEFINE row == [event |-> e, pc |-> IF e.severity = "critical" THEN "list" ELSE "event"]
<1>1. /\ slashing' = [slashing EXCEPT ![t] = row] /\ UNCHANGED <<events, listFile, sentenced, cuts>>
      /\ banned \subseteq banned' /\ blacklist \subseteq blacklist'
      /\ banned' \subseteq Suspect /\ blacklist' \subseteq Suspect
      /\ (e.severity = "critical" => e.who \in banned' \cap blacklist')
    BY DEF BeginSlash, BanInv, SlashShape, Event
<1>2. /\ row \in [event: Event, pc: {"list", "event"}]
      /\ row.event = e
      /\ (e.severity = "critical" => row.pc = "list")
    OBVIOUS
<1> HIDE DEF row
<1>3. /\ slashing'[t] = row /\ \A u \in SlashThread \ {t} : slashing'[u] = slashing[u]
      /\ DOMAIN slashing' = SlashThread
    BY <1>1 DEF BanInv, SlashShape
<1>4. SlashShape'
  <2>1. \A u \in SlashThread : slashing'[u] # SlashIdle =>
            slashing'[u] \in [event: Event, pc: {"list", "event"}]
      BY <1>2, <1>3 DEF BanInv, SlashShape
  <2>2. ASSUME NEW u \in SlashThread, Applies(u)'
        PROVE  slashing'[u].event.who \in banned' \cap blacklist'
    <3>1. CASE u = t
        BY <1>1, <1>2, <1>3, <2>2, <3>1 DEF Applies
    <3>2. CASE u # t
        BY <1>1, <1>3, <2>2, <3>2 DEF BanInv, SlashShape, Applies
    <3> QED
        BY <3>1, <3>2
  <2> QED
      BY <1>1, <1>3, <2>1, <2>2 DEF BanInv, SlashShape
<1>5. ListHolds => ListHolds'
  <2> SUFFICES ASSUME ListHolds PROVE ListHolds'
      OBVIOUS
  <2>1. ASSUME NEW u \in SlashThread, Applies(u)', slashing'[u].pc = "event"
        PROVE  slashing'[u].event.who \in listFile'
    <3>1. u # t
        BY <1>2, <1>3, <2>1 DEF Applies
    <3> QED
        BY <1>1, <1>3, <2>1, <3>1 DEF ListHolds, Applies
  <2> QED
      BY <1>1, <2>1 DEF ListHolds
<1>6. EventsHold => EventsHold'
    BY <1>1 DEF EventsHold, BannedBy
<1> QED
    BY <1>1, <1>4, <1>5, <1>6 DEF BanInv

LEMMA SaveStep ==
    ASSUME BanInv, NEW t \in SlashThread, SaveBlacklist(t) \/ SaveEvent(t)
    PROVE  BanInv'
<1>1. slashing[t] # SlashIdle /\ slashing[t] \in [event: Event, pc: {"list", "event"}]
    BY DEF SaveBlacklist, SaveEvent, AtStep, BanInv, SlashShape
<1>2. CASE SaveBlacklist(t)
  <2>1. /\ slashing' = [slashing EXCEPT ![t].pc = "event"] /\ listFile' = blacklist
        /\ UNCHANGED <<banned, blacklist, events, sentenced, cuts>>
      BY <1>2 DEF SaveBlacklist, NextStep
  <2>2. /\ slashing'[t] = [slashing[t] EXCEPT !.pc = "event"] /\ DOMAIN slashing' = SlashThread
        /\ \A u \in SlashThread \ {t} : slashing'[u] = slashing[u]
      BY <2>1 DEF BanInv, SlashShape
  <2>3. /\ slashing'[t].event = slashing[t].event
        /\ slashing'[t] \in [event: Event, pc: {"list", "event"}]
      BY <1>1, <2>2
  <2>4. SlashShape'
      BY <1>1, <2>1, <2>2, <2>3 DEF BanInv, SlashShape, Applies
  <2>5. ListHolds => ListHolds'
    <3>1. blacklist # Unreadable
        BY SlashAssumption DEF BanInv, SlashShape
    <3>2. \A u \in SlashThread : Applies(u)' => slashing'[u].event.who \in blacklist'
        BY <2>4 DEF SlashShape
    <3> QED
        BY <2>1, <3>1, <3>2 DEF ListHolds
  <2>6. EventsHold => EventsHold'
      BY <2>1 DEF EventsHold, BannedBy
  <2> QED
      BY <2>1, <2>4, <2>5, <2>6 DEF BanInv
<1>3. CASE SaveEvent(t)
  <2> DEFINE e == slashing[t].event
  <2>1. /\ e \in Event /\ events' = Append(events, e) /\ slashing[t].pc = "event"
        /\ sentenced' = IF e.severity = "critical" THEN sentenced \cup {e.who} ELSE sentenced
        /\ slashing' = [slashing EXCEPT ![t] = SlashIdle]
        /\ UNCHANGED <<banned, blacklist, listFile, cuts>>
      BY <1>1, <1>3 DEF SaveEvent, AtStep
  <2>2. /\ slashing'[t] = SlashIdle /\ DOMAIN slashing' = SlashThread
        /\ \A u \in SlashThread \ {t} : slashing'[u] = slashing[u]
      BY <2>1 DEF BanInv, SlashShape
  <2>3. events \in Seq(Event \cup {CutLine}) /\ events' \in Seq(Event \cup {CutLine})
      BY <2>1 DEF BanInv, SlashShape
  <2>4. e.severity = "critical" => Applies(t) /\ e.who \in banned
      BY <1>1 DEF Applies, BanInv, SlashShape
  <2>5. SlashShape'
      BY <2>1, <2>2, <2>3 DEF BanInv, SlashShape, Applies
  <2>6. ListHolds => ListHolds'
    <3>1. ListHolds => sentenced' \subseteq listFile
        BY <2>1, <2>4 DEF ListHolds
    <3> QED
        BY <2>1, <2>2, <3>1 DEF ListHolds, Applies
  <2>7. EventsHold => EventsHold'
      BY <2>1, <2>3, <2>4, BannedByMore DEF EventsHold
  <2> QED
      BY <2>1, <2>5, <2>6, <2>7 DEF BanInv
<1> QED
    BY <1>2, <1>3

\* The process starts on files of which one, by then, may be cut.
LEMMA StartStep ==
    ASSUME BanInv, NEW evs, NEW list, StartOn(evs, list), cuts' \in Nat,
           evs \in Seq(Event \cup {CutLine}), list = Unreadable \/ list \subseteq Suspect
    PROVE  /\ SlashShape'
           /\ ListHolds /\ list = listFile => ListHolds'
           /\ EventsHold /\ evs = events => EventsHold'
<1>1. /\ events' = evs /\ listFile' = list /\ banned' = BannedBy(evs) /\ sentenced' = sentenced
      /\ blacklist' = IF list = Unreadable THEN {} ELSE list
      /\ slashing' = [t \in SlashThread |-> SlashIdle]
    BY DEF StartOn
<1>2. BannedBy(evs) \subseteq Suspect
  <2> SUFFICES ASSUME NEW j \in DOMAIN evs, \A k \in 1 .. j : evs[k] # CutLine
               PROVE  evs[j].who \in Suspect
      BY DEF BannedBy
  <2>1. evs[j] # CutLine /\ evs[j] \in Event \cup {CutLine}
      OBVIOUS
  <2> QED
      BY <2>1 DEF Event
<1>3. SlashShape'
    BY <1>1, <1>2 DEF SlashShape, Applies
<1>4. ListHolds /\ list = listFile => ListHolds'
    BY <1>1 DEF ListHolds, Applies
<1>5. EventsHold /\ evs = events => EventsHold'
    BY <1>1 DEF EventsHold
<1> QED
    BY <1>3, <1>4, <1>5

\* A crash cuts a write: the other file is as it was.
LEMMA CutStep ==
    ASSUME BanInv, NEW t \in SlashThread, CutWrite(t)
    PROVE  BanInv'
<1>1. cuts \in Nat /\ cuts' = cuts + 1 /\ cuts' \in Nat
    BY DEF CutWrite, BanInv, SlashShape
<1>2. CASE StartOn(events, Unreadable)
  <2>1. events \in Seq(Event \cup {CutLine})
      BY DEF BanInv, SlashShape
  <2>2. SlashShape' /\ (EventsHold => EventsHold')
      BY <1>1, <1>2, <2>1, StartStep
  <2> QED
      BY <1>1, <2>2 DEF BanInv
<1>3. CASE StartOn(Append(events, CutLine), listFile)
  <2>1. Append(events, CutLine) \in Seq(Event \cup {CutLine})
      BY DEF BanInv, SlashShape
  <2>2. listFile = Unreadable \/ listFile \subseteq Suspect
      BY DEF BanInv, SlashShape
  <2>3. SlashShape' /\ (ListHolds => ListHolds')
      BY <1>1, <1>3, <2>1, <2>2, StartStep
  <2> QED
      BY <1>1, <2>3 DEF BanInv
<1> QED
    BY <1>2, <1>3 DEF CutWrite

LEMMA RestartStep == BanInv /\ RestartManager => BanInv'
<1> SUFFICES ASSUME BanInv, RestartManager PROVE BanInv'
    OBVIOUS
<1>1. /\ StartOn(events, listFile) /\ cuts' = cuts /\ cuts' \in Nat
      /\ events \in Seq(Event \cup {CutLine}) /\ (listFile = Unreadable \/ listFile \subseteq Suspect)
    BY DEF RestartManager, BanInv, SlashShape
<1>2. SlashShape' /\ (ListHolds => ListHolds') /\ (EventsHold => EventsHold')
    BY <1>1, StartStep
<1> QED
    BY <1>1, <1>2 DEF BanInv

\* A thread's slash, a suspension that ends, a crash: every step keeps what
\* restores the bans.
LEMMA BanStep == BanInv /\ [SlashNext]_slashVars => BanInv'
<1> SUFFICES ASSUME BanInv, [SlashNext]_slashVars PROVE BanInv'
    OBVIOUS
<1>1. ASSUME NEW t \in SlashThread, NEW e \in Event, BeginSlash(t, e) PROVE BanInv'
    BY <1>1, BeginStep
<1>2. ASSUME NEW t \in SlashThread, SaveBlacklist(t) \/ SaveEvent(t) PROVE BanInv'
    BY <1>2, SaveStep
<1>3. ASSUME NEW t \in SlashThread, CutWrite(t) PROVE BanInv'
    BY <1>3, CutStep
<1>4. CASE UNCHANGED <<banned, blacklist, events, listFile, slashing, sentenced, cuts>>
    BY <1>4 DEF BanInv, SlashShape, ListHolds, EventsHold, Applies, BannedBy
<1>5. CASE \E a \in Suspect : SuspensionEnds(a)
    BY <1>4, <1>5 DEF SuspensionEnds
<1> QED
    BY <1>1, <1>2, <1>3, <1>4, <1>5, RestartStep DEF SlashNext, slashVars

\* The inductive invariant: a ban is in memory, and in both files until a crash
\* cuts one of them, and in the other one then.
THEOREM BansRestored == SlashSpec => []BanInv
    BY BanStart, BanStep, PTL DEF SlashSpec

\* An address whose critical slash has returned is refused from then on,
\* through restarts and a write that a crash cut (slash, _load_blacklist and
\* _load_events).
THEOREM BanStays == SlashSpec => []BanKept
<1>1. BanInv => BanKept
  <2> SUFFICES ASSUME BanInv, cuts <= 1, NEW a \in sentenced PROVE ~Allowed(a)
      BY DEF BanKept
  <2>1. ListHolds \/ EventsHold
      BY DEF BanInv, SlashShape
  <2>2. a \in blacklist \/ a \in banned
      BY <2>1 DEF ListHolds, EventsHold
  <2> QED
      BY <2>2 DEF Allowed
<1> QED
    BY <1>1, BansRestored, PTL

\* Whom a slash concerns is an address, and writes are cut within their bound.
SlashBounded ==
    suspended \subseteq Suspect /\ sentenced \subseteq Suspect /\ cuts \in 0 .. MaxCuts

\* The lists, the events and their files keep their types (SlashingManager).
THEOREM SlashesTyped == SlashSpec => []SlashTypeOK
<1>1. SlashInit => SlashBounded
    BY SlashAssumption DEF SlashInit, SlashBounded
<1>2. BanInv /\ SlashBounded /\ [SlashNext]_slashVars => SlashBounded'
  <2> SUFFICES ASSUME BanInv, SlashBounded, [SlashNext]_slashVars PROVE SlashBounded'
      OBVIOUS
  <2>1. ASSUME NEW t \in SlashThread, NEW e \in Event, BeginSlash(t, e) PROVE SlashBounded'
      BY <2>1 DEF BeginSlash, SlashBounded, Event
  <2>2. ASSUME NEW t \in SlashThread, SaveEvent(t) PROVE SlashBounded'
    <3>1. slashing[t].event.who \in Suspect
        BY <2>2 DEF SaveEvent, AtStep, BanInv, SlashShape, Event
    <3> QED
        BY <2>2, <3>1 DEF SaveEvent, SlashBounded
  <2>3. ASSUME NEW t \in SlashThread, CutWrite(t) PROVE SlashBounded'
      BY <2>3, SlashAssumption DEF CutWrite, StartOn, SlashBounded
  <2>4. CASE UNCHANGED <<suspended, sentenced, cuts>>
      BY <2>4 DEF SlashBounded
  <2>5. CASE RestartManager \/ \E a \in Suspect : SuspensionEnds(a)
      BY <2>5 DEF RestartManager, StartOn, SuspensionEnds, SlashBounded
  <2> QED
      BY <2>1, <2>2, <2>3, <2>4, <2>5 DEF SlashNext, slashVars, SaveBlacklist
<1>3. BanInv /\ SlashBounded => SlashTypeOK
    BY DEF BanInv, SlashShape, SlashBounded, SlashTypeOK
<1> QED
    BY <1>1, <1>2, <1>3, BansRestored, PTL DEF SlashSpec
=============================================================================
