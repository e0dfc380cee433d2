---------------------------- MODULE MachineEpochs ----------------------------
(***************************************************************************)
(* Machines, their owners and the humans bound to them (MachineRegistry in *)
(* src/artcb/economics/human_binding.py), and the transfers, retirements   *)
(* and reconnections that wait for the next epoch (EpochCoordinator in     *)
(* economic_snapshot.py, ProtocolEngine.heartbeat in mining/protocol.py).  *)
(*                                                                         *)
(* The registry is a file, the operations waiting are in memory.  begin_   *)
(* epoch applies them one by one, and an operation that raises ends it,    *)
(* with those before it applied and all of them still waiting.  A transfer *)
(* writes the file twice.  Two calls are not overlapped; the process may   *)
(* die between any two writes.                                             *)
(*                                                                         *)
(* Callers' identifiers are numbers, taken in order.                       *)
(* A machine transferred to p is registered again, as "machine:to:p": an   *)
(* identifier is the sequence of the machine and those it went to.  ACTIVE,*)
(* GRACE, OFFLINE and the other economic states are one, "live".  Every    *)
(* operation waiting is due at the next epoch, so epochs are not numbered. *)
(***************************************************************************)
EXTENDS Naturals, SequencesExt

CONSTANTS
    FleetOwner,      \* addresses that own machines
    Human,           \* the addresses that may be bound
    Alone,           \* no bound human: the first machine of its owner
    MaxRows,         \* bound on the machines registered
    MaxMoves,        \* bound on the transfers of one machine
    MaxWaiting       \* bound on the operations waiting

ASSUME MachineAssumption ==
    /\ Alone \notin Human
    /\ MaxRows \in Nat /\ MaxMoves \in Nat /\ MaxWaiting \in Nat

Machine   == 1 .. MaxRows
MachineId == {<<x[1]>> \o x[2] : x \in Machine \X BoundedSeq(FleetOwner, MaxMoves)}
Row == [owner: FleetOwner, bound: Human \cup {Alone},
        status: {"live", "transferred", "retired"}]
Op == [kind: {"retire", "reconnect"}, id: MachineId]
          \cup [kind: {"transfer"}, id: MachineId, to: FleetOwner, bound: Human \cup {Alone}]

VARIABLES
    machines,    \* the registry's rows, by identifier
    waiting,     \* pending
    applying,    \* begin_epoch: the place in "waiting" it is at, or 0, the
                 \* operations it leaves, whether a transfer is half done
    revived,     \* a missed heartbeat has brought back a machine (history)
    restarted    \* the process has died (history)

machineVars == <<machines, waiting, applying, revived, restarted>>

NotApplying == [at |-> 0, left |-> << >>, half |-> FALSE]

MachineInit ==
    /\ machines = << >> /\ waiting = << >> /\ applying = NotApplying
    /\ revived = FALSE /\ restarted = FALSE

Registered == DOMAIN machines
Live       == {id \in Registered : machines[id].status = "live"}
Fleet(p)   == {id \in Live : machines[id].owner = p}

WithRow(id, row) ==
    [x \in Registered \cup {id} |-> IF x = id THEN row ELSE machines[x]]
WithStatus(id, s) == [machines EXCEPT ![id].status = s]

-----------------------------------------------------------------------------
\* Seeded fault: the human's other machines are not looked for.
MayRegisterAgain(id, p, h) ==
    /\ id \notin Registered
    /\ IF Fleet(p) = {} THEN h \in {Alone, p} ELSE h \notin {Alone, p}

\* register: the first machine of an owner binds nobody else, any other one
\* a human that no live machine of any owner is bound to.
MayRegister(id, p, h) ==
    /\ id \notin Registered
    /\ IF Fleet(p) = {} THEN h \in {Alone, p}
       ELSE h \notin {Alone, p} /\ \A x \in Live : machines[x].bound # h

NewRow(p, h) ==
    [owner |-> p, bound |-> IF Fleet(p) = {} THEN Alone ELSE h, status |-> "live"]

\* Room for a machine, counting those that are to be transferred.
Room == Cardinality(Registered) + Cardinality({i \in DOMAIN waiting :
            waiting[i].kind = "transfer"}) < MaxRows

Register(m, p, h) ==
    /\ Room /\ \A k \in 1 .. m - 1 : <<k>> \in Registered
    /\ MayRegister(<<m>>, p, h)
    /\ machines' = WithRow(<<m>>, NewRow(p, h))
    /\ UNCHANGED <<waiting, applying, revived, restarted>>

\* heartbeat with one missed beat: mark_grace does not ask whether the machine
\* has left.  (Of a live machine, mark_active and mark_offline change nothing
\* that is kept here; of one that has left, they raise.  request_deactivation,
\* which nothing calls, would do what mark_grace does.)
MissBeat(id) ==
    /\ id \notin Live /\ ~revived   \* once is enough
    /\ machines' = WithStatus(id, "live")
    /\ revived' = TRUE
    /\ UNCHANGED <<waiting, applying, restarted>>

\* queue_transfer, queue_retire, queue_reconnect: nothing is verified.
Queue(op) ==
    /\ applying = NotApplying /\ Len(waiting) < MaxWaiting
    /\ waiting' = Append(waiting, op)
    /\ UNCHANGED <<machines, applying, revived, restarted>>

-----------------------------------------------------------------------------
\* begin_epoch, apply_due_ops.
BeginEpoch ==
    /\ applying = NotApplying /\ waiting # << >>
    /\ applying' = [NotApplying EXCEPT !.at = 1]
    /\ UNCHANGED <<machines, waiting, revived, restarted>>

Applying(kind) ==
    applying.at \in DOMAIN waiting /\ waiting[applying.at].kind = kind
Current  == waiting[applying.at]
NextOp   == applying' = [applying EXCEPT !.at = @ + 1, !.half = FALSE]

ApplyRetire ==
    /\ Applying("retire") /\ Current.id \in Registered
    /\ machines' = WithStatus(Current.id, "retired")
    /\ NextOp
    /\ UNCHANGED <<waiting, revived, restarted>>

\* Its delay has not passed, or it has and the machine is live.
ApplyReconnect ==
    /\ Applying("reconnect")
    /\ \/ applying' = [applying EXCEPT !.at = @ + 1, !.left = Append(@, Current)]
       \/ Current.id \in Live /\ NextOp
    /\ UNCHANGED <<machines, waiting, revived, restarted>>

\* transfer: the machine leaves its owner ...
TransferOut ==
    /\ Applying("transfer") /\ ~applying.half /\ Current.id \in Registered
    /\ machines' = WithStatus(Current.id, "transferred")
    /\ applying' = [applying EXCEPT !.half = TRUE]
    /\ UNCHANGED <<waiting, revived, restarted>>

\* ... and is registered for the new one.
TransferIn ==
    /\ Applying("transfer") /\ applying.half
    /\ LET id == Append(Current.id, Current.to) IN
           /\ MayRegister(id, Current.to, Current.bound)
           /\ machines' = WithRow(id, NewRow(Current.to, Current.bound))
    /\ NextOp
    /\ UNCHANGED <<waiting, revived, restarted>>

Raises ==
    LET op == Current IN
        CASE op.kind = "retire"    -> op.id \notin Registered
          [] op.kind = "reconnect" -> op.id \notin Live
          [] op.kind = "transfer"  ->
                 IF applying.half
                 THEN ~MayRegister(Append(op.id, op.to), op.to, op.bound)
                 ELSE op.id \notin Registered

\* Seeded fault: the operation that raised is given up.
OpFailsAndGoes ==
    /\ applying.at \in DOMAIN waiting /\ Raises
    /\ waiting' = SubSeq(waiting, applying.at + 1, Len(waiting))
    /\ applying' = NotApplying
    /\ UNCHANGED <<machines, revived, restarted>>

\* The exception leaves begin_epoch, and what was waiting waits again.
OpFails ==
    /\ applying.at \in DOMAIN waiting /\ Raises
    /\ applying' = NotApplying
    /\ UNCHANGED <<machines, waiting, revived, restarted>>

EpochBegun ==
    /\ applying.at > Len(waiting)
    /\ waiting' = applying.left
    /\ applying' = NotApplying
    /\ UNCHANGED <<machines, revived, restarted>>

\* The process dies: what was waiting is forgotten.
Forget ==
    /\ waiting # << >> /\ ~restarted   \* once is enough
    /\ waiting' = << >> /\ applying' = NotApplying /\ restarted' = TRUE
    /\ UNCHANGED <<machines, revived>>

MachineNext ==
    \/ \E m \in Machine, p \in FleetOwner, h \in Human \cup {Alone} : Register(m, p, h)
    \/ \E id \in Registered : MissBeat(id)
    \/ \E id \in Registered :
          \/ \E k \in {"retire", "reconnect"} : Queue([kind |-> k, id |-> id])
          \/ /\ Room /\ Len(id) <= MaxMoves
             /\ \E p \in FleetOwner, h \in Human \cup {Alone} :
                   Queue([kind |-> "transfer", id |-> id, to |-> p, bound |-> h])
    \/ BeginEpoch \/ ApplyRetire \/ ApplyReconnect \/ TransferOut \/ TransferIn
    \/ OpFails \/ EpochBegun \/ Forget

MachineSpec == MachineInit /\ [][MachineNext]_machineVars

-----------------------------------------------------------------------------
MachineTypeOK ==
    /\ Registered \subseteq MachineId
    /\ \A id \in Registered : machines[id] \in Row
    /\ \A i \in DOMAIN waiting : waiting[i] \in Op
    /\ applying.at \in 0 .. Len(waiting) + 1 /\ applying.half \in BOOLEAN
    /\ revived \in BOOLEAN /\ restarted \in BOOLEAN

\* A human is bound to one machine of the network at a time, and an owner has
\* one machine without a human, through transfers, retirements, failures of
\* either and crashes, as long as no missed heartbeat has brought back a
\* machine that had left ("at most one external binding per human network-
\* wide", "M1 of owner A: 100% owner").
BoundOnce ==
    ~revived => \A x, y \in Live :
        /\ machines[x].bound = machines[y].bound
        /\ machines[x].bound = Alone => machines[x].owner = machines[y].owner
        => x = y

\* A machine that was transferred away is registered for another owner, or
\* its transfer is still to be tried: one operation that raises loses neither
\* its own machine nor those of the operations behind it, until the process
\* dies (apply_due_ops, transfer).
NoMachineLost ==
    \A id \in Registered :
        machines[id].status = "transferred" =>
            \/ \E p \in FleetOwner : Append(id, p) \in Registered
            \/ \E i \in DOMAIN waiting : waiting[i].kind = "transfer" /\ waiting[i].id = id
            \/ restarted
=============================================================================
