-------------------------- MODULE ControlTransfers --------------------------
(***************************************************************************)
(* The authority over one organisation or group and the transfers of its   *)
(* control (GovernanceStore in src/artcb/authz/governance.py, served by    *)
(* the transfer routes of api/authz_routes.py).                            *)
(*                                                                         *)
(* Authorities are one file, emptied and rewritten whole; transfers are    *)
(* another, appended to.  Neither is locked, an empty file is read as no   *)
(* authority at all, and a call that writes the authority of another       *)
(* subject writes this one back as it read it.  A transfer's state is its  *)
(* last line.                                                              *)
(*                                                                         *)
(* A file is either empty or whole: what a reader makes of half a line is  *)
(* an exception that changes nothing.  The revocation of grants, the block *)
(* that records a transfer and the sessions of callers are left out.       *)
(***************************************************************************)
EXTENDS Naturals, FiniteSets, SequencesExt

CONSTANTS
    Person,          \* wallet addresses
    FounderPerson,   \* the one of the subject's domain manifest
    NoAuthority,     \* the file holds no authority for the subject
    NoLine,          \* a call that records no transfer
    ControlThread,   \* threads serving requests about the subject
    OtherThread,     \* threads serving requests about other subjects
    ControlIdle,     \* a thread that serves none
    MaxTransfers,    \* bound on the transfers proposed
    MaxLines         \* bound on the lines of transfers.jsonl

Authority == [controller: Person, owner: Person, pending: 0 .. MaxTransfers]
Transfer  == [id: 1 .. MaxTransfers, old: Person, new: Person, sale: BOOLEAN,
              status: {"proposed", "cancelled", "declined", "finalized"}]

ASSUME ControlAssumption ==
    /\ FounderPerson \in Person /\ NoAuthority \notin Authority
    /\ MaxTransfers \in Nat /\ MaxLines \in Nat

VARIABLES
    authority,   \* the subject's row of governance.json
    transfers,   \* transfers.jsonl
    named,       \* how many transfer identifiers were drawn
    accepted,    \* who accepted which transfer (history)
    busy         \* busy[t]: the call of thread t

controlVars == <<authority, transfers, named, accepted, busy>>

ControlInit ==
    /\ authority = NoAuthority /\ transfers = << >> /\ named = 0 /\ accepted = {}
    /\ busy = [t \in ControlThread \cup OtherThread |-> ControlIdle]

Turns(t, c)  == busy' = [busy EXCEPT ![t] = c]
Still(t)    == busy[t] = ControlIdle
Stage(t, s) == ~Still(t) /\ busy[t].pc = s

\* get_transfer: the last line of an identifier says where its transfer is.
ProposedAt(i) ==
    /\ transfers[i].status = "proposed"
    /\ \A j \in DOMAIN transfers : transfers[j].id = transfers[i].id => j <= i

Proposed(id) == \E i \in DOMAIN transfers : transfers[i].id = id /\ ProposedAt(i)

\* What a call has left to do: empty the file, write "row" to it, append "line".
Saving(row, line) == [pc |-> "empty", row |-> row, line |-> line]

FounderRow == [controller |-> FounderPerson, owner |-> FounderPerson, pending |-> 0]

-----------------------------------------------------------------------------
\* initialize, when a domain is created or its bundle imported.
InitializeAuthority(t) ==
    /\ Still(t) /\ authority = NoAuthority
    /\ Turns(t, Saving(FounderRow, NoLine))
    /\ UNCHANGED <<authority, transfers, named, accepted>>

\* _upsert for another subject: this subject's row is read, and written back.
SaveOther(t) ==
    /\ Still(t)
    /\ Turns(t, Saving(authority, NoLine))
    /\ UNCHANGED <<authority, transfers, named, accepted>>

\* propose_transfer reads the authority, for its controller, ...
ProposeTransfer(t, p, new, sale) ==
    /\ Still(t) /\ new # p
    /\ authority # NoAuthority /\ authority.controller = p
    /\ Turns(t, [pc |-> "propose", row |-> authority, new |-> new, sale |-> sale])
    /\ UNCHANGED <<authority, transfers, named, accepted>>

\* ... then the transfer it is waiting for, if any.
CheckPending(t) ==
    /\ Stage(t, "propose") /\ named < MaxTransfers
    /\ ~Proposed(busy[t].row.pending)
    /\ named' = named + 1
    /\ LET row == busy[t].row IN
           Turns(t, Saving([row EXCEPT !.pending = named + 1],
                          [id |-> named + 1, old |-> row.controller, new |-> busy[t].new,
                           sale |-> busy[t].sale, status |-> "proposed"]))
    /\ UNCHANGED <<authority, transfers, accepted>>

\* cancel, decline and accept_transfer read the transfer, ...
OpenTransfer(t, i, p) ==
    /\ Still(t) /\ ProposedAt(i)
    /\ \/ Turns(t, [pc |-> "cancel", transfer |-> transfers[i]])
       \/ /\ p = transfers[i].new
          /\ \E verb \in {"decline", "accept"} :
                Turns(t, [pc |-> verb, by |-> p, transfer |-> transfers[i]])
    /\ UNCHANGED <<authority, transfers, named, accepted>>

\* ... then the authority; whoever controls the subject now may cancel.
Decided(t, status) == [busy[t].transfer EXCEPT !.status = status]

CancelTransfer(t) ==
    /\ Stage(t, "cancel") /\ authority # NoAuthority
    /\ Turns(t, Saving([authority EXCEPT !.pending = 0], Decided(t, "cancelled")))
    /\ UNCHANGED <<authority, transfers, named, accepted>>

DeclineTransfer(t) ==
    /\ Stage(t, "decline")
    /\ LET line == Decided(t, "declined") IN
           Turns(t, IF authority = NoAuthority THEN [pc |-> "append", line |-> line]
                   ELSE Saving([authority EXCEPT !.pending = 0], line))
    /\ UNCHANGED <<authority, transfers, named, accepted>>

\* Seeded fault: controller_changed_since_propose is not looked for.
AcceptChanged(t) ==
    /\ Stage(t, "accept") /\ authority # NoAuthority
    /\ LET x == busy[t].transfer IN
           Turns(t, Saving([controller |-> x.new, owner |-> IF x.sale THEN x.new ELSE authority.owner,
                           pending |-> 0], Decided(t, "finalized")))
    /\ accepted' = accepted \cup {[id |-> busy[t].transfer.id, by |-> busy[t].by]}
    /\ UNCHANGED <<authority, transfers, named>>

AcceptTransfer(t) ==
    /\ Stage(t, "accept") /\ authority # NoAuthority
    /\ authority.controller = busy[t].transfer.old
    /\ LET x == busy[t].transfer IN
           Turns(t, Saving([controller |-> x.new, owner |-> IF x.sale THEN x.new ELSE authority.owner,
                           pending |-> 0], Decided(t, "finalized")))
    /\ accepted' = accepted \cup {[id |-> busy[t].transfer.id, by |-> busy[t].by]}
    /\ UNCHANGED <<authority, transfers, named>>

-----------------------------------------------------------------------------
\* _write_all: write_text empties the file, then fills it.
EmptyFile(t) ==
    /\ Stage(t, "empty")
    /\ authority' = NoAuthority
    /\ Turns(t, [pc |-> "fill", row |-> busy[t].row, line |-> busy[t].line])
    /\ UNCHANGED <<transfers, named, accepted>>

FillFile(t) ==
    /\ Stage(t, "fill")
    /\ authority' = busy[t].row
    /\ Turns(t, IF busy[t].line = NoLine THEN ControlIdle
               ELSE [pc |-> "append", line |-> busy[t].line])
    /\ UNCHANGED <<transfers, named, accepted>>

\* _append_transfer.
AppendTransfer(t) ==
    /\ Stage(t, "append") /\ Len(transfers) < MaxLines
    /\ transfers' = Append(transfers, busy[t].line)
    /\ Turns(t, ControlIdle)
    /\ UNCHANGED <<authority, named, accepted>>

\* A call is refused at one of its reads.
RefuseCall(t) ==
    /\ ~Still(t) /\ busy[t].pc \in {"propose", "cancel", "decline", "accept"}
    /\ Turns(t, ControlIdle)
    /\ UNCHANGED <<authority, transfers, named, accepted>>

\* The process dies, in the middle of any of its calls.
KillNode ==
    /\ busy' = [t \in ControlThread \cup OtherThread |-> ControlIdle]
    /\ UNCHANGED <<authority, transfers, named, accepted>>

ControlNext ==
    \/ \E t \in ControlThread :
          \/ InitializeAuthority(t)
          \/ \E p, new \in Person, sale \in BOOLEAN : ProposeTransfer(t, p, new, sale)
          \/ CheckPending(t)
          \/ \E i \in DOMAIN transfers, p \in Person : OpenTransfer(t, i, p)
          \/ CancelTransfer(t) \/ DeclineTransfer(t) \/ AcceptTransfer(t)
          \/ AppendTransfer(t) \/ RefuseCall(t)
    \/ \E t \in OtherThread : SaveOther(t)
    \/ \E t \in ControlThread \cup OtherThread : EmptyFile(t) \/ FillFile(t)
    \/ KillNode

ControlSpec == ControlInit /\ [][ControlNext]_controlVars

-----------------------------------------------------------------------------
ControlTypeOK ==
    /\ authority \in Authority \cup {NoAuthority}
    /\ transfers \in Seq(Transfer) /\ Len(transfers) <= MaxLines
    /\ named \in 0 .. MaxTransfers
    /\ accepted \subseteq [id: 1 .. MaxTransfers, by: Person]
    /\ DOMAIN busy = ControlThread \cup OtherThread

Consented(x) == [id |-> x.id, by |-> x.new] \in accepted

\* A set of pairs of controller and legal owner that holds the founder's and,
\* with a pair, the one a transfer proposed by its controller and accepted by
\* the person it names leads to.
ClosedUnderTransfers(S) ==
    /\ <<FounderPerson, FounderPerson>> \in S
    /\ \A i \in DOMAIN transfers, owner \in Person :
          LET x == transfers[i] IN
              Consented(x) /\ <<x.old, owner>> \in S
                  => <<x.new, IF x.sale THEN x.new ELSE owner>> \in S

\* Whoever controls and owns a subject is a pair that was agreed on, transfer
\* by transfer, since its founder: rival proposals, calls that overlap, stale
\* copies written back, an emptied file and repeated acceptances may bring an
\* earlier pair back, but never mix two transfers into a pair nobody agreed on
\* (accept_transfer: "controller_changed_since_propose").
Agreed(row) ==
    row # NoAuthority =>
        \A S \in SUBSET ((Person \X Person) \ {<<row.controller, row.owner>>}) :
            ~ClosedUnderTransfers(S)

AuthorityAgreed == Agreed(authority)
=============================================================================
