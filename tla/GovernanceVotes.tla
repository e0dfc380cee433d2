--------------------------- MODULE GovernanceVotes --------------------------
(***************************************************************************)
(* One proposal and its vote (GovernanceManager in src/artcb/governance/   *)
(* manager.py, served by api/governance_routes.py).                        *)
(*                                                                         *)
(* Proposals are one file, read and rewritten whole, votes another, only   *)
(* appended to; neither is locked.  A call that finds the vote closed      *)
(* tallies it and writes the outcome; a call that decides another proposal *)
(* writes this one back as it had read it.                                 *)
(*                                                                         *)
(* The creator is a module variable that a key rotation changes.  Texts,   *)
(* signatures and the rotation's own block are left out, and so is         *)
(* creator_veto_override, which nothing calls.                             *)
(***************************************************************************)
EXTENDS Naturals, FiniteSets, SequencesExt

CONSTANTS
    Voter,           \* wallet addresses
    Creator,         \* the creator's at the genesis
    NoCreator,       \* no creator_rights.json
    VoteThread,      \* threads serving requests
    VoteIdle,        \* a thread that serves none
    MaxVotes         \* bound on the votes recorded

ASSUME VoteAssumption == Creator \in Voter /\ NoCreator \notin Voter /\ MaxVotes \in Nat

Choice   == {"yes", "no"}
Outcome  == {"accepted", "rejected", "expired"}
VoteCast == [by: Voter, choice: Choice]
VoteCall == [pc: {"check", "append"}, vote: VoteCast]
                \cup [pc: {"write"}, outcome: Outcome \cup {"open"}]

VARIABLES
    outcome,     \* the proposal's status in the file
    votes,       \* votes.jsonl
    creator,     \* CREATOR_WALLET_ADDRESS
    early,       \* how many votes were recorded when the vote closed, or all
    closed,      \* the closing time has passed
    rotated,     \* a creator's key was rotated (history)
    serving      \* serving[t]: the call of thread t

voteVars == <<outcome, votes, creator, early, closed, rotated, serving>>

VoteInit ==
    /\ outcome = "open" /\ votes = << >> /\ creator \in {Creator, NoCreator}
    /\ early = 0 /\ closed = FALSE /\ rotated = FALSE
    /\ serving = [t \in VoteThread |-> VoteIdle]

Does(t, c)    == serving' = [serving EXCEPT ![t] = c]
Free(t)       == serving[t] = VoteIdle
In(t, pc)     == ~Free(t) /\ serving[t].pc = pc

By(vs, w)     == {i \in DOMAIN vs : vs[i].by = w}
For(vs, c)    == Cardinality({i \in DOMAIN vs : vs[i].choice = c})

\* Seeded fault: the creator's vote is counted like any other.
TallyAlike(vs, cr) ==
    CASE For(vs, "yes") > For(vs, "no") -> "accepted"
      [] For(vs, "yes") < For(vs, "no") -> "rejected"
      [] OTHER                          -> "expired"

\* Seeded fault: the outcome is written by whoever reads the proposal, closed
\* or not.
DecideEarly(t) ==
    /\ Free(t) /\ outcome = "open"
    /\ serving' = [serving EXCEPT ![t] =
           [pc |-> "write", outcome |-> IF For(votes, "yes") > 0 THEN "accepted" ELSE "expired"]]
    /\ UNCHANGED <<outcome, votes, creator, early, closed, rotated>>

\* tally, and what _refresh_statuses makes of it: the creator's last vote
\* decides, else the majority of the others.
Tally(vs, cr) ==
    IF By(vs, cr) # {}
    THEN IF \E i \in By(vs, cr) : vs[i].choice = "yes" /\ \A j \in By(vs, cr) : j <= i
         THEN "accepted" ELSE "rejected"
    ELSE CASE For(vs, "yes") > For(vs, "no") -> "accepted"
           [] For(vs, "yes") < For(vs, "no") -> "rejected"
           [] OTHER                          -> "expired"

-----------------------------------------------------------------------------
\* cast_vote in three steps: the status is read (and refreshed, so it is not
\* open once the vote is closed), the time and the votes are looked at, the
\* vote is appended.
CastVote(t, w, c) ==
    /\ Free(t) /\ outcome = "open" /\ ~closed
    /\ Does(t, [pc |-> "check", vote |-> [by |-> w, choice |-> c]])
    /\ UNCHANGED <<outcome, votes, creator, early, closed, rotated>>

CheckVote(t) ==
    /\ In(t, "check")
    /\ closed => serving[t].vote.by = creator
    /\ By(votes, serving[t].vote.by) = {}
    /\ Does(t, [serving[t] EXCEPT !.pc = "append"])
    /\ UNCHANGED <<outcome, votes, creator, early, closed, rotated>>

RecordVote(t) ==
    /\ In(t, "append") /\ Len(votes) < MaxVotes
    /\ votes' = Append(votes, serving[t].vote)
    /\ early' = IF closed THEN early ELSE early + 1
    /\ Does(t, VoteIdle)
    /\ UNCHANGED <<outcome, creator, closed, rotated>>

\* The call is refused, or its process dies.
DropCall(t) ==
    /\ ~Free(t)
    /\ Does(t, VoteIdle)
    /\ UNCHANGED <<outcome, votes, creator, early, closed, rotated>>

-----------------------------------------------------------------------------
CloseVote ==
    /\ ~closed
    /\ closed' = TRUE
    /\ UNCHANGED <<outcome, votes, creator, early, rotated, serving>>

\* _refresh_statuses: what is written was tallied before.
DecideVote(t) ==
    /\ Free(t) /\ closed /\ outcome = "open"
    /\ Does(t, [pc |-> "write", outcome |-> Tally(votes, creator)])
    /\ UNCHANGED <<outcome, votes, creator, early, closed, rotated>>

\* The same, for the sake of another proposal.
DecideOther(t) ==
    /\ Free(t)
    /\ closed => outcome # "open"
    /\ Does(t, [pc |-> "write", outcome |-> outcome])
    /\ UNCHANGED <<outcome, votes, creator, early, closed, rotated>>

WriteProposals(t) ==
    /\ In(t, "write")
    /\ outcome' = serving[t].outcome
    /\ Does(t, VoteIdle)
    /\ UNCHANGED <<votes, creator, early, closed, rotated>>

\* creator_key_rotation, signed by the key in office.
RotateCreator(w) ==
    /\ creator # NoCreator /\ w # creator
    /\ creator' = w
    /\ rotated' = TRUE
    /\ UNCHANGED <<outcome, votes, early, closed, serving>>

VoteNext ==
    \/ \E t \in VoteThread :
          \/ \E w \in Voter, c \in Choice : CastVote(t, w, c)
          \/ CheckVote(t) \/ RecordVote(t) \/ DropCall(t)
          \/ DecideVote(t) \/ DecideOther(t) \/ WriteProposals(t)
    \/ CloseVote
    \/ \E w \in Voter : RotateCreator(w)

VoteSpec == VoteInit /\ [][VoteNext]_voteVars

-----------------------------------------------------------------------------
VoteTypeOK ==
    /\ outcome \in Outcome \cup {"open"}
    /\ votes \in Seq(VoteCast) /\ Len(votes) <= MaxVotes
    /\ creator \in Voter \cup {NoCreator}
    /\ early \in 0 .. Len(votes) /\ closed \in BOOLEAN /\ rotated \in BOOLEAN
    /\ serving \in [VoteThread -> VoteCall \cup {VoteIdle}]

\* A "no" of the creator that is recorded before the closing, and that no
\* "yes" of the creator's contradicts, keeps the proposal from being accepted,
\* however the calls that tally it and write it overlap and whatever stale
\* copies they write back, as long as the creator's key is not rotated (tally:
\* "Vote NON createur -> veto absolu").
VetoHolds ==
    (/\ ~rotated /\ creator # NoCreator
     /\ [by |-> creator, choice |-> "no"] \in Range(SubSeq(votes, 1, early))
     /\ [by |-> creator, choice |-> "yes"] \notin Range(votes))
        => outcome # "accepted"

\* What is written as the outcome is what the rules make of the votes up to
\* some moment at or after the closing, under the creator of that moment: no
\* overlap of calls, late vote or stale copy gives an outcome the votes never
\* had (_refresh_statuses).
OutcomeOfTheVotes ==
    outcome # "open" =>
        closed /\ \E n \in early .. Len(votes), cr \in IF rotated THEN Voter ELSE {creator} :
            outcome = Tally(SubSeq(votes, 1, n), cr)
=============================================================================
