---------------------------- MODULE GroupMembers ----------------------------
(***************************************************************************)
(* One group of wallets and the requests to join it (GroupManager in       *)
(* src/artcb/groups/manager.py, JoinRequestManager in join_requests.py,    *)
(* served by api/groups_routes.py).                                        *)
(*                                                                         *)
(* The group and its requests are two files without a lock, each read and  *)
(* rewritten whole.  The files a call reads before its first write are     *)
(* read in one step; every write is a step of its own, and a crash may     *)
(* come between them.  Direct invitations are off, the default of          *)
(* direct_member_invite_allowed.  A viewer has a contributor's rights here *)
(* and is left out; join codes and signatures are checked by the caller.   *)
(***************************************************************************)
EXTENDS Naturals, Sequences

CONSTANTS
    Founder,         \* the address that created the group
    Applicant,       \* the other addresses
    GroupThread,     \* threads serving requests
    GroupIdle,       \* a thread that serves none
    MaxRequests      \* bound on the join requests

ASSUME GroupAssumption == Founder \notin Applicant /\ MaxRequests \in Nat

Address == Applicant \cup {Founder}
Role    == {"founder", "admin", "contributor"}
Group   == [dissolved: BOOLEAN, role: [Address -> Role \cup {"none"}]]
JoinRequest == [address: Applicant, status: {"pending", "approved", "rejected"}]

VARIABLES
    group,      \* the group's file
    joins,      \* its join-request file, in the order of submission
    admitted,   \* addresses once written as members (history)
    visit       \* visit[t]: the call thread t is serving, with what it read

groupVars == <<group, joins, admitted, visit>>

GroupInit ==
    /\ group = [dissolved |-> FALSE,
                role |-> [a \in Address |-> IF a = Founder THEN "founder" ELSE "none"]]
    /\ joins = << >>
    /\ admitted = {}
    /\ visit = [t \in GroupThread |-> GroupIdle]

Member(g, a)  == g.role[a] # "none"
Manages(a)    == ~group.dissolved /\ group.role[a] \in {"founder", "admin"}
WithRole(a, r) == [group EXCEPT !.role[a] = r]

Visit(t, v) == visit[t] = GroupIdle /\ visit' = [visit EXCEPT ![t] = v]
Goes(t, v)  == visit' = [visit EXCEPT ![t] = v]
InCall(t, pc) == visit[t] # GroupIdle /\ visit[t].pc = pc

-----------------------------------------------------------------------------
\* submit_request: refused to members and while a request is pending; the
\* request is appended in a second step.
SubmitRequest(t, a) ==
    /\ ~group.dissolved /\ ~Member(group, a)
    /\ \A i \in DOMAIN joins : joins[i].address = a => joins[i].status # "pending"
    /\ Visit(t, [pc |-> "append", address |-> a])
    /\ UNCHANGED <<group, joins, admitted>>

AppendRequest(t) ==
    /\ InCall(t, "append") /\ Len(joins) < MaxRequests
    /\ joins' = Append(joins, [address |-> visit[t].address, status |-> "pending"])
    /\ Goes(t, GroupIdle)
    /\ UNCHANGED <<group, admitted>>

\* approve_request, up to its call of add_member_approved.
ApproveRequest(t, actor, i) ==
    /\ Manages(actor) /\ joins[i].status = "pending"
    /\ Visit(t, [pc |-> "add", actor |-> actor, index |-> i, joins |-> joins])
    /\ UNCHANGED <<group, joins, admitted>>

\* Seeded fault: the request is marked before the member is added.
AddMemberLast(t) ==
    /\ InCall(t, "add")
    /\ joins' = [visit[t].joins EXCEPT ![visit[t].index].status = "approved"]
    /\ Goes(t, [pc |-> "save",
                group |-> WithRole(visit[t].joins[visit[t].index].address, "contributor")])
    /\ UNCHANGED <<group, admitted>>

\* add_member_approved reads the group again and checks the actor again; a
\* member that exists already is refused, and so is the approval.
AddMember(t) ==
    /\ InCall(t, "add")
    /\ LET v == visit[t]  a == v.joins[v.index].address IN
           IF Manages(v.actor) /\ ~Member(group, a)
           THEN Goes(t, [pc |-> "admit", group |-> WithRole(a, "contributor"),
                         index |-> v.index, joins |-> v.joins])
           ELSE Goes(t, GroupIdle)
    /\ UNCHANGED <<group, joins, admitted>>

\* Its _save, after which approve_request marks the request it had read.
AdmitMember(t) ==
    /\ InCall(t, "admit")
    /\ group' = visit[t].group
    /\ admitted' = admitted \cup {visit[t].joins[visit[t].index].address}
    /\ Goes(t, [pc |-> "mark",
                joins |-> [visit[t].joins EXCEPT ![visit[t].index].status = "approved"]])
    /\ UNCHANGED joins

RejectRequest(t, actor, i) ==
    /\ Manages(actor) /\ joins[i].status = "pending"
    /\ Visit(t, [pc |-> "mark", joins |-> [joins EXCEPT ![i].status = "rejected"]])
    /\ UNCHANGED <<group, joins, admitted>>

\* _rewrite_requests
MarkRequest(t) ==
    /\ InCall(t, "mark")
    /\ joins' = visit[t].joins
    /\ Goes(t, GroupIdle)
    /\ UNCHANGED <<group, admitted>>

-----------------------------------------------------------------------------
\* Seeded fault: who created the group is not looked up.
MayChangeAny(target) == TRUE

\* _assert_not_founder_target
MayChange(target) == target # Founder

SetMemberRole(t, target, r) ==
    /\ ~group.dissolved /\ MayChange(target) /\ Member(group, target) /\ r # "founder"
    /\ Visit(t, [pc |-> "save", group |-> WithRole(target, r)])
    /\ UNCHANGED <<group, joins, admitted>>

RemoveMember(t, actor, target) ==
    /\ Manages(actor) /\ MayChange(target)
    /\ Visit(t, [pc |-> "save", group |-> WithRole(target, "none")])
    /\ UNCHANGED <<group, joins, admitted>>

DissolveGroup(t) ==
    /\ ~group.dissolved
    /\ Visit(t, [pc |-> "save", group |-> [group EXCEPT !.dissolved = TRUE]])
    /\ UNCHANGED <<group, joins, admitted>>

SaveGroup(t) ==
    /\ InCall(t, "save")
    /\ group' = visit[t].group
    /\ Goes(t, GroupIdle)
    /\ UNCHANGED <<joins, admitted>>

\* The process dies between two steps of a call.
DieInCall(t) ==
    /\ visit[t] # GroupIdle
    /\ Goes(t, GroupIdle)
    /\ UNCHANGED <<group, joins, admitted>>

GroupNext == \E t \in GroupThread :
    \/ \E a \in Applicant : SubmitRequest(t, a)
    \/ \E actor \in Address, i \in DOMAIN joins :
           ApproveRequest(t, actor, i) \/ RejectRequest(t, actor, i)
    \/ AppendRequest(t) \/ AddMember(t) \/ AdmitMember(t) \/ MarkRequest(t)
    \/ \E target \in Address, r \in {"admin", "contributor"} : SetMemberRole(t, target, r)
    \/ \E actor, target \in Address : RemoveMember(t, actor, target)
    \/ DissolveGroup(t) \/ SaveGroup(t) \/ DieInCall(t)

GroupSpec == GroupInit /\ [][GroupNext]_groupVars

-----------------------------------------------------------------------------
GroupTypeOK ==
    /\ group \in Group
    /\ joins \in Seq(JoinRequest) /\ Len(joins) <= MaxRequests
    /\ admitted \subseteq Applicant
    /\ DOMAIN visit = GroupThread

\* However stale the copy of the group that a call writes back, the founder
\* stays its member and its only founder (_assert_not_founder_target,
\* set_member_role, add_member_approved).
FounderKept ==
    /\ group.role[Founder] = "founder"
    /\ \A a \in Applicant : group.role[a] # "founder"

\* A request is shown as approved only when its applicant was written into
\* the group: a crash between the two files, or two managers deciding at
\* once, never leaves an approval without the admission (the order of
\* approve_request).
ApprovedWasAdmitted ==
    \A i \in DOMAIN joins : joins[i].status = "approved" => joins[i].address \in admitted
=============================================================================
