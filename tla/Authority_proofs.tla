-------------------------- MODULE Authority_proofs --------------------------
(***************************************************************************)
(* Who may do what: capability tokens, the members of a group, the votes   *)
(* on a proposal and transfers of control, for any tokens, addresses,      *)
(* voters, people and threads.                                             *)
(***************************************************************************)
EXTENDS CapabilityTokens, GroupMembers, GovernanceVotes, ControlTransfers, TLAPS

-----------------------------------------------------------------------------
(* Capability tokens: the audit trail explains every token.                *)

\* Bounds apart, what TokenTypeOK says.
TokenShape ==
    /\ tokens \in [Token -> TokenRow \cup {Unissued}]
    /\ trail \in Seq(Entry)

\* The attempts that decided a token.
Deciding(k) == {i \in DOMAIN trail : trail[i].token = k /\ trail[i].outcome # "DENIED"}

\* TrailExplains, for one token.
Explains(k) ==
    /\ Deciding(k) = {} => tokens[k] = Unissued \/ tokens[k].state = "PENDING"
    /\ \A i \in Deciding(k) :
           /\ tokens[k] # Unissued /\ Deciding(k) = {i}
           /\ tokens[k].state = trail[i].outcome
           /\ trail[i].outcome = "CONSUMED" =>
                  trail[i].scope = tokens[k].scope /\ ~(tokens[k].ends /\ trail[i].late)

LEMMA ExplainsEach == TrailExplains <=> \A k \in Token : Explains(k)
    BY DEF TrailExplains, Explains, Deciding

LEMMA TokenStart == TokenInit => TokenShape /\ TrailExplains
    BY DEF TokenInit, TokenShape, TrailExplains

\* A token is issued fresh: no attempt decided it.
LEMMA IssueStep ==
    ASSUME TokenShape, TrailExplains, NEW k \in Token, NEW s \in Scope, NEW ends \in BOOLEAN,
           IssueToken(k, s, ends)
    PROVE  TokenShape' /\ TrailExplains'
<1> DEFINE row == [scope |-> s, ends |-> ends, state |-> "PENDING"]
<1>1. tokens' = [tokens EXCEPT ![k] = row] /\ trail' = trail /\ tokens[k] = Unissued
    BY DEF IssueToken
<1>2. row \in TokenRow
    BY DEF TokenRow
<1>3. TokenShape'
    BY <1>1, <1>2 DEF TokenShape
<1>4. ASSUME NEW j \in Token PROVE Explains(j)'
  <2>1. Explains(j) /\ Deciding(j)' = Deciding(j)
      BY <1>1, ExplainsEach DEF Deciding
  <2>2. CASE j # k
      BY <1>1, <2>1, <2>2 DEF Explains, TokenShape
  <2>3. CASE j = k
    <3>1. Deciding(k) = {}
        BY <1>1, <2>1, <2>3 DEF Explains
    <3>2. tokens'[k].state = "PENDING"
        BY <1>1 DEF TokenShape
    <3> QED
        BY <2>1, <2>3, <3>1, <3>2 DEF Explains
  <2> QED
      BY <2>2, <2>3
<1> QED
    BY <1>3, <1>4, ExplainsEach DEF TrailExplains, Explains, Deciding

LEMMA RedeemStep ==
    ASSUME TokenShape, TrailExplains, NEW k \in Token, NEW s \in Scope, NEW late \in BOOLEAN,
           Redeem(k, s, late)
    PROVE  TokenShape' /\ TrailExplains'
<1> DEFINE answer == RedeemOutcome(k, s, late)
           n == Len(trail) + 1
           entry == [token |-> k, scope |-> s, late |-> late, outcome |-> answer]
<1>1. /\ tokens' = IF answer = "DENIED" THEN tokens ELSE [tokens EXCEPT ![k].state = answer]
      /\ trail' = Append(trail, entry)
    BY DEF Redeem
<1>2. answer \in {"CONSUMED", "EXPIRED", "DENIED"}
    BY DEF RedeemOutcome
<1>3. answer # "DENIED" => tokens[k] # Unissued /\ tokens[k].state = "PENDING"
    BY DEF RedeemOutcome
<1>4. answer = "CONSUMED" => tokens[k].scope = s /\ ~(tokens[k].ends /\ late)
    BY DEF RedeemOutcome
<1>5. entry \in Entry
    BY <1>2 DEF Entry
<1>6. /\ trail' \in Seq(Entry) /\ DOMAIN trail' = DOMAIN trail \cup {n} /\ n \notin DOMAIN trail
      /\ trail'[n] = entry /\ \A i \in DOMAIN trail : trail'[i] = trail[i]
    BY <1>1, <1>5 DEF TokenShape
<1> HIDE DEF answer, entry, n
<1>7. answer # "DENIED" => /\ tokens[k] \in TokenRow
                            /\ [tokens[k] EXCEPT !.state = answer] \in TokenRow
    BY <1>2, <1>3 DEF TokenShape, TokenRow
<1>8. /\ \A j \in Token \ {k} : tokens'[j] = tokens[j]
      /\ answer = "DENIED" => tokens' = tokens
      /\ answer # "DENIED" => tokens'[k] = [tokens[k] EXCEPT !.state = answer]
    BY <1>1 DEF TokenShape
<1>9. TokenShape'
    BY <1>1, <1>6, <1>7 DEF TokenShape
<1>10. entry.token = k /\ entry.outcome = answer /\ entry.scope = s /\ entry.late = late
    BY DEF entry
<1>11. ASSUME NEW j \in Token PROVE Explains(j)'
  <2>1. Explains(j)
      BY ExplainsEach
  <2>2. CASE j # k \/ answer = "DENIED"
    <3>1. Deciding(j)' = Deciding(j)
        BY <1>6, <1>10, <2>2 DEF Deciding
    <3>2. tokens'[j] = tokens[j] /\ \A i \in Deciding(j) : trail'[i] = trail[i]
        BY <1>6, <1>8, <2>2 DEF Deciding
    <3> QED
        BY <2>1, <3>1, <3>2 DEF Explains
  <2>3. CASE j = k /\ answer # "DENIED"
    <3>1. ASSUME NEW i \in Deciding(k) PROVE FALSE
      <4>1. trail[i] \in Entry /\ tokens[k].state = trail[i].outcome
          BY <2>1, <2>3 DEF Explains, Deciding, TokenShape
      <4> QED
          BY <1>3, <2>3, <4>1 DEF Entry
    <3>2. Deciding(k)' = {n}
        BY <1>6, <1>10, <2>3, <3>1 DEF Deciding
    <3>3. /\ tokens'[k].state = answer /\ tokens'[k] # Unissued
          /\ tokens'[k].scope = tokens[k].scope /\ tokens'[k].ends = tokens[k].ends
        BY <1>7, <1>8, <2>3, TokenAssumption DEF TokenRow
    <3> QED
        BY <1>4, <1>6, <1>10, <2>3, <3>2, <3>3 DEF Explains
  <2> QED
      BY <2>2, <2>3
<1> QED
    BY <1>9, <1>11, ExplainsEach DEF TrailExplains, Explains, Deciding

LEMMA TokenStep ==
    ASSUME TokenShape, TrailExplains, [TokenNext]_tokenVars
    PROVE  TokenShape' /\ TrailExplains'
<1>1. CASE DropStore
    BY <1>1 DEF DropStore, TokenShape, TrailExplains
<1>2. CASE UNCHANGED tokenVars
    BY <1>2 DEF tokenVars, TokenShape, TrailExplains
<1> QED
    BY <1>1, <1>2, IssueStep, RedeemStep DEF TokenNext

\* For any tokens, scopes, clocks and number of attempts, the audit trail
\* explains the state of every token, and no token is used twice (redeem in
\* capability_token.py).
THEOREM TrailAlwaysExplains == TokenSpec => []TrailExplains
<1>1. TokenShape /\ TrailExplains /\ [TokenNext]_tokenVars => (TokenShape /\ TrailExplains)'
    BY TokenStep
<1> QED
    BY <1>1, TokenStart, PTL DEF TokenSpec

\* The trail keeps within its bound: the variables of the store have their types.
THEOREM TokensTyped == TokenSpec => []TokenTypeOK
<1>1. TokenInit => TokenTypeOK /\ TrailExplains
    BY TokenStart, TokenAssumption DEF TokenInit, TokenTypeOK, TokenShape
<1>2. TokenTypeOK /\ TrailExplains /\ [TokenNext]_tokenVars => (TokenTypeOK /\ TrailExplains)'
  <2> SUFFICES ASSUME TokenTypeOK, TrailExplains, [TokenNext]_tokenVars
               PROVE  (TokenTypeOK /\ TrailExplains)'
      OBVIOUS
  <2>1. TokenShape' /\ TrailExplains'
      BY TokenStep DEF TokenTypeOK, TokenShape
  <2>2. ASSUME NEW k \in Token, NEW s \in Scope, NEW late \in BOOLEAN, Redeem(k, s, late)
        PROVE  Len(trail') <= MaxAttempts
    <3>1. PICK entry : trail' = Append(trail, entry) /\ Len(trail) < MaxAttempts
        BY <2>2 DEF Redeem
    <3>2. Len(trail') = Len(trail) + 1
        BY <3>1 DEF TokenTypeOK
    <3> QED
        BY <3>1, <3>2, TokenAssumption DEF TokenTypeOK
  <2>3. Len(trail') <= MaxAttempts
      BY <2>2, TokenAssumption DEF TokenNext, tokenVars, TokenTypeOK, IssueToken, DropStore
  <2> QED
      BY <2>1, <2>3 DEF TokenTypeOK, TokenShape
<1> QED
    BY <1>1, <1>2, PTL DEF TokenSpec

-----------------------------------------------------------------------------
(* Groups: the founder stays, approvals are honest.                        *)

\* A copy of the group's file, with its founder.
Founded(g) ==
    /\ g \in Group
    /\ g.role[Founder] = "founder" /\ \A a \in Applicant : g.role[a] # "founder"

\* A copy of the requests' file, whose approvals were carried out.
Honest(js, done) ==
    /\ js \in Seq(JoinRequest)
    /\ \A i \in DOMAIN js : js[i].status = "approved" => js[i].address \in done

\* What a call has read, or is about to write.
CallHolds(v, done) ==
    \/ v = GroupIdle
    \/ v.pc = "append" /\ v.address \in Applicant
    \/ v.pc = "add" /\ Honest(v.joins, done) /\ v.index \in DOMAIN v.joins
    \/ /\ v.pc = "admit" /\ Founded(v.group)
       /\ Honest(v.joins, done) /\ v.index \in DOMAIN v.joins
    \/ v.pc = "mark" /\ Honest(v.joins, done)
    \/ v.pc = "save" /\ Founded(v.group)

GroupInv ==
    /\ Founded(group)
    /\ Honest(joins, admitted)
    /\ DOMAIN visit = GroupThread
    /\ \A t \in GroupThread : CallHolds(visit[t], admitted)

LEMMA GroupStart == GroupInit => GroupInv
    BY GroupAssumption
    DEF GroupInit, GroupInv, Founded, Group, Address, Role, Honest, CallHolds

\* A role other than the founder's, given to another, leaves the founder.
LEMMA RoleChanged ==
    ASSUME Founded(group), NEW a \in Applicant, NEW r \in {"admin", "contributor", "none"}
    PROVE  Founded(WithRole(a, r))
<1>1. group \in [dissolved: BOOLEAN, role: [Address -> Role \cup {"none"}]] /\ a \in Address
    BY DEF Founded, Group, Address
<1>2. WithRole(a, r) \in Group
    BY <1>1 DEF WithRole, Group, Role
<1>3. /\ WithRole(a, r).role[a] = r
      /\ \A b \in Address \ {a} : WithRole(a, r).role[b] = group.role[b]
    BY <1>1 DEF WithRole
<1> QED
    BY <1>2, <1>3, GroupAssumption DEF Founded, Address

\* Marking a request, as approved only once its applicant was admitted.
LEMMA RequestMarked ==
    ASSUME NEW js, NEW done, Honest(js, done), NEW i \in DOMAIN js,
           NEW status \in {"approved", "rejected"},
           status = "approved" => js[i].address \in done
    PROVE  Honest([js EXCEPT ![i].status = status], done)
<1> DEFINE marked == [js EXCEPT ![i].status = status]
<1>1. js \in Seq(JoinRequest) /\ js[i] \in JoinRequest
    BY DEF Honest
<1>2. [js[i] EXCEPT !.status = status] \in JoinRequest
    BY <1>1 DEF JoinRequest
<1>3. /\ marked \in Seq(JoinRequest) /\ DOMAIN marked = DOMAIN js
      /\ marked[i] = [js[i] EXCEPT !.status = status]
      /\ \A j \in DOMAIN js \ {i} : marked[j] = js[j]
    BY <1>1, <1>2
<1>4. marked[i].status = status /\ marked[i].address = js[i].address
    BY <1>1, <1>3 DEF JoinRequest
<1> QED
    BY <1>3, <1>4 DEF Honest

\* Admissions are never taken back: what was true of a copy stays so.
LEMMA AdmittedMore ==
    ASSUME NEW done, NEW more, done \subseteq more
    PROVE  /\ \A js : Honest(js, done) => Honest(js, more)
           /\ \A v : CallHolds(v, done) => CallHolds(v, more)
    BY DEF Honest, CallHolds

\* What remains of a step, once the files and the call that moved are right.
LEMMA OneCallMoves ==
    ASSUME GroupInv, NEW t \in GroupThread, NEW v,
           visit' = [visit EXCEPT ![t] = v], admitted \subseteq admitted',
           CallHolds(v, admitted'), Founded(group'), Honest(joins', admitted')
    PROVE  GroupInv'
<1>1. DOMAIN visit' = GroupThread
    BY DEF GroupInv
<1>2. ASSUME NEW u \in GroupThread PROVE CallHolds(visit'[u], admitted')
  <2>1. CASE u = t
      BY <2>1 DEF GroupInv
  <2>2. CASE u # t
    <3>1. visit'[u] = visit[u] /\ CallHolds(visit[u], admitted)
        BY <2>2 DEF GroupInv
    <3> QED
        BY <3>1, AdmittedMore
  <2> QED
      BY <2>1, <2>2
<1> QED
    BY <1>1, <1>2 DEF GroupInv

\* A step of the calls on the group.
LEMMA GroupCallStep ==
    ASSUME GroupInv, NEW t \in GroupThread,
           \/ \E target \in Address, r \in {"admin", "contributor"} : SetMemberRole(t, target, r)
           \/ \E actor, target \in Address : RemoveMember(t, actor, target)
           \/ DissolveGroup(t) \/ SaveGroup(t) \/ DieInCall(t)
    PROVE  GroupInv'
<1>1. Founded(group) /\ Honest(joins, admitted) /\ CallHolds(visit[t], admitted)
    BY DEF GroupInv
<1>2. ASSUME NEW target \in Address, NEW r \in {"admin", "contributor"},
             SetMemberRole(t, target, r)
      PROVE  GroupInv'
  <2>1. Founded(WithRole(target, r))
      BY <1>1, <1>2, RoleChanged DEF SetMemberRole, MayChange, Address
  <2> QED
      BY <1>1, <1>2, <2>1, OneCallMoves DEF SetMemberRole, Visit, CallHolds
<1>3. ASSUME NEW actor \in Address, NEW target \in Address, RemoveMember(t, actor, target)
      PROVE  GroupInv'
  <2>1. Founded(WithRole(target, "none"))
      BY <1>1, <1>3, RoleChanged DEF RemoveMember, MayChange, Address
  <2> QED
      BY <1>1, <1>3, <2>1, OneCallMoves DEF RemoveMember, Visit, CallHolds
<1>4. CASE DissolveGroup(t)
  <2>1. Founded([group EXCEPT !.dissolved = TRUE])
      BY <1>1 DEF Founded, Group
  <2> QED
      BY <1>1, <1>4, <2>1, OneCallMoves DEF DissolveGroup, Visit, CallHolds
<1>5. CASE SaveGroup(t)
  <2>1. Founded(group')
      BY <1>1, <1>5 DEF SaveGroup, InCall, CallHolds
  <2> QED
      BY <1>1, <1>5, <2>1, OneCallMoves DEF SaveGroup, Goes, CallHolds
<1>6. CASE DieInCall(t)
    BY <1>1, <1>6, OneCallMoves DEF DieInCall, Goes, CallHolds
<1> QED
    BY <1>2, <1>3, <1>4, <1>5, <1>6

\* A step of the calls on the requests.
LEMMA RequestCallStep ==
    ASSUME GroupInv, NEW t \in GroupThread,
           \/ \E a \in Applicant : SubmitRequest(t, a)
           \/ \E actor \in Address, i \in DOMAIN joins :
                  ApproveRequest(t, actor, i) \/ RejectRequest(t, actor, i)
           \/ AppendRequest(t) \/ AddMember(t) \/ AdmitMember(t) \/ MarkRequest(t)
    PROVE  GroupInv'
<1>1. Founded(group) /\ Honest(joins, admitted) /\ CallHolds(visit[t], admitted)
    BY DEF GroupInv
<1>2. ASSUME NEW a \in Applicant, SubmitRequest(t, a) PROVE GroupInv'
    BY <1>1, <1>2, OneCallMoves DEF SubmitRequest, Visit, CallHolds
<1>3. ASSUME NEW actor \in Address, NEW i \in DOMAIN joins, ApproveRequest(t, actor, i)
      PROVE  GroupInv'
    BY <1>1, <1>3, OneCallMoves DEF ApproveRequest, Visit, CallHolds
<1>4. ASSUME NEW actor \in Address, NEW i \in DOMAIN joins, RejectRequest(t, actor, i)
      PROVE  GroupInv'
  <2>1. Honest([joins EXCEPT ![i].status = "rejected"], admitted)
      BY <1>1, RequestMarked
  <2> QED
      BY <1>1, <1>4, <2>1, OneCallMoves DEF RejectRequest, Visit, CallHolds
<1>5. CASE AppendRequest(t)
  <2> DEFINE new == [address |-> visit[t].address, status |-> "pending"]
  <2>1. new \in JoinRequest /\ joins' = Append(joins, new)
      BY <1>1, <1>5 DEF AppendRequest, InCall, CallHolds, JoinRequest
  <2>2. joins \in Seq(JoinRequest) /\ new.status = "pending"
      BY <1>1 DEF Honest
  <2> HIDE DEF new
  <2>3. /\ joins' \in Seq(JoinRequest)
        /\ \A i \in DOMAIN joins' : joins'[i] = new \/ (i \in DOMAIN joins /\ joins'[i] = joins[i])
      BY <2>1, <2>2
  <2>4. Honest(joins', admitted)
      BY <1>1, <2>2, <2>3 DEF Honest
  <2> QED
      BY <1>1, <1>5, <2>4, OneCallMoves DEF AppendRequest, Goes, CallHolds
<1>6. CASE AddMember(t)
  <2> DEFINE v == visit[t]
             a == v.joins[v.index].address
  <2>1. v.pc = "add" /\ Honest(v.joins, admitted) /\ v.index \in DOMAIN v.joins
      BY <1>1, <1>6 DEF AddMember, InCall, CallHolds
  <2>2. a \in Applicant
    <3>1. v.joins \in Seq(JoinRequest)
        BY <2>1 DEF Honest
    <3>2. v.joins[v.index] \in JoinRequest
        BY <2>1, <3>1
    <3> QED
        BY <3>2 DEF JoinRequest
  <2>3. Founded(WithRole(a, "contributor"))
      BY <1>1, <2>2, RoleChanged
  <2>4. CASE Manages(v.actor) /\ ~Member(group, a)
    <3> DEFINE w == [pc |-> "admit", group |-> WithRole(a, "contributor"),
                     index |-> v.index, joins |-> v.joins]
    <3>1. CallHolds(w, admitted)
        BY <2>1, <2>3 DEF CallHolds
    <3>2. visit' = [visit EXCEPT ![t] = w] /\ UNCHANGED <<group, joins, admitted>>
        BY <1>6, <2>4 DEF AddMember, Goes
    <3> QED
        BY <1>1, <3>1, <3>2, OneCallMoves
  <2>5. CASE ~(Manages(v.actor) /\ ~Member(group, a))
      BY <1>1, <1>6, <2>5, OneCallMoves DEF AddMember, Goes, CallHolds
  <2> QED
      BY <2>4, <2>5
<1>7. CASE AdmitMember(t)
  <2> DEFINE v == visit[t]
             w == [pc |-> "mark", joins |-> [v.joins EXCEPT ![v.index].status = "approved"]]
  <2>1. /\ v.pc = "admit" /\ Founded(v.group)
        /\ Honest(v.joins, admitted) /\ v.index \in DOMAIN v.joins
      BY <1>1, <1>7 DEF AdmitMember, InCall, CallHolds
  <2>2. /\ group' = v.group /\ joins' = joins /\ visit' = [visit EXCEPT ![t] = w]
        /\ admitted' = admitted \cup {v.joins[v.index].address}
      BY <1>7 DEF AdmitMember, Goes
  <2>3. Honest(joins, admitted') /\ Honest(v.joins, admitted')
      BY <1>1, <2>1, <2>2, AdmittedMore
  <2>4. Honest([v.joins EXCEPT ![v.index].status = "approved"], admitted')
      BY <2>1, <2>2, <2>3, RequestMarked
  <2>5. CallHolds(w, admitted')
      BY <2>4 DEF CallHolds
  <2> QED
      BY <2>1, <2>2, <2>3, <2>5, OneCallMoves
<1>8. CASE MarkRequest(t)
  <2>1. Honest(joins', admitted)
      BY <1>1, <1>8 DEF MarkRequest, InCall, CallHolds
  <2> QED
      BY <1>1, <1>8, <2>1, OneCallMoves DEF MarkRequest, Goes, CallHolds
<1> QED
    BY <1>2, <1>3, <1>4, <1>5, <1>6, <1>7, <1>8

LEMMA GroupStep ==
    ASSUME GroupInv, [GroupNext]_groupVars
    PROVE  GroupInv'
<1>1. CASE UNCHANGED groupVars
    BY <1>1 DEF groupVars, GroupInv
<1> QED
    BY <1>1, GroupCallStep, RequestCallStep DEF GroupNext

THEOREM GroupInvariant == GroupSpec => []GroupInv
<1>1. GroupInv /\ [GroupNext]_groupVars => GroupInv'
    BY GroupStep
<1> QED
    BY <1>1, GroupStart, PTL DEF GroupSpec

\* However stale the copies that the threads write back, the founder stays
\* the group's only founder (_assert_not_founder_target in groups/manager.py).
THEOREM FounderStays == GroupSpec => []FounderKept
<1>1. GroupInv => FounderKept
    BY DEF GroupInv, Founded, FounderKept
<1> QED
    BY <1>1, GroupInvariant, PTL

\* No crash and no order of decisions shows an approval without the admission
\* (approve_request in groups/join_requests.py).
THEOREM ApprovalsHonest == GroupSpec => []ApprovedWasAdmitted
<1>1. GroupInv => ApprovedWasAdmitted
    BY DEF GroupInv, Honest, ApprovedWasAdmitted
<1> QED
    BY <1>1, GroupInvariant, PTL

\* No copy of the requests is longer than the file may be: a call that marks a
\* request writes back a copy that may be old.
ShortCopy(v) == v = GroupIdle \/ v.pc \in {"append", "save"} \/ Len(v.joins) <= MaxRequests

GroupShort ==
    /\ Len(joins) <= MaxRequests /\ admitted \subseteq Applicant
    /\ \A t \in GroupThread : ShortCopy(visit[t])

\* What remains of a step, once the call that moved is right.
LEMMA ShortStays ==
    ASSUME GroupInv, GroupShort, NEW t \in GroupThread, NEW v, visit' = [visit EXCEPT ![t] = v],
           ShortCopy(v), Len(joins') <= MaxRequests, admitted' \subseteq Applicant
    PROVE  GroupShort'
<1>1. \A u \in GroupThread : visit'[u] = v \/ visit'[u] = visit[u]
    BY DEF GroupInv
<1> QED
    BY <1>1 DEF GroupShort, ShortCopy

LEMMA ShortStep ==
    ASSUME GroupInv, GroupShort, [GroupNext]_groupVars
    PROVE  GroupShort'
<1>0. joins \in Seq(JoinRequest) /\ Len(joins) <= MaxRequests /\ admitted \subseteq Applicant
    BY DEF GroupInv, Honest, GroupShort
<1>1. ASSUME NEW t \in GroupThread,
             \/ \E a \in Applicant : SubmitRequest(t, a)
             \/ \E target \in Address, r \in {"admin", "contributor"} : SetMemberRole(t, target, r)
             \/ \E actor, target \in Address : RemoveMember(t, actor, target)
             \/ DissolveGroup(t) \/ SaveGroup(t) \/ DieInCall(t)
      PROVE  GroupShort'
  <2>1. PICK v : visit' = [visit EXCEPT ![t] = v] /\ (v = GroupIdle \/ v.pc \in {"append", "save"})
      BY <1>1 DEF SubmitRequest, SetMemberRole, RemoveMember, DissolveGroup, SaveGroup, DieInCall,
                  Visit, Goes
  <2>2. joins' = joins /\ admitted' = admitted
      BY <1>1 DEF SubmitRequest, SetMemberRole, RemoveMember, DissolveGroup, SaveGroup, DieInCall
  <2> QED
      BY <1>0, <2>1, <2>2, ShortStays DEF ShortCopy
<1>2. ASSUME NEW t \in GroupThread, NEW actor \in Address, NEW i \in DOMAIN joins,
             ApproveRequest(t, actor, i) \/ RejectRequest(t, actor, i)
      PROVE  GroupShort'
  <2> DEFINE marked == [joins EXCEPT ![i].status = "rejected"]
  <2>1. Len(marked) = Len(joins)
      BY <1>0
  <2>2. CASE ApproveRequest(t, actor, i)
    <3> DEFINE v == [pc |-> "add", actor |-> actor, index |-> i, joins |-> joins]
    <3>1. visit' = [visit EXCEPT ![t] = v] /\ joins' = joins /\ admitted' = admitted
        BY <2>2 DEF ApproveRequest, Visit
    <3>2. ShortCopy(v)
        BY <1>0 DEF ShortCopy
    <3> QED
        BY <1>0, <3>1, <3>2, ShortStays
  <2>3. CASE RejectRequest(t, actor, i)
    <3>1. /\ visit' = [visit EXCEPT ![t] = [pc |-> "mark", joins |-> marked]]
          /\ joins' = joins /\ admitted' = admitted
        BY <2>3 DEF RejectRequest, Visit
    <3> HIDE DEF marked
    <3>2. ShortCopy([pc |-> "mark", joins |-> marked])
        BY <1>0, <2>1 DEF ShortCopy
    <3> QED
        BY <1>0, <3>1, <3>2, ShortStays
  <2> QED
      BY <1>2, <2>2, <2>3
<1>3. ASSUME NEW t \in GroupThread, AppendRequest(t) PROVE GroupShort'
  <2>1. Len(joins') <= MaxRequests
      BY <1>0, <1>3, GroupAssumption DEF AppendRequest
  <2> QED
      BY <1>0, <1>3, <2>1, ShortStays DEF ShortCopy, AppendRequest, Goes
<1>4. ASSUME NEW t \in GroupThread, NEW pc \in {"add", "admit", "mark"}, InCall(t, pc)
      PROVE  /\ visit[t].joins \in Seq(JoinRequest) /\ Len(visit[t].joins) <= MaxRequests
             /\ pc # "mark" => visit[t].index \in DOMAIN visit[t].joins
    BY <1>4 DEF InCall, GroupInv, GroupShort, CallHolds, ShortCopy, Honest
<1>5. ASSUME NEW t \in GroupThread, AddMember(t) PROVE GroupShort'
  <2>1. Len(visit[t].joins) <= MaxRequests
      BY <1>4, <1>5 DEF AddMember
  <2>2. PICK v : visit' = [visit EXCEPT ![t] = v] /\ (v = GroupIdle \/ v.joins = visit[t].joins)
      BY <1>5 DEF AddMember, Goes
  <2> QED
      BY <1>0, <1>5, <2>1, <2>2, ShortStays DEF ShortCopy, AddMember
<1>6. ASSUME NEW t \in GroupThread, AdmitMember(t) PROVE GroupShort'
  <2> DEFINE js == visit[t].joins
             i  == visit[t].index
             marked == [js EXCEPT ![i].status = "approved"]
  <2>1. js \in Seq(JoinRequest) /\ Len(js) <= MaxRequests /\ i \in DOMAIN js
      BY <1>4, <1>6 DEF AdmitMember
  <2>2. Len(marked) = Len(js) /\ js[i] \in JoinRequest
    <3> HIDE DEF js, i
    <3> QED
        BY <2>1
  <2>3. js[i].address \in Applicant
      BY <2>2 DEF JoinRequest
  <2>4. /\ visit' = [visit EXCEPT ![t] = [pc |-> "mark", joins |-> marked]]
        /\ joins' = joins /\ admitted' = admitted \cup {js[i].address}
      BY <1>6 DEF AdmitMember, Goes
  <2> HIDE DEF marked
  <2> QED
      BY <1>0, <2>1, <2>2, <2>3, <2>4, ShortStays DEF ShortCopy
<1>7. ASSUME NEW t \in GroupThread, MarkRequest(t) PROVE GroupShort'
  <2>1. Len(visit[t].joins) <= MaxRequests
      BY <1>4, <1>7 DEF MarkRequest
  <2> QED
      BY <1>0, <1>7, <2>1, ShortStays DEF ShortCopy, MarkRequest, Goes
<1>8. CASE UNCHANGED groupVars
    BY <1>8 DEF groupVars, GroupShort, ShortCopy
<1> QED
    BY <1>1, <1>2, <1>3, <1>5, <1>6, <1>7, <1>8 DEF GroupNext

\* The files of a group and its requests keep their types, and the requests
\* their bound, whatever copies are written back.
THEOREM GroupsTyped == GroupSpec => []GroupTypeOK
<1>1. GroupInit => GroupShort
    BY GroupAssumption DEF GroupInit, GroupShort, ShortCopy
<1>2. GroupInv /\ GroupShort /\ [GroupNext]_groupVars => GroupShort'
    BY ShortStep
<1>3. GroupInv /\ GroupShort => GroupTypeOK
    BY DEF GroupInv, GroupShort, GroupTypeOK, Founded, Honest
<1> QED
    BY <1>1, <1>2, <1>3, GroupInvariant, PTL DEF GroupSpec

-----------------------------------------------------------------------------
(* Governance: what is decided was voted, and a veto stands.               *)

\* A decision is the tally of the votes recorded at some moment since the
\* closing, under the creator or, once rotated, under some voter.
Backed(o) ==
    o # "open" =>
        closed /\ \E n \in early .. Len(votes), cr \in IF rotated THEN Voter ELSE {creator} :
            o = Tally(SubSeq(votes, 1, n), cr)

\* The inductive invariant: what is decided, and what a call is about to write,
\* is backed by votes.
VoteInv ==
    /\ VoteTypeOK
    /\ ~closed => early = Len(votes)
    /\ rotated => creator \in Voter
    /\ Backed(outcome)
    /\ \A t \in VoteThread : In(t, "write") => Backed(serving[t].outcome)

LEMMA TallyOutcome == ASSUME NEW vs, NEW cr PROVE Tally(vs, cr) \in Outcome
  BY DEF Tally, Outcome

LEMMA VoteStart == ASSUME VoteAssumption, VoteInit PROVE VoteInv
<1>1. VoteTypeOK
  <2>1. votes \in Seq(VoteCast) /\ Len(votes) = 0
    BY DEF VoteInit
  <2>2. Len(votes) <= MaxVotes /\ early \in 0 .. Len(votes)
    BY <2>1 DEF VoteInit, VoteAssumption
  <2>3. outcome \in Outcome \cup {"open"} /\ creator \in Voter \cup {NoCreator}
    BY DEF VoteInit, VoteAssumption
  <2>4. closed \in BOOLEAN /\ rotated \in BOOLEAN
    BY DEF VoteInit
  <2>5. serving \in [VoteThread -> VoteCall \cup {VoteIdle}]
    BY DEF VoteInit
  <2> QED BY <2>1, <2>2, <2>3, <2>4, <2>5 DEF VoteTypeOK
<1>2. Len(votes) = early /\ ~rotated /\ Backed(outcome)
  BY DEF VoteInit, Backed
<1>3. \A t \in VoteThread : ~In(t, "write")
  BY DEF VoteInit, In, Free
<1> QED BY <1>1, <1>2, <1>3 DEF VoteInv

\* A step that keeps the votes and the outcome, and of the calls only begins
\* one with a vote, or one to write a backed outcome, or ends one.
LEMMA CallStep ==
    ASSUME VoteInv, NEW t \in VoteThread, NEW call \in VoteCall \cup {VoteIdle},
           Does(t, call),
           (call # VoteIdle /\ call.pc = "write") => Backed(call.outcome),
           UNCHANGED <<outcome, votes, creator, early, closed, rotated>>
    PROVE  VoteInv'
<1>1. serving' = [serving EXCEPT ![t] = call]
  BY DEF Does
<1>2. serving \in [VoteThread -> VoteCall \cup {VoteIdle}]
  BY DEF VoteInv, VoteTypeOK
<1>3. VoteTypeOK'
  BY <1>1, <1>2 DEF VoteInv, VoteTypeOK
<1>4. \A o : Backed(o)' = Backed(o)
  BY DEF Backed
<1>5. ASSUME NEW u \in VoteThread, In(u, "write")' PROVE Backed(serving'[u].outcome)
  <2>1. CASE u = t
    BY <2>1, <1>1, <1>2, <1>5 DEF In, Free
  <2>2. CASE u # t
    <3>1. serving'[u] = serving[u]
      BY <2>2, <1>1, <1>2
    <3>2. In(u, "write")
      BY <3>1, <1>5 DEF In, Free
    <3> QED BY <3>1, <3>2 DEF VoteInv
  <2> QED BY <2>1, <2>2
<1>6. Backed(outcome)'
  BY DEF VoteInv, Backed
<1>7. \A u \in VoteThread : In(u, "write")' => Backed(serving[u].outcome)'
  BY <1>5 DEF Backed
<1> QED BY <1>3, <1>6, <1>7 DEF VoteInv

LEMMA CastStep ==
    ASSUME VoteInv, NEW t \in VoteThread, NEW w \in Voter, NEW c \in Choice, CastVote(t, w, c)
    PROVE  VoteInv'
<1> DEFINE call == [pc |-> "check", vote |-> [by |-> w, choice |-> c]]
<1>1. call \in VoteCall /\ call.pc # "write"
  BY DEF VoteCall, VoteCast
<1>2. Does(t, call) /\ UNCHANGED <<outcome, votes, creator, early, closed, rotated>>
  BY DEF CastVote
<1> HIDE DEF call
<1> QED BY <1>1, <1>2, CallStep

LEMMA CheckStep ==
    ASSUME VoteInv, NEW t \in VoteThread, CheckVote(t)
    PROVE  VoteInv'
<1>1. serving[t] \in VoteCall /\ serving[t].pc = "check"
  BY DEF CheckVote, In, Free, VoteInv, VoteTypeOK
<1> DEFINE call == [serving[t] EXCEPT !.pc = "append"]
<1>2. call \in VoteCall /\ call.pc # "write"
  BY <1>1 DEF VoteCall
<1>3. Does(t, call) /\ UNCHANGED <<outcome, votes, creator, early, closed, rotated>>
  BY DEF CheckVote
<1> HIDE DEF call
<1> QED BY <1>2, <1>3, CallStep

LEMMA DropStep ==
    ASSUME VoteInv, NEW t \in VoteThread, DropCall(t)
    PROVE  VoteInv'
<1>1. Does(t, VoteIdle) /\ UNCHANGED <<outcome, votes, creator, early, closed, rotated>>
  BY DEF DropCall
<1> QED BY <1>1, CallStep

\* A call tallies what it finds, or finds the proposal decided.
LEMMA DecideStep ==
    ASSUME VoteInv, NEW t \in VoteThread, DecideVote(t) \/ DecideOther(t)
    PROVE  VoteInv'
<1>1. ASSUME NEW o \in Outcome \cup {"open"}, Backed(o), Does(t, [pc |-> "write", outcome |-> o]),
             UNCHANGED <<outcome, votes, creator, early, closed, rotated>>
      PROVE  VoteInv'
  <2> DEFINE call == [pc |-> "write", outcome |-> o]
  <2>1. call \in VoteCall /\ call.outcome = o
    BY DEF VoteCall
  <2>2. Does(t, call)
    BY <1>1
  <2> HIDE DEF call
  <2> QED BY <1>1, <2>1, <2>2, CallStep
<1>2. CASE DecideOther(t)
  <2>1. outcome \in Outcome \cup {"open"} /\ Backed(outcome)
    BY DEF VoteInv, VoteTypeOK
  <2> QED BY <1>1, <1>2, <2>1 DEF DecideOther
<1>3. CASE DecideVote(t)
  <2>1. Tally(votes, creator) \in Outcome
    BY TallyOutcome
  <2>2. votes \in Seq(VoteCast) /\ early \in 0 .. Len(votes)
    BY DEF VoteInv, VoteTypeOK
  <2>3. SubSeq(votes, 1, Len(votes)) = votes /\ Len(votes) \in early .. Len(votes)
    BY <2>2
  <2>4. creator \in IF rotated THEN Voter ELSE {creator}
    BY DEF VoteInv
  <2>5. Backed(Tally(votes, creator))
    BY <1>3, <2>3, <2>4 DEF Backed, DecideVote
  <2> QED BY <1>1, <1>3, <2>1, <2>5 DEF DecideVote
<1> QED BY <1>2, <1>3

\* A call writes the proposals as it read them.
LEMMA WriteStep ==
    ASSUME VoteInv, NEW t \in VoteThread, WriteProposals(t)
    PROVE  VoteInv'
<1>1. serving[t] \in VoteCall /\ serving[t].pc = "write" /\ Backed(serving[t].outcome)
  BY DEF WriteProposals, In, Free, VoteInv, VoteTypeOK
<1>2. serving[t].outcome \in Outcome \cup {"open"}
  BY <1>1 DEF VoteCall
<1>3. /\ outcome' = serving[t].outcome /\ serving' = [serving EXCEPT ![t] = VoteIdle]
      /\ UNCHANGED <<votes, creator, early, closed, rotated>>
  BY DEF WriteProposals, Does
<1>4. serving \in [VoteThread -> VoteCall \cup {VoteIdle}]
  BY DEF VoteInv, VoteTypeOK
<1>5. VoteTypeOK'
  BY <1>2, <1>3, <1>4 DEF VoteInv, VoteTypeOK
<1>6. Backed(outcome)'
  BY <1>1, <1>3 DEF Backed
<1>7. ASSUME NEW u \in VoteThread, In(u, "write")' PROVE Backed(serving[u].outcome)'
  <2>1. u # t /\ serving'[u] = serving[u]
    BY <1>3, <1>4, <1>7 DEF In, Free
  <2>2. Backed(serving[u].outcome)
    BY <1>7, <2>1 DEF VoteInv, In, Free
  <2> QED BY <1>3, <2>1, <2>2 DEF Backed
<1> QED BY <1>3, <1>5, <1>6, <1>7 DEF VoteInv

\* Votes are only added, and the ones recorded at the closing stay the first.
LEMMA RecordStep ==
    ASSUME VoteInv, NEW t \in VoteThread, RecordVote(t), MaxVotes \in Nat
    PROVE  VoteInv'
<1>1. serving[t] \in VoteCall /\ serving[t].pc = "append"
  BY DEF RecordVote, In, Free, VoteInv, VoteTypeOK
<1>2. serving[t].vote \in VoteCast
  BY <1>1 DEF VoteCall
<1>3. /\ votes' = Append(votes, serving[t].vote) /\ Len(votes) < MaxVotes
      /\ early' = IF closed THEN early ELSE early + 1
      /\ serving' = [serving EXCEPT ![t] = VoteIdle]
      /\ UNCHANGED <<outcome, creator, closed, rotated>>
  BY DEF RecordVote, Does
<1>4. /\ serving \in [VoteThread -> VoteCall \cup {VoteIdle}]
      /\ votes \in Seq(VoteCast) /\ early \in 0 .. Len(votes) /\ Len(votes) \in Nat
      /\ ~closed => early = Len(votes)
  BY DEF VoteInv, VoteTypeOK
<1>5. votes' \in Seq(VoteCast) /\ Len(votes') = Len(votes) + 1
  BY <1>2, <1>3, <1>4
<1>6. early' \in 0 .. Len(votes')
  BY <1>3, <1>4, <1>5
<1>7. VoteTypeOK'
  BY <1>3, <1>4, <1>5, <1>6 DEF VoteInv, VoteTypeOK
<1>8. ~closed' => early' = Len(votes')
  BY <1>3, <1>4, <1>5
<1>9. \A n \in 0 .. Len(votes) : SubSeq(votes', 1, n) = SubSeq(votes, 1, n)
  BY <1>2, <1>3, <1>4
<1>10. ASSUME NEW o, Backed(o), o # "open"
       PROVE  closed' /\ \E n \in early' .. Len(votes'), cr \in IF rotated' THEN Voter ELSE {creator'} :
                  o = Tally(SubSeq(votes', 1, n), cr)
  <2>1. closed /\ early' = early
    BY <1>3, <1>10 DEF Backed
  <2>2. PICK n \in early .. Len(votes) : \E cr \in IF rotated THEN Voter ELSE {creator} :
            o = Tally(SubSeq(votes, 1, n), cr)
    BY <1>10 DEF Backed
  <2>3. n \in early' .. Len(votes') /\ SubSeq(votes', 1, n) = SubSeq(votes, 1, n)
    BY <1>4, <1>5, <1>9, <2>1
  <2>4. rotated' = rotated /\ creator' = creator /\ closed' = closed
    BY <1>3
  <2> QED BY <2>1, <2>2, <2>3, <2>4
<1>11. Backed(outcome)'
  BY <1>3, <1>10 DEF Backed, VoteInv
<1>12. ASSUME NEW u \in VoteThread, In(u, "write")' PROVE Backed(serving[u].outcome)'
  <2>1. u # t /\ serving'[u] = serving[u]
    BY <1>3, <1>4, <1>12 DEF In, Free
  <2>2. Backed(serving[u].outcome)
    BY <1>12, <2>1 DEF VoteInv, In, Free
  <2> QED BY <1>10, <2>1, <2>2 DEF Backed
<1>13. rotated' => creator' \in Voter
  BY <1>3 DEF VoteInv
<1> QED BY <1>7, <1>8, <1>11, <1>12, <1>13 DEF VoteInv

LEMMA CloseStep == ASSUME VoteInv, CloseVote PROVE VoteInv'
<1>1. \A o : Backed(o) => o = "open"
  BY DEF Backed, CloseVote
<1>2. VoteTypeOK' /\ closed' /\ (rotated' => creator' \in Voter)
  BY DEF VoteInv, CloseVote, VoteTypeOK
<1>3. outcome' = "open" /\ \A t \in VoteThread : In(t, "write") => serving[t].outcome = "open"
  BY <1>1 DEF VoteInv, CloseVote
<1>4. Backed(outcome)' /\ \A t \in VoteThread : In(t, "write")' => Backed(serving[t].outcome)'
  BY <1>3 DEF Backed, CloseVote, In, Free
<1> QED BY <1>2, <1>4 DEF VoteInv

\* The creators so far are voters, so what was tallied under one of them
\* stays backed.
LEMMA RotateStep == ASSUME VoteAssumption, VoteInv, NEW w \in Voter, RotateCreator(w) PROVE VoteInv'
<1>1. /\ creator \in Voter /\ creator' = w /\ rotated'
      /\ UNCHANGED <<outcome, votes, early, closed, serving>>
  BY DEF RotateCreator, VoteInv, VoteTypeOK
<1>2. VoteTypeOK'
  BY <1>1 DEF VoteInv, VoteTypeOK
<1>3. ASSUME NEW o, Backed(o)
      PROVE  o # "open" =>
                 closed' /\ \E n \in early' .. Len(votes'), cr \in IF rotated' THEN Voter ELSE {creator'} :
                     o = Tally(SubSeq(votes', 1, n), cr)
  BY <1>1, <1>3 DEF Backed
<1>4. Backed(outcome)' /\ \A t \in VoteThread : In(t, "write")' => Backed(serving[t].outcome)'
  <2>1. Backed(outcome)'
    BY <1>1, <1>3 DEF Backed, VoteInv
  <2>2. ASSUME NEW t \in VoteThread, In(t, "write")' PROVE Backed(serving[t].outcome)'
    <3>1. Backed(serving[t].outcome) /\ serving' = serving
      BY <1>1, <2>2 DEF VoteInv, In, Free
    <3> QED BY <1>3, <3>1 DEF Backed
  <2> QED BY <2>1, <2>2
<1> QED BY <1>1, <1>2, <1>4 DEF VoteInv

LEMMA VoteStep == ASSUME VoteAssumption, VoteInv, [VoteNext]_voteVars PROVE VoteInv'
<1>1. CASE UNCHANGED voteVars
  BY <1>1 DEF voteVars, VoteInv, VoteTypeOK, Backed, In, Free
<1>2. CASE VoteNext
  BY <1>2, CastStep, CheckStep, RecordStep, DropStep, DecideStep, WriteStep, CloseStep,
     RotateStep DEF VoteNext, VoteAssumption
<1> QED BY <1>1, <1>2

\* For any voters, threads and numbers of votes, VoteInv holds (GovernanceManager:
\* cast_vote, _refresh_statuses).
THEOREM VoteInvariant == VoteSpec => []VoteInv
<1>1. VoteInit => VoteInv
  BY VoteAssumption, VoteStart
<1>2. VoteInv /\ [VoteNext]_voteVars => VoteInv'
  BY VoteAssumption, VoteStep
<1> QED BY <1>1, <1>2, PTL DEF VoteSpec

\* A proposal that is decided was decided by the votes recorded at some moment
\* since its closing, however stale the copy that is written back.
THEOREM VotesDecide == VoteSpec => []OutcomeOfTheVotes
<1>1. VoteInv => OutcomeOfTheVotes
  BY DEF VoteInv, Backed, OutcomeOfTheVotes
<1> QED BY <1>1, VoteInvariant, PTL

\* Votes with a veto among the first ones and no yes of the creator are tallied
\* as a rejection.
LEMMA VetoTallied ==
    ASSUME NEW vs \in Seq(VoteCast), NEW n \in 0 .. Len(vs), NEW m \in 0 .. n, NEW cr,
           [by |-> cr, choice |-> "no"] \in Range(SubSeq(vs, 1, m)),
           [by |-> cr, choice |-> "yes"] \notin Range(vs)
    PROVE  Tally(SubSeq(vs, 1, n), cr) = "rejected"
<1> DEFINE first == SubSeq(vs, 1, n)
<1>1. /\ Len(vs) \in Nat /\ n \in Nat /\ m \in Nat /\ m <= n /\ n <= Len(vs)
      /\ DOMAIN first = 1 .. n /\ \A i \in 1 .. n : first[i] = vs[i]
  OBVIOUS
<1>2. DOMAIN SubSeq(vs, 1, m) = 1 .. m /\ \A i \in 1 .. m : SubSeq(vs, 1, m)[i] = vs[i]
  BY <1>1
<1>3. PICK i \in 1 .. m : vs[i] = [by |-> cr, choice |-> "no"]
  BY <1>2 DEF Range
<1>4. i \in By(first, cr)
  BY <1>1, <1>3 DEF By
<1>5. ASSUME NEW j \in By(first, cr) PROVE first[j].choice # "yes"
  <2>1. j \in DOMAIN vs /\ first[j] = vs[j] /\ vs[j].by = cr /\ vs[j] \in VoteCast
    BY <1>1 DEF By
  <2>2. vs[j].choice = "yes" => vs[j] = [by |-> cr, choice |-> "yes"]
    BY <2>1 DEF VoteCast
  <2> QED BY <2>1, <2>2 DEF Range
<1> QED BY <1>4, <1>5 DEF Tally

\* As long as the creator is not rotated, a veto he cast before the closing and
\* never replaced is not outvoted by votes that are recorded late.
THEOREM VetoStands == VoteSpec => []VetoHolds
<1>1. ASSUME VoteInv PROVE VetoHolds
  <2> SUFFICES ASSUME ~rotated, outcome = "accepted",
                      [by |-> creator, choice |-> "no"] \in Range(SubSeq(votes, 1, early)),
                      [by |-> creator, choice |-> "yes"] \notin Range(votes)
               PROVE  FALSE
    BY DEF VetoHolds
  <2>1. votes \in Seq(VoteCast) /\ early \in 0 .. Len(votes) /\ Len(votes) \in Nat
    BY <1>1 DEF VoteInv, VoteTypeOK
  <2>2. PICK n \in early .. Len(votes) : outcome = Tally(SubSeq(votes, 1, n), creator)
    BY <1>1 DEF VoteInv, Backed
  <2>3. n \in 0 .. Len(votes) /\ early \in 0 .. n
    BY <2>1
  <2>4. outcome = "rejected"
    BY <2>1, <2>2, <2>3, VetoTallied
  <2> QED BY <2>4
<1> QED BY <1>1, VoteInvariant, PTL

-----------------------------------------------------------------------------
(* Control: the authority in force was agreed on.  A call carries rows and
   transfers across other calls' steps, so the invariant speaks of what every
   call holds: a row about to be written is well formed and agreed on too, and
   a transfer about to be decided is one of the file's lines.*)

AllThreads == ControlThread \cup OtherThread

RowOK(row) == row \in Authority \cup {NoAuthority}

\* What a call holds fits what it will do with it.
CallShape(t) ==
    /\ Stage(t, "propose") => /\ busy[t].row \in Authority
                              /\ busy[t].new \in Person /\ busy[t].sale \in BOOLEAN
    /\ \A verb \in {"cancel", "decline", "accept"} : Stage(t, verb) =>
           \E i \in DOMAIN transfers : busy[t].transfer = transfers[i]
    /\ Stage(t, "accept") => busy[t].by = busy[t].transfer.new
    /\ \A pc \in {"empty", "fill"} : Stage(t, pc) =>
           RowOK(busy[t].row) /\ busy[t].line \in Transfer \cup {NoLine}
    /\ Stage(t, "append") => busy[t].line \in Transfer

Shape ==
    /\ RowOK(authority)
    /\ transfers \in Seq(Transfer)
    /\ named \in 0 .. MaxTransfers
    /\ DOMAIN busy = AllThreads
    /\ \A t \in AllThreads : CallShape(t)

\* A row some call is going to write, or to build another from, is agreed on.
HeldAgreed(t) ==
    \A pc \in {"propose", "empty", "fill"} : Stage(t, pc) => Agreed(busy[t].row)

\* The inductive invariant.
ControlInv == Shape /\ AuthorityAgreed /\ \A t \in AllThreads : HeldAgreed(t)

-----------------------------------------------------------------------------
\* What every action does to the lines: none, or one more.
Grows ==
    \/ transfers' = transfers
    \/ \E line \in Transfer : transfers' = Append(transfers, line)

LEMMA LinesKept ==
    ASSUME Shape, Grows
    PROVE  /\ transfers' \in Seq(Transfer)
           /\ \A i \in DOMAIN transfers : i \in DOMAIN transfers' /\ transfers'[i] = transfers[i]
<1>1. transfers \in Seq(Transfer)
    BY DEF Shape
<1> QED
    BY <1>1 DEF Grows

\* A thread's move leaves the other calls as they are.
LEMMA Moves ==
    ASSUME Shape, Grows, NEW t \in AllThreads, NEW c, Turns(t, c)
    PROVE  /\ busy'[t] = c /\ DOMAIN busy' = AllThreads
           /\ \A u \in AllThreads \ {t} : busy'[u] = busy[u] /\ CallShape(u)'
<1>1. busy'[t] = c /\ DOMAIN busy' = AllThreads /\ \A u \in AllThreads \ {t} : busy'[u] = busy[u]
    BY DEF Shape, Turns
<1>2. ASSUME NEW u \in AllThreads \ {t} PROVE CallShape(u)'
  <2>1. CallShape(u) /\ busy'[u] = busy[u]
      BY <1>1 DEF Shape
  <2> QED
      BY <2>1, LinesKept DEF CallShape, Stage, Still, RowOK, Authority
<1> QED
    BY <1>1, <1>2

\* The moved thread's own call, by what it holds next.
LEMMA Ends ==
    ASSUME NEW t, busy'[t] = ControlIdle
    PROVE  CallShape(t)' /\ HeldAgreed(t)'
    BY DEF CallShape, HeldAgreed, Stage, Still

LEMMA Saves ==
    ASSUME NEW t, NEW row, NEW line, busy'[t] = Saving(row, line),
           RowOK(row), line \in Transfer \cup {NoLine}
    PROVE  CallShape(t)'
<1>1. busy'[t].pc = "empty" /\ busy'[t].row = row /\ busy'[t].line = line
    BY DEF Saving
<1> QED
    BY <1>1 DEF CallShape, Stage, RowOK, Authority

-----------------------------------------------------------------------------
(* The shape of what the file, the lines and the calls hold. *)

LEMMA ShapeKept ==
    ASSUME Shape, Grows, named' \in 0 .. MaxTransfers, RowOK(authority)',
           NEW t \in AllThreads, NEW c, Turns(t, c), CallShape(t)'
    PROVE  Shape'
<1>1. transfers' \in Seq(Transfer)
    BY LinesKept
<1>2. DOMAIN busy' = AllThreads
    BY Moves
<1>3. ASSUME NEW u \in AllThreads PROVE CallShape(u)'
    BY Moves
<1> QED
    BY <1>1, <1>2, <1>3 DEF Shape, AllThreads

LEMMA FounderRowOK == FounderRow \in Authority
    BY ControlAssumption DEF FounderRow, Authority

\* A decision's line is a transfer.
LEMMA DecidedLine ==
    ASSUME Shape, NEW t \in AllThreads, NEW verb \in {"cancel", "decline", "accept"},
           Stage(t, verb), NEW status \in {"cancelled", "declined", "finalized"}
    PROVE  busy[t].transfer \in Transfer /\ Decided(t, status) \in Transfer
<1>1. PICK i \in DOMAIN transfers : busy[t].transfer = transfers[i]
    BY DEF Shape, CallShape
<1>2. transfers[i] \in Transfer
    BY DEF Shape
<1> QED
    BY <1>1, <1>2 DEF Decided, Transfer

LEMMA ShapeStep ==
    ASSUME Shape, [ControlNext]_controlVars
    PROVE  Shape'
<1> USE DEF AllThreads
<1>0. RowOK(authority) /\ transfers \in Seq(Transfer) /\ named \in 0 .. MaxTransfers
    BY DEF Shape
<1>1. ASSUME NEW t \in ControlThread, InitializeAuthority(t) PROVE Shape'
  <2>1. CallShape(t)'
      BY <1>1, Moves, Saves, FounderRowOK DEF InitializeAuthority, Grows, RowOK
  <2> QED
      BY <1>0, <1>1, <2>1, ShapeKept DEF InitializeAuthority, Grows, RowOK, Authority
<1>2. ASSUME NEW t \in OtherThread, SaveOther(t) PROVE Shape'
  <2>1. CallShape(t)'
      BY <1>0, <1>2, Moves, Saves DEF SaveOther, Grows
  <2> QED
      BY <1>0, <1>2, <2>1, ShapeKept DEF SaveOther, Grows, RowOK, Authority
<1>3. ASSUME NEW t \in ControlThread, NEW p \in Person, NEW new \in Person, NEW sale \in BOOLEAN,
             ProposeTransfer(t, p, new, sale)
      PROVE  Shape'
  <2>1. busy'[t] = [pc |-> "propose", row |-> authority, new |-> new, sale |-> sale]
      BY <1>3, Moves DEF ProposeTransfer, Grows
  <2>2. CallShape(t)'
      BY <1>0, <1>3, <2>1 DEF ProposeTransfer, CallShape, Stage, RowOK, Authority
  <2> QED
      BY <1>0, <1>3, <2>2, ShapeKept DEF ProposeTransfer, Grows, RowOK, Authority
<1>4. ASSUME NEW t \in ControlThread, CheckPending(t) PROVE Shape'
  <2> DEFINE row == busy[t].row
             saved == [row EXCEPT !.pending = named + 1]
             line == [id |-> named + 1, old |-> row.controller, new |-> busy[t].new,
                      sale |-> busy[t].sale, status |-> "proposed"]
  <2>1. row \in Authority /\ busy[t].new \in Person /\ busy[t].sale \in BOOLEAN
      BY <1>4 DEF CheckPending, Shape, CallShape
  <2>2. named + 1 \in 1 .. MaxTransfers /\ named' \in 0 .. MaxTransfers
      BY <1>0, <1>4, ControlAssumption DEF CheckPending
  <2>3. saved \in Authority /\ line \in Transfer
      BY <2>1, <2>2 DEF Authority, Transfer
  <2>4. Turns(t, Saving(saved, line)) /\ Grows
      BY <1>4 DEF CheckPending, Grows
  <2>5. CallShape(t)'
      BY <2>3, <2>4, Moves, Saves DEF RowOK
  <2> QED
      BY <1>0, <1>4, <2>2, <2>4, <2>5, ShapeKept DEF CheckPending, RowOK, Authority
<1>5. ASSUME NEW t \in ControlThread, NEW i \in DOMAIN transfers, NEW p \in Person,
             OpenTransfer(t, i, p)
      PROVE  Shape'
  <2>1. Grows /\ named' = named /\ authority' = authority /\ transfers' = transfers
      BY <1>5 DEF OpenTransfer, Grows
  <2>2. CASE Turns(t, [pc |-> "cancel", transfer |-> transfers[i]])
    <3>1. busy'[t] = [pc |-> "cancel", transfer |-> transfers[i]]
        BY <2>1, <2>2, Moves
    <3>2. CallShape(t)'
        BY <2>1, <3>1 DEF CallShape, Stage
    <3> QED
        BY <1>0, <2>1, <2>2, <3>2, ShapeKept DEF RowOK, Authority
  <2>3. ASSUME NEW verb \in {"decline", "accept"}, p = transfers[i].new,
               Turns(t, [pc |-> verb, by |-> p, transfer |-> transfers[i]])
        PROVE  Shape'
    <3>1. busy'[t] = [pc |-> verb, by |-> p, transfer |-> transfers[i]]
        BY <2>1, <2>3, Moves
    <3>2. CallShape(t)'
        BY <2>1, <2>3, <3>1 DEF CallShape, Stage
    <3> QED
        BY <1>0, <2>1, <2>3, <3>2, ShapeKept DEF RowOK, Authority
  <2> QED
      BY <1>5, <2>2, <2>3 DEF OpenTransfer
<1>6. ASSUME NEW t \in ControlThread, CancelTransfer(t) PROVE Shape'
  <2>1. [authority EXCEPT !.pending = 0] \in Authority
      BY <1>0, <1>6, ControlAssumption DEF CancelTransfer, RowOK, Authority
  <2>2. Decided(t, "cancelled") \in Transfer
      BY <1>6, DecidedLine DEF CancelTransfer
  <2>3. CallShape(t)'
      BY <1>6, <2>1, <2>2, Moves, Saves DEF CancelTransfer, Grows, RowOK
  <2> QED
      BY <1>0, <1>6, <2>3, ShapeKept DEF CancelTransfer, Grows, RowOK, Authority
<1>7. ASSUME NEW t \in ControlThread, DeclineTransfer(t) PROVE Shape'
  <2> DEFINE line == Decided(t, "declined")
  <2>1. line \in Transfer
      BY <1>7, DecidedLine DEF DeclineTransfer
  <2>2. Grows /\ named' = named /\ authority' = authority
      BY <1>7 DEF DeclineTransfer, Grows
  <2>3. CASE authority = NoAuthority
    <3>1. Turns(t, [pc |-> "append", line |-> line])
        BY <1>7, <2>3 DEF DeclineTransfer
    <3>2. busy'[t] = [pc |-> "append", line |-> line]
        BY <2>2, <3>1, Moves
    <3>3. CallShape(t)'
        BY <2>1, <3>2 DEF CallShape, Stage, Transfer
    <3> QED
        BY <1>0, <2>2, <3>1, <3>3, ShapeKept DEF RowOK, Authority
  <2>4. CASE authority # NoAuthority
    <3>1. [authority EXCEPT !.pending = 0] \in Authority
        BY <1>0, <2>4, ControlAssumption DEF RowOK, Authority
    <3>2. Turns(t, Saving([authority EXCEPT !.pending = 0], line))
        BY <1>7, <2>4 DEF DeclineTransfer
    <3>3. CallShape(t)'
        BY <2>1, <2>2, <3>1, <3>2, Moves, Saves DEF RowOK
    <3> QED
        BY <1>0, <2>2, <3>2, <3>3, ShapeKept DEF RowOK, Authority
  <2> QED
      BY <2>3, <2>4
<1>8. ASSUME NEW t \in ControlThread, AcceptTransfer(t) PROVE Shape'
  <2> DEFINE x == busy[t].transfer
             row == [controller |-> x.new, owner |-> IF x.sale THEN x.new ELSE authority.owner,
                     pending |-> 0]
  <2>1. x \in Transfer /\ Decided(t, "finalized") \in Transfer
      BY <1>8, DecidedLine DEF AcceptTransfer
  <2>2. row \in Authority
      BY <1>0, <1>8, <2>1, ControlAssumption DEF AcceptTransfer, RowOK, Authority, Transfer
  <2>3. Turns(t, Saving(row, Decided(t, "finalized"))) /\ Grows
      BY <1>8 DEF AcceptTransfer, Grows
  <2>4. CallShape(t)'
      BY <2>1, <2>2, <2>3, Moves, Saves DEF RowOK
  <2> QED
      BY <1>0, <1>8, <2>3, <2>4, ShapeKept DEF AcceptTransfer, RowOK, Authority
<1>9. ASSUME NEW t \in AllThreads, EmptyFile(t) PROVE Shape'
  <2>1. busy'[t] = [pc |-> "fill", row |-> busy[t].row, line |-> busy[t].line] /\ Grows
      BY <1>9, Moves DEF EmptyFile, Grows
  <2>2. CallShape(t)'
      BY <1>9, <2>1 DEF EmptyFile, Shape, CallShape, Stage, RowOK, Transfer, Authority
  <2> QED
      BY <1>0, <1>9, <2>1, <2>2, ShapeKept DEF EmptyFile, RowOK
<1>10. ASSUME NEW t \in AllThreads, FillFile(t) PROVE Shape'
  <2>1. RowOK(busy[t].row) /\ busy[t].line \in Transfer \cup {NoLine} /\ Grows
      BY <1>10 DEF FillFile, Shape, CallShape, Grows
  <2> DEFINE next == IF busy[t].line = NoLine THEN ControlIdle
                     ELSE [pc |-> "append", line |-> busy[t].line]
  <2>2. Turns(t, next) /\ authority' = busy[t].row /\ named' = named
      BY <1>10 DEF FillFile
  <2>3. busy'[t] = next
      BY <2>1, <2>2, Moves
  <2>4. CallShape(t)'
    <3>1. CASE busy[t].line = NoLine
        BY <2>3, <3>1, Ends
    <3>2. CASE busy[t].line # NoLine
        BY <2>1, <2>3, <3>2 DEF CallShape, Stage, Transfer
    <3> QED
        BY <3>1, <3>2
  <2> QED
      BY <1>0, <2>1, <2>2, <2>4, ShapeKept DEF RowOK, Authority
<1>11. ASSUME NEW t \in ControlThread, AppendTransfer(t) PROVE Shape'
  <2>1. busy[t].line \in Transfer /\ Grows
      BY <1>11 DEF AppendTransfer, Shape, CallShape, Grows
  <2>2. CallShape(t)'
      BY <1>11, <2>1, Moves, Ends DEF AppendTransfer
  <2> QED
      BY <1>0, <1>11, <2>1, <2>2, ShapeKept DEF AppendTransfer, RowOK, Authority
<1>12. ASSUME NEW t \in ControlThread, RefuseCall(t) PROVE Shape'
  <2>1. CallShape(t)'
      BY <1>12, Moves, Ends DEF RefuseCall, Grows
  <2> QED
      BY <1>0, <1>12, <2>1, ShapeKept DEF RefuseCall, Grows, RowOK, Authority
<1>13. CASE KillNode
  <2>1. \A t \in AllThreads : busy'[t] = ControlIdle
      BY <1>13 DEF KillNode
  <2> QED
      BY <1>0, <1>13, <2>1, Ends DEF KillNode, Shape, RowOK, Authority
<1>14. CASE UNCHANGED controlVars
    BY <1>14 DEF controlVars, Shape, CallShape, Stage, Still, RowOK, Authority
<1> QED
    BY <1>1, <1>2, <1>3, <1>4, <1>5, <1>6, <1>7, <1>8, <1>9, <1>10, <1>11, <1>12, <1>13, <1>14
    DEF ControlNext

-----------------------------------------------------------------------------
(* What is agreed on. *)

\* More lines and more acceptances leave fewer closed sets: what was agreed on
\* stays so.
LEMMA ClosedBefore ==
    ASSUME Shape, Grows, accepted \subseteq accepted', NEW S, ClosedUnderTransfers(S)'
    PROVE  ClosedUnderTransfers(S)
<1>1. \A i \in DOMAIN transfers : i \in DOMAIN transfers' /\ transfers'[i] = transfers[i]
    BY LinesKept
<1>2. ASSUME NEW i \in DOMAIN transfers, NEW owner \in Person,
             Consented(transfers[i]), <<transfers[i].old, owner>> \in S
      PROVE  <<transfers[i].new, IF transfers[i].sale THEN transfers[i].new ELSE owner>> \in S
  <2>1. i \in DOMAIN transfers' /\ transfers'[i] = transfers[i] /\ Consented(transfers[i])'
      BY <1>1, <1>2 DEF Consented
  <2> QED
      BY <1>2, <2>1 DEF ClosedUnderTransfers
<1> QED
    BY <1>2 DEF ClosedUnderTransfers

\* A row is agreed on after the step.
AgreedNext(row) ==
    row # NoAuthority =>
        \A S \in SUBSET ((Person \X Person) \ {<<row.controller, row.owner>>}) :
            ~ClosedUnderTransfers(S)'

LEMMA AgreedKept ==
    ASSUME Shape, Grows, accepted \subseteq accepted', NEW row, Agreed(row)
    PROVE  AgreedNext(row)
    BY ClosedBefore DEF Agreed, AgreedNext

LEMMA HeldKept ==
    ASSUME Shape, Grows, accepted \subseteq accepted', NEW u, HeldAgreed(u), busy'[u] = busy[u]
    PROVE  HeldAgreed(u)'
<1>1. ASSUME NEW pc \in {"propose", "empty", "fill"}, Stage(u, pc)' PROVE AgreedNext(busy[u].row)
  <2>1. Stage(u, pc)
      BY <1>1 DEF Stage, Still
  <2> QED
      BY <2>1, AgreedKept DEF HeldAgreed
<1> QED
    BY <1>1 DEF HeldAgreed, Agreed, AgreedNext

\* The call that moves holds an agreed row, or none.
LEMMA HeldNext ==
    ASSUME NEW t, \A pc \in {"propose", "empty", "fill"} : Stage(t, pc)' => AgreedNext(busy'[t].row)
    PROVE  HeldAgreed(t)'
    BY DEF HeldAgreed, Agreed, AgreedNext

LEMMA AgreementKept ==
    ASSUME ControlInv, Grows, accepted \subseteq accepted', NEW t \in AllThreads, NEW c,
           Turns(t, c), AgreedNext(authority'), HeldAgreed(t)'
    PROVE  AuthorityAgreed' /\ \A u \in AllThreads : HeldAgreed(u)'
<1>1. ASSUME NEW u \in AllThreads PROVE HeldAgreed(u)'
  <2>1. CASE u = t
      BY <2>1
  <2>2. CASE u # t
    <3>1. busy'[u] = busy[u]
        BY <2>2, Moves DEF ControlInv
    <3> QED
        BY <3>1, HeldKept DEF ControlInv
  <2> QED
      BY <2>1, <2>2
<1> QED
    BY <1>1 DEF AuthorityAgreed, Agreed, AgreedNext

\* The same, for a step that leaves the file as it is.
LEMMA FileUntouched ==
    ASSUME ControlInv, Grows, accepted \subseteq accepted', authority' = authority,
           NEW t \in AllThreads, NEW c, Turns(t, c),
           \A pc \in {"propose", "empty", "fill"} : Stage(t, pc)' => AgreedNext(busy'[t].row)
    PROVE  AuthorityAgreed' /\ \A u \in AllThreads : HeldAgreed(u)'
<1>1. AgreedNext(authority')
    BY AgreedKept DEF ControlInv, AuthorityAgreed
<1>2. HeldAgreed(t)'
    BY HeldNext
<1> QED
    BY <1>1, <1>2, AgreementKept

LEMMA FounderAgreed == AgreedNext(FounderRow)
    BY DEF AgreedNext, ClosedUnderTransfers, FounderRow

\* Accepting a transfer from an agreed pair, by the person it names and with
\* its proposer still in control, leads to an agreed pair.
LEMMA AcceptAgreed ==
    ASSUME ControlInv, NEW t \in ControlThread, AcceptTransfer(t)
    PROVE  LET x == busy[t].transfer
               row == [controller |-> x.new, owner |-> IF x.sale THEN x.new ELSE authority.owner,
                       pending |-> 0]
           IN  AgreedNext(row)
<1> DEFINE x == busy[t].transfer
           heir == IF x.sale THEN x.new ELSE authority.owner
           row == [controller |-> x.new, owner |-> heir, pending |-> 0]
<1>1. Stage(t, "accept") /\ authority # NoAuthority /\ authority.controller = x.old
    BY DEF AcceptTransfer
<1>2. CallShape(t) /\ Shape /\ Grows /\ accepted \subseteq accepted'
    BY DEF ControlInv, Shape, AllThreads, AcceptTransfer, Grows
<1>3. PICK i \in DOMAIN transfers : x = transfers[i]
    BY <1>1, <1>2 DEF CallShape
<1>4. i \in DOMAIN transfers' /\ transfers'[i] = x
    BY <1>3 DEF AcceptTransfer
<1>5. Consented(transfers[i])'
    BY <1>1, <1>2, <1>3, <1>4 DEF CallShape, AcceptTransfer, Consented
<1>6. authority.owner \in Person
    BY <1>1, <1>2 DEF Shape, RowOK, Authority
<1>7. ASSUME NEW S \in SUBSET ((Person \X Person) \ {<<x.new, heir>>}), ClosedUnderTransfers(S)'
      PROVE  FALSE
  <2>1. <<x.old, authority.owner>> \in S
    <3>1. AgreedNext(authority)
        BY <1>2, AgreedKept DEF ControlInv, AuthorityAgreed
    <3> QED
        BY <1>1, <1>7, <3>1 DEF AgreedNext
  <2>2. <<x.new, heir>> \in S
      BY <1>4, <1>5, <1>6, <1>7, <2>1 DEF ClosedUnderTransfers
  <2> QED
      BY <1>7, <2>2
<1> QED
    BY <1>7 DEF AgreedNext

LEMMA AgreementStep ==
    ASSUME ControlInv, [ControlNext]_controlVars
    PROVE  AuthorityAgreed' /\ \A t \in AllThreads : HeldAgreed(t)'
<1> DEFINE Goal == AuthorityAgreed' /\ \A t \in AllThreads : HeldAgreed(t)'
<1> USE DEF AllThreads
<1>0. Shape /\ RowOK(authority) /\ Agreed(authority)
    BY DEF ControlInv, Shape, AuthorityAgreed
<1>1. ASSUME NEW t \in ControlThread, InitializeAuthority(t) PROVE Goal
  <2>1. Grows /\ Turns(t, Saving(FounderRow, NoLine))
      BY <1>1 DEF InitializeAuthority, Grows
  <2>2. busy'[t].row = FounderRow
      BY <1>0, <2>1, Moves DEF Saving
  <2> QED
      BY <1>1, <2>1, <2>2, FounderAgreed, FileUntouched DEF InitializeAuthority
<1>2. ASSUME NEW t \in OtherThread, SaveOther(t) PROVE Goal
  <2>1. Grows /\ Turns(t, Saving(authority, NoLine))
      BY <1>2 DEF SaveOther, Grows
  <2>2. busy'[t].row = authority
      BY <1>0, <2>1, Moves DEF Saving
  <2>3. AgreedNext(authority)
      BY <1>0, <1>2, <2>1, AgreedKept DEF SaveOther
  <2> QED
      BY <1>2, <2>1, <2>2, <2>3, FileUntouched DEF SaveOther
<1>3. ASSUME NEW t \in ControlThread, NEW p \in Person, NEW new \in Person, NEW sale \in BOOLEAN,
             ProposeTransfer(t, p, new, sale)
      PROVE  Goal
  <2> DEFINE next == [pc |-> "propose", row |-> authority, new |-> new, sale |-> sale]
  <2>1. Grows /\ Turns(t, next)
      BY <1>3 DEF ProposeTransfer, Grows
  <2>2. busy'[t].row = authority
      BY <1>0, <2>1, Moves
  <2>3. AgreedNext(authority)
      BY <1>0, <1>3, <2>1, AgreedKept DEF ProposeTransfer
  <2> HIDE DEF next
  <2> QED
      BY <1>3, <2>1, <2>2, <2>3, FileUntouched DEF ProposeTransfer
<1>4. ASSUME NEW t \in ControlThread, CheckPending(t) PROVE Goal
  <2> DEFINE row == busy[t].row
             saved == [row EXCEPT !.pending = named + 1]
             line == [id |-> named + 1, old |-> row.controller, new |-> busy[t].new,
                      sale |-> busy[t].sale, status |-> "proposed"]
  <2>1. Grows /\ Turns(t, Saving(saved, line)) /\ Stage(t, "propose")
      BY <1>4 DEF CheckPending, Grows
  <2>2. busy'[t].row = saved
      BY <1>0, <2>1, Moves DEF Saving
  <2>3. row \in Authority /\ Agreed(row)
      BY <2>1 DEF ControlInv, Shape, CallShape, HeldAgreed
  <2>4. AgreedNext(row) /\ row # NoAuthority
    <3>1. AgreedNext(row)
        BY <1>0, <1>4, <2>1, <2>3, AgreedKept DEF CheckPending
    <3> QED
        BY <2>3, <3>1, ControlAssumption
  <2>5. saved.controller = row.controller /\ saved.owner = row.owner
      BY <2>3 DEF Authority
  <2>6. AgreedNext(busy'[t].row)
      BY <2>2, <2>4, <2>5 DEF AgreedNext
  <2> QED
      BY <1>4, <2>1, <2>6, FileUntouched DEF CheckPending
<1>5. ASSUME NEW t \in ControlThread, NEW i \in DOMAIN transfers, NEW p \in Person,
             OpenTransfer(t, i, p)
      PROVE  Goal
  <2>1. PICK next : /\ Turns(t, next)
                    /\ next.pc \in {"cancel", "decline", "accept"}
      BY <1>5 DEF OpenTransfer
  <2>2. Grows /\ authority' = authority /\ accepted' = accepted
      BY <1>5 DEF OpenTransfer, Grows
  <2>3. \A pc \in {"propose", "empty", "fill"} : ~Stage(t, pc)'
      BY <1>0, <2>1, <2>2, Moves DEF Stage
  <2> QED
      BY <2>1, <2>2, <2>3, FileUntouched
<1>6. ASSUME NEW t \in ControlThread, CancelTransfer(t) PROVE Goal
  <2> DEFINE saved == [authority EXCEPT !.pending = 0]
  <2>1. Grows /\ Turns(t, Saving(saved, Decided(t, "cancelled")))
      BY <1>6 DEF CancelTransfer, Grows
  <2>2. busy'[t].row = saved
      BY <1>0, <2>1, Moves DEF Saving
  <2>3. AgreedNext(authority) /\ authority \in Authority /\ authority # NoAuthority
      BY <1>0, <1>6, <2>1, AgreedKept DEF CancelTransfer, RowOK
  <2>4. saved.controller = authority.controller /\ saved.owner = authority.owner
      BY <2>3 DEF Authority
  <2>5. AgreedNext(busy'[t].row)
      BY <2>2, <2>3, <2>4 DEF AgreedNext
  <2> QED
      BY <1>6, <2>1, <2>5, FileUntouched DEF CancelTransfer
<1>7. ASSUME NEW t \in ControlThread, DeclineTransfer(t) PROVE Goal
  <2> DEFINE saved == [authority EXCEPT !.pending = 0]
             line == Decided(t, "declined")
  <2>1. Grows /\ authority' = authority /\ accepted' = accepted
      BY <1>7 DEF DeclineTransfer, Grows
  <2>2. CASE authority = NoAuthority
    <3>1. Turns(t, [pc |-> "append", line |-> line])
        BY <1>7, <2>2 DEF DeclineTransfer
    <3>2. \A pc \in {"propose", "empty", "fill"} : ~Stage(t, pc)'
        BY <1>0, <2>1, <3>1, Moves DEF Stage
    <3> QED
        BY <2>1, <3>1, <3>2, FileUntouched
  <2>3. CASE authority # NoAuthority
    <3>1. Turns(t, Saving(saved, line))
        BY <1>7, <2>3 DEF DeclineTransfer
    <3>2. busy'[t].row = saved
        BY <1>0, <2>1, <3>1, Moves DEF Saving
    <3>3. AgreedNext(authority) /\ authority \in Authority
        BY <1>0, <2>1, <2>3, AgreedKept DEF RowOK
    <3>4. saved.controller = authority.controller /\ saved.owner = authority.owner
        BY <3>3 DEF Authority
    <3>5. AgreedNext(busy'[t].row)
        BY <2>3, <3>2, <3>3, <3>4 DEF AgreedNext
    <3> QED
        BY <2>1, <3>1, <3>5, FileUntouched
  <2> QED
      BY <2>2, <2>3
<1>8. ASSUME NEW t \in ControlThread, AcceptTransfer(t) PROVE Goal
  <2> DEFINE x == busy[t].transfer
             row == [controller |-> x.new, owner |-> IF x.sale THEN x.new ELSE authority.owner,
                     pending |-> 0]
  <2>1. Grows /\ Turns(t, Saving(row, Decided(t, "finalized"))) /\ accepted \subseteq accepted'
      BY <1>8 DEF AcceptTransfer, Grows
  <2>2. busy'[t].row = row
      BY <1>0, <2>1, Moves DEF Saving
  <2>3. AgreedNext(row)
      BY <1>8, AcceptAgreed
  <2> QED
      BY <1>8, <2>1, <2>2, <2>3, FileUntouched DEF AcceptTransfer
<1>9. ASSUME NEW t \in AllThreads, EmptyFile(t) PROVE Goal
  <2>1. /\ Grows /\ Stage(t, "empty")
        /\ Turns(t, [pc |-> "fill", row |-> busy[t].row, line |-> busy[t].line])
        /\ accepted \subseteq accepted'
      BY <1>9 DEF EmptyFile, Grows
  <2>2. AgreedNext(authority')
      BY <1>9 DEF EmptyFile, AgreedNext
  <2>3. busy'[t].row = busy[t].row
      BY <1>0, <2>1, Moves
  <2>4. AgreedNext(busy[t].row)
      BY <1>0, <2>1, AgreedKept DEF ControlInv, HeldAgreed
  <2>5. HeldAgreed(t)'
      BY <2>3, <2>4, HeldNext
  <2> QED
      BY <2>1, <2>2, <2>5, AgreementKept
<1>10. ASSUME NEW t \in AllThreads, FillFile(t) PROVE Goal
  <2>1. PICK next : Turns(t, next) /\ (next = ControlIdle \/ next.pc = "append")
      BY <1>10 DEF FillFile
  <2>2. Grows /\ accepted \subseteq accepted' /\ Stage(t, "fill") /\ authority' = busy[t].row
      BY <1>10 DEF FillFile, Grows
  <2>3. AgreedNext(authority')
      BY <1>0, <2>2, AgreedKept DEF ControlInv, HeldAgreed
  <2>4. HeldAgreed(t)'
      BY <1>0, <2>1, <2>2, Moves DEF HeldAgreed, Stage, Still
  <2> QED
      BY <2>1, <2>2, <2>3, <2>4, AgreementKept
<1>11. ASSUME NEW t \in ControlThread, AppendTransfer(t) \/ RefuseCall(t) PROVE Goal
  <2>1. AppendTransfer(t) => busy[t].line \in Transfer
      BY DEF AppendTransfer, ControlInv, Shape, CallShape
  <2>2. Grows /\ Turns(t, ControlIdle) /\ authority' = authority /\ accepted \subseteq accepted'
      BY <1>11, <2>1 DEF AppendTransfer, RefuseCall, Grows
  <2>3. \A pc \in {"propose", "empty", "fill"} : ~Stage(t, pc)'
      BY <1>0, <2>2, Moves DEF Stage, Still
  <2> QED
      BY <2>2, <2>3, FileUntouched
<1>12. CASE KillNode
  <2>1. AuthorityAgreed'
      BY <1>0, <1>12 DEF KillNode, AuthorityAgreed, Agreed, ClosedUnderTransfers, Consented
  <2>2. \A t \in AllThreads : busy'[t] = ControlIdle
      BY <1>12 DEF KillNode
  <2> QED
      BY <2>1, <2>2, Ends
<1>13. CASE UNCHANGED controlVars
    BY <1>13 DEF controlVars, ControlInv, AuthorityAgreed, HeldAgreed, Agreed,
                 ClosedUnderTransfers, Consented, Stage, Still
<1> QED
    BY <1>1, <1>2, <1>3, <1>4, <1>5, <1>6, <1>7, <1>8, <1>9, <1>10, <1>11, <1>12, <1>13
    DEF ControlNext

-----------------------------------------------------------------------------
\* Initially no authority is in force and no call is served.
LEMMA ControlStart == ControlInit => ControlInv
<1> SUFFICES ASSUME ControlInit PROVE ControlInv
    OBVIOUS
<1>1. \A t \in AllThreads : CallShape(t) /\ HeldAgreed(t)
    BY DEF ControlInit, AllThreads, CallShape, HeldAgreed, Stage, Still
<1>2. Shape
    BY <1>1, ControlAssumption DEF ControlInit, Shape, RowOK, AllThreads
<1> QED
    BY <1>1, <1>2 DEF ControlInv, ControlInit, AuthorityAgreed, Agreed

\* What governance.json and the calls hold keeps its shape, and is agreed on.
THEOREM ControlInvariant == ControlSpec => []ControlInv
<1>1. ControlInv /\ [ControlNext]_controlVars => ControlInv'
  <2> SUFFICES ASSUME ControlInv, [ControlNext]_controlVars PROVE ControlInv'
      OBVIOUS
  <2>1. Shape'
      BY ShapeStep DEF ControlInv
  <2> QED
      BY <2>1, AgreementStep DEF ControlInv, AllThreads
<1> QED
    BY <1>1, ControlStart, PTL DEF ControlSpec

\* For any people, threads, overlaps of their calls, crashes and number of
\* transfers, the controller and the legal owner in force are a pair that
\* accepted transfers lead to from the founder (accept_transfer and the
\* rewriting of governance.json).
THEOREM AuthorityIsAgreed == ControlSpec => []AuthorityAgreed
<1>1. ControlInv => AuthorityAgreed
    BY DEF ControlInv
<1> QED
    BY <1>1, ControlInvariant, PTL

\* The lines keep within their bound, and every acceptance is of a transfer, by
\* a person.
ControlBounded ==
    /\ Len(transfers) <= MaxLines
    /\ accepted \subseteq [id: 1 .. MaxTransfers, by: Person]

LEMMA BoundedStep ==
    ASSUME Shape, ControlBounded, [ControlNext]_controlVars
    PROVE  ControlBounded'
<1>1. ASSUME NEW t \in ControlThread, AcceptTransfer(t) PROVE ControlBounded'
  <2>1. busy[t].transfer \in Transfer /\ busy[t].by = busy[t].transfer.new
      BY <1>1, DecidedLine DEF AcceptTransfer, AllThreads, Shape, CallShape
  <2>2. [id |-> busy[t].transfer.id, by |-> busy[t].by] \in [id: 1 .. MaxTransfers, by: Person]
      BY <2>1 DEF Transfer
  <2> QED
      BY <1>1, <2>2 DEF AcceptTransfer, ControlBounded
<1>2. ASSUME NEW t \in ControlThread, AppendTransfer(t) PROVE ControlBounded'
  <2>1. /\ transfers \in Seq(Transfer) /\ transfers' = Append(transfers, busy[t].line)
        /\ Len(transfers) < MaxLines /\ accepted' = accepted
      BY <1>2 DEF AppendTransfer, Shape
  <2>2. Len(transfers') = Len(transfers) + 1
      BY <2>1
  <2> QED
      BY <2>1, <2>2, ControlAssumption DEF ControlBounded
<1>3. CASE UNCHANGED <<transfers, accepted>>
    BY <1>3 DEF ControlBounded
<1> QED
    BY <1>1, <1>2, <1>3 DEF ControlNext, controlVars, InitializeAuthority, SaveOther,
       ProposeTransfer, CheckPending, OpenTransfer, CancelTransfer, DeclineTransfer, EmptyFile,
       FillFile, RefuseCall, KillNode

\* The two files keep their types and their bounds (GovernanceStore).
THEOREM ControlTyped == ControlSpec => []ControlTypeOK
<1>1. ControlInit => ControlBounded
    BY ControlAssumption DEF ControlInit, ControlBounded
<1>2. ControlInv /\ ControlBounded /\ [ControlNext]_controlVars => ControlBounded'
    BY BoundedStep DEF ControlInv
<1>3. ControlInv /\ ControlBounded => ControlTypeOK
    BY DEF ControlInv, Shape, ControlBounded, ControlTypeOK, RowOK, AllThreads
<1> QED
    BY <1>1, <1>2, <1>3, ControlInvariant, PTL DEF ControlSpec
=============================================================================
