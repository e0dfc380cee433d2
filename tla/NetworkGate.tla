---------------------------- MODULE NetworkGate -----------------------------
(***************************************************************************)
(* How a node judges its own network (NetworkEligibilityGate and           *)
(* classify_network_state in src/artcb/network/eligibility_gate.py): a     *)
(* grace before a node without a way in is suspended, and an anti-flap     *)
(* count before a suspended node is trusted again.                         *)
(*                                                                         *)
(* What the sockets find is an input of each assessment: a way out, a      *)
(* relay, a public address on which the port listens.  Proofs of           *)
(* reachability come from other nodes, between assessments.  Time passes   *)
(* in units of which the grace holds Grace; it is not counted past it.     *)
(***************************************************************************)
EXTENDS Naturals

CONSTANTS
    Grace,       \* DEGRADED_GRACE_S
    MinStreak,   \* MIN_PASS_STREAK
    Never        \* no time is running

ASSUME NetworkAssumption == Grace \in Nat /\ MinStreak \in Nat \ {0} /\ Never \notin Nat

NetworkState ==
    {"UNKNOWN", "DIRECT", "RELAYABLE", "DEGRADED", "SUSPENDED", "INDETERMINATE"}
Usable == {"DIRECT", "RELAYABLE"}

VARIABLES
    netState,   \* _current_state
    reason,     \* why: "measured", "cut" (no way out), "grace" or "flap"
    streak,     \* _pass_streak
    degraded,   \* time since _degraded_since_ts_ns, or Never
    probes,     \* proofs received: [seen, ok]
    lacking     \* time since the assessments began to find no way in (history)

netVars == <<netState, reason, streak, degraded, probes, lacking>>

NetInit ==
    /\ netState = "UNKNOWN" /\ reason = "measured"
    /\ streak = 0 /\ degraded = Never /\ lacking = Never
    /\ probes = [seen |-> FALSE, ok |-> FALSE]

-----------------------------------------------------------------------------
Later(time) == IF time = Never \/ time = Grace THEN time ELSE time + 1

TimePasses ==
    /\ degraded' = Later(degraded) /\ lacking' = Later(lacking)
    /\ UNCHANGED <<netState, reason, streak, probes>>

\* record_external_probe: a success counts for good.
RecordProbe(success) ==
    /\ probes' = [seen |-> TRUE, ok |-> probes.ok \/ success]
    /\ UNCHANGED <<netState, reason, streak, degraded, lacking>>

\* classify_network_state, with the time the node has been DEGRADED.
Classify(out, relay, listens, proofs, since) ==
    IF ~out THEN "SUSPENDED"
    ELSE IF proofs.ok \/ listens THEN "DIRECT"
    ELSE IF relay THEN "RELAYABLE"
    ELSE IF ~proofs.seen THEN "INDETERMINATE"
    ELSE IF since # Grace THEN "DEGRADED"
    ELSE "SUSPENDED"

\* Seeded fault: the grace that has begun is not forgotten when the node
\* leaves DEGRADED.
DegradedSinceKept(state, since) == IF state = "DEGRADED" /\ since = Never THEN 0 ELSE since

\* The start of the grace, after an assessment that ends in "state".
DegradedSince(state, since) ==
    IF state # "DEGRADED" THEN Never
    ELSE IF since = Never THEN 0 ELSE since

\* assess, after "prev", with what an earlier assessment or a change of
\* network has left of the streak, the grace and the proofs.
Assess(prev, count, since, proofs) ==
    \E out, relay, listens \in BOOLEAN :
        LET found  == Classify(out, relay, listens, proofs, since)
            passes == prev = "SUSPENDED" /\ found \in Usable
            held   == passes /\ count + 1 < MinStreak
            state  == IF held THEN "SUSPENDED" ELSE found
            noWay  == out /\ found \notin Usable \cup {"INDETERMINATE"}
        IN  /\ netState' = state
            /\ reason' = IF held THEN "flap"
                         ELSE IF ~out THEN "cut"
                         ELSE IF found = "SUSPENDED" THEN "grace" ELSE "measured"
            /\ streak' = IF passes THEN count + 1 ELSE 0
            /\ degraded' = DegradedSince(state, since)
            /\ probes' = proofs
            /\ lacking' = IF ~noWay THEN Never
                          ELSE IF lacking = Never THEN 0 ELSE lacking

AssessNow == Assess(netState, streak, degraded, probes)

\* on_network_change: everything known of the old network is dropped, that
\* the node was suspended on it included.
NetworkChanges == Assess("TESTING", 0, Never, [seen |-> FALSE, ok |-> FALSE])

NetNext ==
    \/ TimePasses
    \/ \E success \in BOOLEAN : RecordProbe(success)
    \/ AssessNow
    \/ NetworkChanges

NetSpec == NetInit /\ [][NetNext]_netVars

-----------------------------------------------------------------------------
NetTypeOK ==
    /\ netState \in NetworkState /\ reason \in {"measured", "cut", "grace", "flap"}
    /\ streak \in 0 .. MinStreak
    /\ degraded \in 0 .. Grace \cup {Never} /\ lacking \in 0 .. Grace \cup {Never}
    /\ probes \in [seen: BOOLEAN, ok: BOOLEAN]

\* A node with a way out is suspended for want of a way in only after every
\* assessment for a whole grace has found none: a grace that had begun before
\* the node was reachable again, cut off or moved to another network is never
\* continued (assess, on_network_change, DEGRADED_GRACE_S).
GraceGiven == reason = "grace" => lacking = Grace
=============================================================================
