----------------------------- MODULE PrimaryLoss ----------------------------
(***************************************************************************)
(* How the replicas leave a view whose primary is gone: the public tip     *)
(* watchdog (tick, maybe_trigger_view_change in src/artcb/consensus/       *)
(* public_tip_watchdog.py), the choice of the next view (pbft_view.py) and *)
(* the routes that sign and install views (api/consensus_routes.py).       *)
(*                                                                         *)
(* Only views are kept; PbftVotes has the votes.  Every replica runs the   *)
(* watchdog's thread, which signs a VIEW-CHANGE in its own file when the   *)
(* public tip is old.  Nothing in the program sends that row on: handing   *)
(* a quorum of rows to the next primary (POST /pbft/new-view) and its      *)
(* NEW-VIEW to the others is an operator's work, present if Operator.      *)
(* The coordinator's own attempt (coordinate_public_finality) calls a      *)
(* method its store does not have, which it catches: it changes nothing.   *)
(***************************************************************************)
EXTENDS Naturals, Sequences, FiniteSets

CONSTANTS
    ViewReplicas,   \* the official replicas, in the order of their list
    MaxDown,        \* replicas that may be lost, for good
    LastView,       \* bound on the views
    CalmViews,      \* bound on the views entered while nothing is wrong
    Operator        \* somebody relays VIEW-CHANGE rows and NEW-VIEWs

VReplica == {ViewReplicas[i] : i \in DOMAIN ViewReplicas}
VQuorum  == 2 * ((Len(ViewReplicas) - 1) \div 3) + 1

ASSUME ViewAssumption ==
    /\ Len(ViewReplicas) > 0 /\ MaxDown \in Nat /\ LastView \in Nat
    /\ CalmViews \in Nat /\ Operator \in BOOLEAN

VARIABLES
    up,         \* replicas that answer
    inView,     \* inView[r]: the view r's store has installed
    wanted,     \* VIEW-CHANGE rows signed: [view, by]
    newViews    \* views whose NEW-VIEW has been signed

viewVars == <<up, inView, wanted, newViews>>

ViewInit ==
    /\ up = VReplica
    /\ inView = [r \in VReplica |-> 0]
    /\ wanted = {} /\ newViews = {}

ViewPrimary(v) == ViewReplicas[(v % Len(ViewReplicas)) + 1]

\* The views a replica may skip to: next_reachable_view takes the first whose
\* primary answers.
NextReachable(v) ==
    {w \in v + 1 .. LastView :
        /\ ViewPrimary(w) \in up
        /\ \A u \in v + 1 .. w - 1 : ViewPrimary(u) \notin up}

\* Blocks can be certified: a primary that answers and a quorum in its view.
Working ==
    \E v \in 0 .. LastView :
        /\ ViewPrimary(v) \in up
        /\ Cardinality({r \in up : inView[r] = v}) >= VQuorum

-----------------------------------------------------------------------------
Lose(r) ==
    /\ r \in up /\ Cardinality(VReplica \ up) < MaxDown
    /\ up' = up \ {r}
    /\ UNCHANGED <<inView, wanted, newViews>>

\* tick, on a tip older than the stall: whatever the cause, it asks for the
\* next view.  A tip also grows old when there is nothing to certify.
Tick(r) ==
    /\ r \in up
    /\ \E w \in NextReachable(inView[r]) :
           /\ Working => w <= CalmViews
           /\ wanted' = wanted \cup {[view |-> w, by |-> r]}
    /\ UNCHANGED <<up, inView, newViews>>

Wanting(v) == {m.by : m \in {n \in wanted : n.view = v}}

\* pbft_new_view without a NEW-VIEW: the operator hands the rows it has read
\* to the primary of the view, which signs even if it is in a later one.
SignNewView(v) ==
    /\ Operator
    /\ ViewPrimary(v) \in up /\ Cardinality(Wanting(v)) >= VQuorum
    /\ newViews' = newViews \cup {v}
    /\ inView' = [inView EXCEPT ![ViewPrimary(v)] = IF v > @ THEN v ELSE @]
    /\ UNCHANGED <<up, wanted>>

\* pbft_new_view with one.
InstallView(r, v) ==
    /\ Operator
    /\ r \in up /\ v \in newViews /\ v > inView[r]
    /\ inView' = [inView EXCEPT ![r] = v]
    /\ UNCHANGED <<up, wanted, newViews>>

ViewNext ==
    \/ \E r \in VReplica : Lose(r) \/ Tick(r)
    \/ \E v \in 1 .. LastView :
          SignNewView(v) \/ \E r \in VReplica : InstallView(r, v)

\* The watchdog's loop ticks every minute while the tip does not move.  That is
\* all the program does of itself: an operator's work is not scheduled.
ViewFairness == \A r \in VReplica : WF_viewVars(~Working /\ Tick(r))

ViewSpec == ViewInit /\ [][ViewNext]_viewVars /\ ViewFairness

-----------------------------------------------------------------------------
ViewTypeOK ==
    /\ up \subseteq VReplica /\ inView \in [VReplica -> 0 .. LastView]
    /\ wanted \subseteq [view: 1 .. LastView, by: VReplica]
    /\ newViews \subseteq 1 .. LastView

\* Production goes on after the loss of any one replica, the primary or
\* another, in the middle of a change of view or not (coordinate_public_
\* finality: "to continue consensus without OVH1 (or any single dead node)
\* blocking production indefinitely").  The program alone does not bring it about.
StallEnds == []<>Working
=============================================================================
