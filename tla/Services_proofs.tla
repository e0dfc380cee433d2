--------------------------- MODULE Services_proofs ---------------------------
(***************************************************************************)
(* The types of the parts of a node that MCServices runs side by side, for *)
(* any constants: a behaviour of the composition is one of each part.      *)
(***************************************************************************)
EXTENDS MCServices, ChainLedger_proofs, Authority_proofs, Machines_proofs, Books_proofs

-----------------------------------------------------------------------------
(* The views: the one part whose types are proved here.                    *)

LEMMA ViewStep == ViewTypeOK /\ [ViewNext]_viewVars => ViewTypeOK'
<1> SUFFICES ASSUME ViewTypeOK, [ViewNext]_viewVars PROVE ViewTypeOK'
    OBVIOUS
<1>1. ASSUME NEW r \in VReplica, Lose(r) PROVE ViewTypeOK'
    BY <1>1 DEF Lose, ViewTypeOK, VReplica
<1>2. ASSUME NEW r \in VReplica, Tick(r) PROVE ViewTypeOK'
  <2>1. PICK w \in NextReachable(inView[r]) : wanted' = wanted \cup {[view |-> w, by |-> r]}
      BY <1>2 DEF Tick
  <2>2. inView[r] \in 0 .. LastView /\ w \in inView[r] + 1 .. LastView
      BY <2>1 DEF NextReachable, ViewTypeOK
  <2>3. [view |-> w, by |-> r] \in [view: 1 .. LastView, by: VReplica]
      BY <2>2, ViewAssumption
  <2> QED
      BY <1>2, <2>1, <2>3 DEF Tick, ViewTypeOK, VReplica
<1>3. ASSUME NEW v \in 1 .. LastView, SignNewView(v) PROVE ViewTypeOK'
  <2>1. ViewPrimary(v) \in VReplica /\ v \in 0 .. LastView
      BY <1>3, ViewAssumption DEF SignNewView, ViewTypeOK
  <2> DEFINE p == ViewPrimary(v)
             next == IF v > inView[p] THEN v ELSE inView[p]
  <2>2. next \in 0 .. LastView /\ inView' = [inView EXCEPT ![p] = next]
      BY <1>3, <2>1 DEF SignNewView, ViewTypeOK
  <2> HIDE DEF p, next
  <2>3. inView' \in [VReplica -> 0 .. LastView]
      BY <2>2 DEF ViewTypeOK
  <2> QED
      BY <1>3, <2>3 DEF SignNewView, ViewTypeOK, VReplica
<1>4. ASSUME NEW v \in 1 .. LastView, NEW r \in VReplica, InstallView(r, v) PROVE ViewTypeOK'
  <2>1. v \in 0 .. LastView
      BY ViewAssumption
  <2> QED
      BY <1>4, <2>1 DEF InstallView, ViewTypeOK, VReplica
<1>5. CASE UNCHANGED viewVars
    BY <1>5 DEF viewVars, ViewTypeOK, VReplica
<1> QED
    BY <1>1, <1>2, <1>3, <1>4, <1>5 DEF ViewNext

\* Views, VIEW-CHANGE rows and NEW-VIEWs keep their types (public_tip_watchdog.py
\* and pbft_view.py).
THEOREM ViewsTyped == ViewInit /\ [][ViewNext]_viewVars => []ViewTypeOK
<1>1. ViewInit => ViewTypeOK
    BY ViewAssumption DEF ViewInit, ViewTypeOK, VReplica
<1> QED
    BY <1>1, ViewStep, PTL

-----------------------------------------------------------------------------
(* The composition.                                                        *)

\* A step of the composition is, of each part, a step or none.
LEMMA PartsStep ==
    [ServicesNext]_servicesVars =>
        /\ [LedgerNext]_ledgerVars /\ [PoolNext]_poolVars /\ [GroupNext]_groupVars
        /\ [BindingNext]_bindingVars /\ [ViewNext]_viewVars /\ [BookNext]_bookVars
        /\ [SyncNext]_syncVars /\ [VoteNext]_voteVars /\ [NetNext]_netVars
        /\ [MachineNext]_machineVars /\ [SlashNext]_slashVars /\ [TokenNext]_tokenVars
        /\ [ControlNext]_controlVars
    BY DEF ServicesNext, servicesVars

\* A behaviour of the composition is one of each part: the parts share no
\* state, and what is proved of one of them holds of the composition.
LEMMA PartsRun ==
    ServicesSpec =>
        /\ LedgerSpec /\ PoolSpec /\ GroupSpec /\ BindingSpec /\ BookSpec
        /\ ViewInit /\ [][ViewNext]_viewVars
        /\ SyncSpec /\ VoteSpec /\ NetSpec /\ MachineSpec /\ SlashSpec /\ TokenSpec
        /\ ControlSpec
<1>1. ServicesInit =>
        /\ LedgerInit /\ PoolInit /\ GroupInit /\ BindingInit /\ ViewInit /\ BookInit
        /\ SyncInit /\ VoteInit /\ NetInit /\ MachineInit /\ SlashInit /\ TokenInit
        /\ ControlInit
    BY DEF ServicesInit
<1> QED
    BY <1>1, PartsStep, PTL
    DEF ServicesSpec, LedgerSpec, PoolSpec, GroupSpec, BindingSpec, BookSpec,
        SyncSpec, VoteSpec, NetSpec, MachineSpec, SlashSpec, TokenSpec, ControlSpec

\* The variables of every part keep their types, for any constants.
THEOREM ServicesTyped == ServicesSpec => []ServicesTypeOK
<1>1. /\ PoolInv => PoolTypeOK
      /\ BindingInv => BindingTypeOK
      /\ IndexInv => BookTypeOK
      /\ SyncInv => SyncTypeOK
      /\ VoteInv => VoteTypeOK
      /\ GraceInv => NetTypeOK
    BY DEF PoolInv, BindingInv, IndexInv, IndexTyped, SyncInv, VoteInv, GraceInv
<1>2. /\ PoolTypeOK /\ GroupTypeOK /\ BindingTypeOK /\ ViewTypeOK
      /\ BookTypeOK /\ SyncTypeOK /\ VoteTypeOK /\ NetTypeOK
      /\ MachineTypeOK /\ SlashTypeOK /\ TokenTypeOK /\ ControlTypeOK
      => ServicesTypeOK
    BY DEF ServicesTypeOK
<1> QED
    BY <1>1, <1>2, PartsRun, PoolInvariant, GroupsTyped, BindingInvariant, ViewsTyped,
       IndexInvariant, SyncInvariant, VoteInvariant, GraceInvariant, MachinesTyped,
       SlashesTyped, TokensTyped, ControlTyped, PTL
=============================================================================
