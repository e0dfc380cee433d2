----------------------------- MODULE MCServices -----------------------------
(***************************************************************************)
(* The parts of a node that share no state with one another, checked       *)
(* together: a behaviour runs one of them, chosen at its start, while the  *)
(* others stay in their initial states.                                    *)
(***************************************************************************)
EXTENDS MCChainLedger, PoolJobs, GroupMembers, DeviceBindings, PrimaryLoss,
        BookIndex, PublicSync, GovernanceVotes, NetworkGate, MachineEpochs, Slashing,
        CapabilityTokens, ControlTransfers

CONSTANTS chunk1, chunk2, ownerNode, otherNode, r1, r2, r3, r4

\* One chunk for the owner itself, one for another node.
ChunkWorkers == [c \in {chunk1, chunk2} |-> IF c = chunk1 THEN otherNode ELSE ownerNode]

FourReplicas == <<r1, r2, r3, r4>>

VARIABLE service   \* the part that runs

servicesVars == <<service, ledgerVars, poolVars, groupVars, bindingVars,
                viewVars, bookVars, syncVars, voteVars, netVars, machineVars,
                slashVars, tokenVars, controlVars>>

Service == {"ledger", "pool", "group", "bindings", "views", "index", "sync",
            "votes", "gate", "machines", "slashing", "tokens", "control"}

ServicesInit ==
    /\ service \in Service
    /\ LedgerInit
    /\ PoolInit
    /\ GroupInit
    /\ BindingInit
    /\ ViewInit
    /\ BookInit
    /\ SyncInit
    /\ VoteInit
    /\ NetInit
    /\ MachineInit
    /\ SlashInit
    /\ TokenInit
    /\ ControlInit
    /\ service = "votes" \/ creator = Creator

ServicesNext ==
    /\ UNCHANGED service
    /\ \/ /\ service = "ledger" /\ LedgerNext
          /\ UNCHANGED <<poolVars, groupVars, bindingVars, viewVars,
                         bookVars, syncVars, voteVars, netVars, machineVars,
                         slashVars, tokenVars, controlVars>>
       \/ /\ service = "pool" /\ PoolNext
          /\ UNCHANGED <<ledgerVars, groupVars, bindingVars, viewVars,
                         bookVars, syncVars, voteVars, netVars, machineVars,
                         slashVars, tokenVars, controlVars>>
       \/ /\ service = "group" /\ GroupNext
          /\ UNCHANGED <<ledgerVars, poolVars, bindingVars, viewVars,
                         bookVars, syncVars, voteVars, netVars, machineVars,
                         slashVars, tokenVars, controlVars>>
       \/ /\ service = "bindings" /\ BindingNext
          /\ UNCHANGED <<ledgerVars, poolVars, groupVars, viewVars, bookVars,
                         syncVars, voteVars, netVars, machineVars, slashVars,
                         tokenVars, controlVars>>
       \/ /\ service = "views" /\ ViewNext
          /\ UNCHANGED <<ledgerVars, poolVars, groupVars, bindingVars,
                         bookVars, syncVars, voteVars, netVars, machineVars,
                         slashVars, tokenVars, controlVars>>
       \/ /\ service = "index" /\ BookNext
          /\ UNCHANGED <<ledgerVars, poolVars, groupVars, bindingVars,
                         viewVars, syncVars, voteVars, netVars, machineVars,
                         slashVars, tokenVars, controlVars>>
       \/ /\ service = "sync" /\ SyncNext
          /\ UNCHANGED <<ledgerVars, poolVars, groupVars, bindingVars,
                         viewVars, bookVars, voteVars, netVars, machineVars,
                         slashVars, tokenVars, controlVars>>
       \/ /\ service = "votes" /\ VoteNext
          /\ UNCHANGED <<ledgerVars, poolVars, groupVars, bindingVars,
                         viewVars, bookVars, syncVars, netVars, machineVars,
                         slashVars, tokenVars, controlVars>>
       \/ /\ service = "gate" /\ NetNext
          /\ UNCHANGED <<ledgerVars, poolVars, groupVars, bindingVars,
                         viewVars, bookVars, syncVars, voteVars, machineVars,
                         slashVars, tokenVars, controlVars>>
       \/ /\ service = "machines" /\ MachineNext
          /\ UNCHANGED <<ledgerVars, poolVars, groupVars, bindingVars,
                         viewVars, bookVars, syncVars, voteVars, netVars,
                         slashVars, tokenVars, controlVars>>
       \/ /\ service = "slashing" /\ SlashNext
          /\ UNCHANGED <<ledgerVars, poolVars, groupVars, bindingVars,
                         viewVars, bookVars, syncVars, voteVars, netVars,
                         machineVars, tokenVars, controlVars>>
       \/ /\ service = "tokens" /\ TokenNext
          /\ UNCHANGED <<ledgerVars, poolVars, groupVars, bindingVars,
                         viewVars, bookVars, syncVars, voteVars, netVars,
                         machineVars, slashVars, controlVars>>
       \/ /\ service = "control" /\ ControlNext
          /\ UNCHANGED <<ledgerVars, poolVars, groupVars, bindingVars,
                         viewVars, bookVars, syncVars, voteVars, netVars,
                         machineVars, slashVars, tokenVars>>

ServicesSpec == ServicesInit /\ [][ServicesNext]_servicesVars

\* Once two threads have changed the index at once, nothing is stated of it:
\* such states are reached, and not explored any further.
IndexUncrossed == calm # "crossed"

\* The variables of each part keep their types.
ServicesTypeOK ==
    /\ PoolTypeOK /\ GroupTypeOK /\ BindingTypeOK /\ ViewTypeOK
    /\ BookTypeOK /\ SyncTypeOK /\ VoteTypeOK /\ NetTypeOK
    /\ MachineTypeOK /\ SlashTypeOK /\ TokenTypeOK /\ ControlTypeOK
=============================================================================
