--------------------------- MODULE WorkSettlement ---------------------------
(***************************************************************************)
(* What settlement promises (docstrings of                                 *)
(* src/artcb/economics/replicated_settlement.py and live_bft.py): a WorkID *)
(* is settled under one SettlementID, for ever, and a node's ledger pays   *)
(* for nothing else.                                                       *)
(***************************************************************************)
CONSTANTS Node, Work, Sid, None

VARIABLES
    winners,  \* winners[w]: the SettlementIDs a quorum agreed on for w
    paid      \* paid[n][w]: the SettlementID n's ledger paid w under, or None

workVars == <<winners, paid>>

WorkInit ==
    /\ winners = [w \in Work |-> {}]
    /\ paid = [n \in Node |-> [w \in Work |-> None]]

Win(w, s) ==
    /\ winners[w] \subseteq {s}
    /\ winners' = [winners EXCEPT ![w] = {s}]
    /\ UNCHANGED paid

Pay(n, w) ==
    /\ \E s \in winners[w] : paid' = [paid EXCEPT ![n][w] = s]
    /\ UNCHANGED winners

\* A ledger may be lost, never rewritten.
Forget(n) ==
    /\ paid' = [paid EXCEPT ![n] = [w \in Work |-> None]]
    /\ UNCHANGED winners

WorkNext ==
    \/ \E w \in Work, s \in Sid : Win(w, s)
    \/ \E n \in Node, w \in Work : Pay(n, w)
    \/ \E n \in Node : Forget(n)

WorkSpec == WorkInit /\ [][WorkNext]_workVars
=============================================================================
