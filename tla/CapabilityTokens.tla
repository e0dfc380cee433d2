-------------------------- MODULE CapabilityTokens ---------------------------
(***************************************************************************)
(* Single-use capability tokens (CapabilityTokenStore in src/artcb/authz/  *)
(* capability_token.py, issued and redeemed by api/capability_token_       *)
(* routes.py through capability_token_middleware.py).                      *)
(*                                                                         *)
(* The store is in memory and every operation holds its lock, so it is one *)
(* step.  A token is granted for a capability, a node and a domain, here   *)
(* one "scope"; what a request names is another.  The time a redemption    *)
(* reads is the clock of its caller, which may be set back between two     *)
(* calls: whether a token is past its validity is an input.                *)
(***************************************************************************)
EXTENDS Naturals, SequencesExt

CONSTANTS
    Token,           \* token identifiers
    Scope,           \* what a token may be for
    Unissued,        \* no token registered
    MaxAttempts      \* bound on the redemptions

TokenRow == [scope: Scope, ends: BOOLEAN, state: {"PENDING", "CONSUMED", "EXPIRED"}]
Entry    == [token: Token, scope: Scope, late: BOOLEAN,
             outcome: {"CONSUMED", "EXPIRED", "DENIED"}]

ASSUME TokenAssumption == Unissued \notin TokenRow /\ MaxAttempts \in Nat

VARIABLES
    tokens,      \* _tokens
    trail        \* _audit_trail

tokenVars == <<tokens, trail>>

TokenInit == tokens = [k \in Token |-> Unissued] /\ trail = << >>

\* issue_capability_token: a fresh token, with or without an end.
IssueToken(k, s, ends) ==
    /\ tokens[k] = Unissued
    /\ tokens' = [tokens EXCEPT ![k] = [scope |-> s, ends |-> ends, state |-> "PENDING"]]
    /\ UNCHANGED trail

\* Seeded fault: the end of a token is looked at before its state.
OutcomeEndFirst(k, s, late) ==
    LET row == tokens[k] IN
        IF row = Unissued THEN "DENIED"
        ELSE IF row.ends /\ late THEN "EXPIRED"
        ELSE IF row.state = "PENDING" /\ row.scope = s THEN "CONSUMED" ELSE "DENIED"

\* redeem, up to what it does to the token.
RedeemOutcome(k, s, late) ==
    LET row == tokens[k] IN
        IF row = Unissued \/ row.state # "PENDING" THEN "DENIED"
        ELSE IF row.ends /\ late THEN "EXPIRED"
        ELSE IF row.scope = s THEN "CONSUMED" ELSE "DENIED"

\* Seeded fault: what an attempt is answered is kept as the token's state.
RedeemStored(k, s, late) ==
    /\ Len(trail) < MaxAttempts /\ tokens[k] # Unissued
    /\ LET outcome == RedeemOutcome(k, s, late) IN
           /\ tokens' = [tokens EXCEPT ![k].state = outcome]
           /\ trail' = Append(trail,
                  [token |-> k, scope |-> s, late |-> late, outcome |-> outcome])

Redeem(k, s, late) ==
    /\ Len(trail) < MaxAttempts
    /\ LET outcome == RedeemOutcome(k, s, late) IN
           /\ tokens' = IF outcome = "DENIED" THEN tokens
                        ELSE [tokens EXCEPT ![k].state = outcome]
           /\ trail' = Append(trail,
                  [token |-> k, scope |-> s, late |-> late, outcome |-> outcome])

\* The process ends: neither the tokens nor their trail are kept.
DropStore ==
    /\ tokens' = [k \in Token |-> Unissued] /\ trail' = << >>

TokenNext ==
    \/ \E k \in Token, s \in Scope :
          \/ \E ends \in BOOLEAN : IssueToken(k, s, ends)
          \/ \E late \in BOOLEAN : Redeem(k, s, late)
    \/ DropStore

TokenSpec == TokenInit /\ [][TokenNext]_tokenVars

-----------------------------------------------------------------------------
TokenTypeOK ==
    /\ tokens \in [Token -> TokenRow \cup {Unissued}]
    /\ trail \in Seq(Entry) /\ Len(trail) <= MaxAttempts

\* The audit trail accounts for every token: one attempt at most decided it,
\* the state is what that attempt says, a use was within the token's scope and
\* validity, and whatever clocks said afterwards was refused and left no other
\* outcome ("Tokens can only be redeemed ONCE", "never erased").
TrailExplains ==
    \A k \in Token :
        LET decided == {i \in DOMAIN trail : trail[i].token = k /\ trail[i].outcome # "DENIED"}
        IN  /\ decided = {} => tokens[k] = Unissued \/ tokens[k].state = "PENDING"
            /\ \A i \in decided :
                   /\ tokens[k] # Unissued /\ decided = {i}
                   /\ tokens[k].state = trail[i].outcome
                   /\ trail[i].outcome = "CONSUMED" =>
                          trail[i].scope = tokens[k].scope /\ ~(tokens[k].ends /\ trail[i].late)
=============================================================================
