--------------------------- MODULE DeviceBindings ---------------------------
(***************************************************************************)
(* Which wallet is bound to which device (WalletDeviceBindingStore in      *)
(* src/artcb/security/wallet_device_binding.py), for the PRODUCTION and    *)
(* the TEST registry, and the purge log the two share.                     *)
(*                                                                         *)
(* A registry is read, judged and replaced (write, fsync, rename) under    *)
(* its file lock, so an operation on it is one step.  A purge is two: it   *)
(* appends to the log, under the log's own lock, and then removes the      *)
(* record, holding the registry's lock throughout; the process may die in  *)
(* between, which releases the lock.  The two files are there: the process *)
(* that makes the store writes them, empty and without the lock, before it *)
(* serves anything (api/deps.py).  A second process that starts on the same*)
(* empty directory at that moment is left out.                             *)
(*                                                                         *)
(* Identifiers (uuid4) are numbers drawn in order, so a registry's file,   *)
(* to which records are only appended, is the set of its records: the file *)
(* has them in the order of their identifiers.  The hashes of the log's    *)
(* entries are numbers drawn in order too; reasons, actors and times are   *)
(* left out.                                                               *)
(***************************************************************************)
EXTENDS Naturals, SequencesExt

CONSTANTS
    Wallet,           \* wallet names
    Device,           \* device fingerprints
    Nobody,           \* no criterion, no version, no purge under way
    MaxBindings,      \* bound on the bindings created
    MaxPurges         \* bound on the entries of the purge log

ASSUME BindingAssumption == MaxBindings \in Nat /\ MaxPurges \in Nat

Registry  == {"PRODUCTION", "TEST"}
BindingId == 1 .. MaxBindings
Binding   == [id: BindingId, wallet: Wallet, device: Device, active: BOOLEAN,
              version: Nat]
LogEntry  == [record: Binding, hash: Nat, prev: Nat]
NoEntry   == 0

VARIABLES
    bindings,    \* bindings[ns]: the records of the registry's file
    purgeLog,    \* binding_purge_log.json: a sequence of entries
    purging,     \* purging[ns]: the record a purge has logged and not removed
    created      \* identifiers drawn

bindingVars == <<bindings, purgeLog, purging, created>>

BindingInit ==
    /\ bindings = [ns \in Registry |-> {}]
    /\ purgeLog = << >>
    /\ purging = [ns \in Registry |-> Nobody]
    /\ created = 0

Unlocked(ns) == purging[ns] = Nobody

Add(ns, w, d) ==
    /\ created < MaxBindings
    /\ created' = created + 1
    /\ bindings' = [bindings EXCEPT ![ns] =
           @ \cup {[id |-> created + 1, wallet |-> w, device |-> d,
                   active |-> TRUE, version |-> 1]}]
    /\ UNCHANGED <<purgeLog, purging>>

-----------------------------------------------------------------------------
\* Seeded fault: the first record of the device decides, as in get_binding.
DeviceFirstFree(d) ==
    \A r \in bindings["PRODUCTION"] :
        /\ r.device = d
        /\ \A s \in bindings["PRODUCTION"] : s.id < r.id => s.device # d
        => ~r.active

\* check_and_bind, PRODUCTION: only an ACTIVE record of the device counts; the
\* same wallet again is answered without a write, another one is refused.
DeviceFree(d) ==
    \A r \in bindings["PRODUCTION"] : r.device = d => ~r.active

BindProduction(w, d) ==
    /\ Unlocked("PRODUCTION") /\ DeviceFree(d)
    /\ Add("PRODUCTION", w, d)

\* _check_and_bind_test: any record of the wallet, whatever its state, makes
\* the call a no-op (same device) or an error (another device).
BindTest(w, d) ==
    /\ Unlocked("TEST")
    /\ \A r \in bindings["TEST"] : r.wallet # w
    /\ Add("TEST", w, d)

-----------------------------------------------------------------------------
\* revoke_with_history takes the first record that any criterion fits.
Fits(r, id, w, d) == r.id = id \/ r.wallet = w \/ r.device = d

FirstFit(ns, id, w, d) ==
    {r \in bindings[ns] :
        /\ Fits(r, id, w, d)
        /\ \A s \in bindings[ns] : s.id < r.id => ~Fits(s, id, w, d)}

\* Seeded fault: a revocation of a revoked record is answered like the first.
RevocableAgain(r, expected) == expected \in {Nobody, r.version}

\* What may be revoked of the record found: it is ACTIVE, and at the version
\* the caller expects, when it expects one.
Revocable(r, expected) == r.active /\ expected \in {Nobody, r.version}

Revoke(ns, id, w, d, expected) ==
    /\ Unlocked(ns)
    /\ \E r \in FirstFit(ns, id, w, d) :
           /\ Revocable(r, expected)
           /\ bindings' = [bindings EXCEPT ![ns] =
                  (@ \ {r}) \cup {[r EXCEPT !.active = FALSE, !.version = r.version + 1]}]
    /\ UNCHANGED <<purgeLog, purging, created>>

-----------------------------------------------------------------------------
\* purge_binding: the record must be REVOKED; its entry is chained to the
\* last one of the log (_append_purge_log).
Purgeable(r) == ~r.active

LastHash == IF purgeLog = << >> THEN NoEntry ELSE Last(purgeLog).hash

ChainedEntry(r) ==
    Append(purgeLog, [record |-> r, hash |-> Len(purgeLog) + 1, prev |-> LastHash])

\* Seeded fault: the record is removed first and logged afterwards, by a step
\* that a crash may prevent.
PurgeUnlogged(ns, r) ==
    /\ Unlocked(ns) /\ r \in bindings[ns] /\ Purgeable(r)
    /\ bindings' = [bindings EXCEPT ![ns] = @ \ {r}]
    /\ purging' = [purging EXCEPT ![ns] = r]
    /\ UNCHANGED <<purgeLog, created>>

LogPurge(ns, r) ==
    /\ Unlocked(ns) /\ r \in bindings[ns] /\ Purgeable(r)
    /\ Len(purgeLog) < MaxPurges
    /\ purgeLog' = ChainedEntry(r)
    /\ purging' = [purging EXCEPT ![ns] = r]
    /\ UNCHANGED <<bindings, created>>

RemovePurged(ns) ==
    /\ ~Unlocked(ns)
    /\ bindings' = [bindings EXCEPT ![ns] = {r \in @ : r.id # purging[ns].id}]
    /\ purging' = [purging EXCEPT ![ns] = Nobody]
    /\ UNCHANGED <<purgeLog, created>>

\* The process dies between the log and the removal: the lock goes with it.
DieInPurge(ns) ==
    /\ ~Unlocked(ns)
    /\ purging' = [purging EXCEPT ![ns] = Nobody]
    /\ UNCHANGED <<bindings, purgeLog, created>>

BindingNext ==
    \/ \E w \in Wallet, d \in Device : BindProduction(w, d) \/ BindTest(w, d)
    \/ \E ns \in Registry :
          \/ \E id \in BindingId \cup {Nobody}, w \in Wallet \cup {Nobody},
                d \in Device \cup {Nobody}, v \in {Nobody, 1, 2} : Revoke(ns, id, w, d, v)
          \/ \E r \in bindings[ns] : LogPurge(ns, r)
          \/ RemovePurged(ns) \/ DieInPurge(ns)

BindingSpec == BindingInit /\ [][BindingNext]_bindingVars

-----------------------------------------------------------------------------
BindingTypeOK ==
    /\ bindings \in [Registry -> SUBSET Binding]
    /\ purgeLog \in Seq(LogEntry)
    /\ purging \in [Registry -> Binding \cup {Nobody}]
    /\ created \in 0 .. MaxBindings

\* A device is bound to one PRODUCTION wallet at a time, through any sequence
\* of bindings, revocations, interrupted purges and new bindings
\* (check_and_bind ignores REVOKED records, which stay in the file).
OneActivePerDevice ==
    \A r, s \in bindings["PRODUCTION"] :
        r.active /\ s.active /\ r.device = s.device => r = s

\* No binding vanishes: one that is no longer in its registry is in the purge
\* log, as a REVOKED record, even when a purge was cut short by a crash
\* ("Journal forensic AVANT la suppression physique" in purge_binding).
NoBindingVanishes ==
    \A id \in 1 .. created :
        \/ \E ns \in Registry : \E r \in bindings[ns] : r.id = id
        \/ \E i \in DOMAIN purgeLog :
               purgeLog[i].record.id = id /\ ~purgeLog[i].record.active

\* A revoked binding is never active again, and is revoked once: its version
\* moves only with its revocation (revoke_with_history).
RevokedForGood ==
    [][\A ns \in Registry : \A r \in bindings[ns], s \in bindings'[ns] :
          ~r.active /\ s.id = r.id => s = r]_bindingVars
=============================================================================
