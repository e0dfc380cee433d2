------------------------------ MODULE Slashing -------------------------------
(***************************************************************************)
(* Which addresses a node refuses (SlashingManager in src/artcb/security/  *)
(* slashing.py, asked by append_block in chain/manager.py).                *)
(*                                                                         *)
(* The manager keeps everything in memory and writes a critical slash to   *)
(* two files: the blacklist, rewritten whole, and the events, appended to. *)
(* Threads share the manager without a lock.  A crash may come between two *)
(* steps of a slash, or cut a write.  Scores, penalties and warnings are   *)
(* left out; suspensions end by themselves.                                *)
(***************************************************************************)
EXTENDS Naturals, SequencesExt

CONSTANTS
    Suspect,         \* addresses
    SlashThread,     \* threads that slash
    SlashIdle,       \* a thread that does not
    CutLine,         \* what a crash left of an event
    Unreadable,      \* what a crash left of the blacklist
    MaxSlashes,      \* bound on the slashes
    MaxCuts          \* bound on the writes cut

Event == [who: Suspect, severity: {"minor", "critical"}]

ASSUME SlashAssumption ==
    /\ MaxSlashes \in Nat /\ MaxCuts \in Nat
    /\ (\A e \in Event : e # CutLine) /\ (\A list \in SUBSET Suspect : list # Unreadable)

VARIABLES
    banned,      \* status[a].is_banned
    suspended,   \* status[a].ban_until is later than now
    blacklist,   \* blacklist, in memory
    events,      \* slashing_events.jsonl
    listFile,    \* blacklist.json
    slashing,    \* slashing[t]: the slash thread t applies, and its next step
    sentenced,   \* addresses whose critical slash has returned (history)
    cuts         \* writes cut (history)

slashVars == <<banned, suspended, blacklist, events, listFile, slashing, sentenced, cuts>>

SlashInit ==
    /\ banned = {} /\ suspended = {} /\ blacklist = {}
    /\ events = << >> /\ listFile = {}
    /\ slashing = [t \in SlashThread |-> SlashIdle]
    /\ sentenced = {} /\ cuts = 0

\* is_allowed
Allowed(a) == a \notin blacklist \cup banned \cup suspended

NextStep(t, pc) == slashing' = [slashing EXCEPT ![t].pc = pc]
AtStep(t, pc)   == slashing[t] # SlashIdle /\ slashing[t].pc = pc

Underway == Cardinality({t \in SlashThread : slashing[t] # SlashIdle})

\* slash, up to its first write.
BeginSlash(t, e) ==
    /\ slashing[t] = SlashIdle /\ Len(events) + Underway < MaxSlashes
    /\ IF e.severity = "critical"
       THEN /\ banned' = banned \cup {e.who} /\ blacklist' = blacklist \cup {e.who}
            /\ UNCHANGED suspended
       ELSE /\ suspended' = suspended \cup {e.who} /\ UNCHANGED <<banned, blacklist>>
    /\ slashing' = [slashing EXCEPT ![t] =
           [event |-> e, pc |-> IF e.severity = "critical" THEN "list" ELSE "event"]]
    /\ UNCHANGED <<events, listFile, sentenced, cuts>>

\* _save_blacklist writes the list as it is now.
SaveBlacklist(t) ==
    /\ AtStep(t, "list")
    /\ listFile' = blacklist
    /\ NextStep(t, "event")
    /\ UNCHANGED <<banned, suspended, blacklist, events, sentenced, cuts>>

\* _save_event.  (The first event after a cut line is joined to it; none of
\* them is read again.)
SaveEvent(t) ==
    /\ AtStep(t, "event")
    /\ LET e == slashing[t].event IN
           /\ events' = Append(events, e)
           /\ sentenced' = IF e.severity = "critical" THEN sentenced \cup {e.who} ELSE sentenced
    /\ slashing' = [slashing EXCEPT ![t] = SlashIdle]
    /\ UNCHANGED <<banned, suspended, blacklist, listFile, cuts>>

SuspensionEnds(a) ==
    /\ a \in suspended
    /\ suspended' = suspended \ {a}
    /\ UNCHANGED <<banned, blacklist, events, listFile, slashing, sentenced, cuts>>

-----------------------------------------------------------------------------
\* Seeded fault: the events loaded are counted, and nobody is banned by them.
BannedByNone(file) == {}

\* _load_events stops at the first line it cannot read.
BannedBy(file) ==
    {file[i].who : i \in {j \in DOMAIN file :
        /\ \A k \in 1 .. j : file[k] # CutLine
        /\ file[j].severity = "critical"}}

\* The process starts on these files: no suspension is restored.
StartOn(evs, list) ==
    /\ events' = evs /\ listFile' = list
    /\ banned' = BannedBy(evs)
    /\ blacklist' = IF list = Unreadable THEN {} ELSE list
    /\ suspended' = {}
    /\ slashing' = [t \in SlashThread |-> SlashIdle]
    /\ UNCHANGED sentenced

RestartManager == StartOn(events, listFile) /\ UNCHANGED cuts

CutWrite(t) ==
    /\ cuts < MaxCuts
    /\ cuts' = cuts + 1
    /\ \/ AtStep(t, "list") /\ StartOn(events, Unreadable)
       \/ AtStep(t, "event") /\ StartOn(Append(events, CutLine), listFile)

SlashNext ==
    \/ \E t \in SlashThread :
          \/ \E e \in Event : BeginSlash(t, e)
          \/ SaveBlacklist(t) \/ SaveEvent(t) \/ CutWrite(t)
    \/ \E a \in Suspect : SuspensionEnds(a)
    \/ RestartManager

SlashSpec == SlashInit /\ [][SlashNext]_slashVars

-----------------------------------------------------------------------------
SlashTypeOK ==
    /\ banned \subseteq Suspect /\ suspended \subseteq Suspect /\ blacklist \subseteq Suspect
    /\ events \in Seq(Event \cup {CutLine})
    /\ listFile = Unreadable \/ listFile \subseteq Suspect
    /\ sentenced \subseteq Suspect /\ cuts \in 0 .. MaxCuts

\* A critical slash that has returned is for good: wherever the process dies
\* afterwards, and although a crash may have cut one write to either file, the
\* address is refused ("critical : Slash critique (100% rewards + ban
\* permanent)").
BanKept == cuts <= 1 => \A a \in sentenced : ~Allowed(a)
=============================================================================
