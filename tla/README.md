# Verification of ARTCB: finality, settlement and the node's services

TLA+ models of the parts of ARTCB on which money and history depend, the TLC
runs that check them on small instances, and TLAPS proofs that hold for every
value of the constants. Paths are relative to the repository root
(`src/artcb/...` is under the source tree's `src/`). `PROJECT.json` lists
every run, property, mutant, theorem and hazard, and maps every definition to
the lines it models.

## 1. Inventory

ARTCB is a Python node (FastAPI, synchronous handlers served by a thread pool)
that keeps a public and a private book of blocks, agrees with the other
official nodes on public blocks (PBFT), settles paid work among peers
(prepare/commit), and carries around this core an economy, a peer-to-peer
layer, an authorization domain, compute pools and a large number of content
tools. Almost all state is a JSON file rewritten in place after each change,
plus some memory that does not survive a restart.

| Component | State | Operations | Hard behaviour | What makes it correct |
|---|---|---|---|---|
| PBFT finality store (`consensus/pbft_finality.py`) | `accepted`, `prepare_msgs`, `commit_msgs`, `prepared_265`, `certificates`, `must_repropose`, in one file | emit/accept of PRE-PREPARE, PREPARE, COMMIT; install certificate; enter view; bind prepared | equivocating primary, late and repeated rows, file truncated by a crash, check-then-act outside the lock | one vote per slot; one hash per view and index; one per index across views; a prepared value survives |
| PBFT views (`consensus/pbft_view.py`) | `view`, VIEW-CHANGE rows, NEW-VIEW record, in another file | emit/accept VIEW-CHANGE, emit/install NEW-VIEW | two stores with two locks, entering a view after it was installed, a file truncated by a crash | the view only grows while the file stays; only proven values constrain |
| Consensus routes (`src/api/consensus_routes.py`) | none | one HTTP route per operation | order of calls into three stores | guards match the stores they protect |
| Public-finality coordinator (`consensus/pbft_exclusive.py`) | none (a thread) | fan-out of the phases to the replicas, automatic VIEW-CHANGE | unreachable peers, partial fan-out | a dead primary is eventually replaced |
| Settlement engine (`consensus/live_bft.py`) | `_reservations` in memory | `prepare_local`, `commit_local`, `propose` | timeouts, late requests, lost answers, restarts, split votes | one SettlementID per WorkID; a settled work was won |
| Settlement ledger (`economics/economic_snapshot.py`) | consumed rows, one file | `consume` | file truncated by a crash | a WorkID and a SettlementID are consumed once |
| Chain manager, split ledger, book index (`chain/`) | public and private books, derived index | `append`, `import_extending_block`, `write_certified_block`, one-off migration | threads that append and import at once, failure between steps, crash during migration, an index rebuilt while it is read | each line follows an earlier one, certified range, one payment of a work, right look-ups |
| Watchdog (`consensus/public_tip_watchdog.py`) | age of the tip | tick, trigger VIEW-CHANGE | a dead primary, a tip that is merely idle | a stall ends |
| P2P synchronisation (`p2p/sync.py`) | none of its own | push, pull, import of a batch | blocks lost, repeated, overtaken by other threads, cut by a crash | a common block has a common past |
| Producer failover (`p2p/producer_*.py`) | last heartbeat, current producer, last election | note block, detect death, elect | clocks, nodes with different tips | off unless configured; nothing produces as the elected node |
| WorkID registry (`economics/workid.py`) | a row per WorkID, one file | transition | read and save apart, no lock | a WorkID is paid once |
| Machines and epochs (`economics/human_binding.py`, `economic_snapshot.py`) | machines in a file, waiting operations in memory | register, beat, queue, begin epoch, transfer | an operation that raises in the middle, a transfer of two writes, a restart | one binding per human, no machine lost |
| Compute pool (`pool/service.py`) | jobs and incoming chunks, two files rewritten whole | create, dispatch, receive, process, result, finalize | unlocked files truncated while written, lost answers | a chunk is done only when delivered, no incomplete job is minted |
| Groups (`groups/`) | a file per group, a file of its requests | submit, approve, reject, role, remove, dissolve | stale copies written back, crash between the files | the founder stays; an approval was an admission |
| Governance (`governance/manager.py`) | proposals (rewritten), votes (appended), the creator's key | propose, vote, refresh, tally, rotate | stale copies, a vote around the closing | the outcome is one of the votes; the veto holds |
| Device bindings (`security/wallet_device_binding.py`) | two registries, a purge log, locks | bind, revoke, purge | a crash between the log and the removal, rebinding | one wallet per device, nothing vanishes |
| Slashing (`security/slashing.py`) | events (appended), blacklist (rewritten), memory | slash, restart | a cut write | a ban is for good |
| Network gate (`network/eligibility_gate.py`) | network state, streak, start of the grace | assess, probe, network change | measurements that alternate | no suspension before the whole grace |
| Capability tokens (`authz/capability_token.py`) | tokens and trail, in memory | issue, redeem | clocks, repeated redemption | one redemption, and a trail that explains it |
| Control of organisations (`authz/governance.py`) | authorities (rewritten), transfers (appended) | initialize, propose, cancel, decline, accept | stale copies, an emptied file, a crash between the two files, rival proposals | controller and owner are a pair that was agreed on |
| Payments (`payments/`, `economics/job_payment.py`) | paid jobs | create, webhook | duplicated webhooks | not modelled yet |
| KCG balances and overdraft (`kcg/`), test domain (`testdomain/`) | balances, wallet states | transfer, repay, activate | none: only tests instantiate them | not modelled |
| Language, IR, memory, reasoning, connectors, tools | content | conversions, searches, calls to services | none that a state machine reaches | data conversions, out of scope |

How the modelled ones interact: the coordinator's thread calls the routes of
every replica; a route calls the view store, then the finality store, then the
chain manager, each with a lock and a file of its own; the certificate of the
finality store is what `write_certified_block` asks for; the tip of the public
book is what `client-request` checks, and what appends and imports extend. The settlement engine shares the view
counter with PBFT and nothing else. The watchdog calls the view routes of its
own node; `append_block` asks the slashing manager and the WorkID registry, and
reads the tip through the book index; a synchronised batch ends in
`import_extending_block`. The other services share no state with one another:
each is a manager object over files of its own, called by its routes from the
thread pool.

The hazards of this code, each at its line, are in `PROJECT.json`; every
property exists for one of them.

## 2. Modules

| Module | What it is |
|---|---|
| `PbftVotes` | block finality as votes: what each replica locks, signs, prepares, certifies, enters and writes |
| `PbftFinality` | the same store with its PREPARE and COMMIT tables, rows arriving one at a time; implements `PbftVotes` |
| `PbftThreads` | `PbftVotes` with the PRE-PREPARE handlers split at the lock, as two threads interleave them |
| `PbftVotes_proofs` | theorems about `PbftVotes` |
| `PbftFinality_proofs` | theorems about `PbftFinality`, the refinement among them, and about `PbftThreads` |
| `WorkSettlement` | what settlement promises: winners and payments |
| `Settlement` | the prepare/commit calls of the settlement engine; implements `WorkSettlement` |
| `Settlement_proofs` | theorems about `Settlement` |
| `ChainLedger` | the books of one node: split, appends, imports, certified writes, crashes |
| `ChainLedger_proofs` | theorems about `ChainLedger` |
| `PrimaryLoss` | how the replicas leave a view whose primary is gone; liveness |
| `BookIndex` | the index of one book, in memory and in two files, under appends, readers and crashes |
| `PublicSync` | public blocks travelling between nodes that also produce |
| `PoolJobs` | one pool job, its chunks, workers, results and finalization |
| `GroupMembers` | one group and its join requests |
| `GovernanceVotes` | one proposal, its votes and its outcome |
| `DeviceBindings` | the two registries of device bindings and the purge log |
| `MachineEpochs` | machines, their owners and humans, and the operations that wait for an epoch |
| `NetworkGate` | the network state of a node and its grace period |
| `Slashing` | who a node refuses, across restarts and cut writes |
| `CapabilityTokens` | tokens, redemptions and the audit trail |
| `ControlTransfers` | the authority over one organisation or group, and the transfers of its control |
| `Authority_proofs` | theorems about `CapabilityTokens`, `GroupMembers`, `GovernanceVotes` and `ControlTransfers` |
| `Machines_proofs` | theorems about `MachineEpochs`, `DeviceBindings`, `NetworkGate`, `PoolJobs` and `Slashing` |
| `Books_proofs` | theorems about `PublicSync` and `BookIndex` |
| `Services_proofs` | the types of `PrimaryLoss` and of the composition `MCServices` |
| `MCPbftVotes`, `MCPbftFinality`, `MCPbftThreads`, `MCSettlement`, `MCChainLedger`, `MCPrimaryLoss` | instances and bounds for TLC |
| `MCServices` | the ledger and the twelve services in one run, one of them per behaviour |

### PbftVotes

`view` is the persisted view of the view store. `accepted`, `prepared`,
`certificates` and `mustRepropose` are the tables of the finality store of the
same names (`prepared_265` for `prepared`). `entering` holds NEW-VIEWs that
`install_new_view` accepted and `enter_view` has not processed: the route calls
the two stores one after the other, and other requests are served in between.
`tip` is the last block of the public book. `msgs` holds the rows honest
replicas signed. A signed row can be delivered late, again, out of order or
never, so nothing has to carry it: an action that receives a row requires that
it was signed. `FaultySends` are the rows faulty replicas have signed.

A handler is one action: `EmitPrePrepare`/`AcceptPrePrepare`,
`SignPrepare`/`ReceivePrepare` (with `_maybe_mark_prepared`: the slot becomes
prepared in the same step when a quorum may be complete),
`SignCommit`/`ReceiveCommit` (with `_store_commit`), `InstallCertificate`,
`WriteCertifiedBlock`, `EmitViewChange`, `EmitViewChange265`,
`EmitNewView`/`InstallNewView`, `EnterView`, `BindPrepared`. `Restart` loses
the requests being served; `RestartTruncated` loses the finality store's file,
which `_save` truncates before writing and `_load` replaces with an empty
state when it cannot be parsed; `RestartViewLost` loses the view store's file in
the same way, and the replica is back in view 0 with the tables of a later one.

`EnterView` is `enter_view`: `Chosen` is what its analysis of the rows selects, and
`BindConstraint` is `bind_prepared_constraint`, which verifies the certificate once
more (`Provable`) and changes nothing otherwise. `BindPrepared` is the same call
made by a route.

What is abstracted: hashes and signatures (a digest is a block, a row exists
or does not, a certificate verifies when its votes exist); the first consensus
index is 1 here and 0 in the code, so that 0 can be the height of an empty
book; a NEW-VIEW's caller presents at most one 265 row of each replica;
`view_changes_265` is left out, because `enter_view` reads it only when it is
called without rows, which the routes never do; the equivocation evidence is a
log. `PbftVotes` does not say when a replica has received a quorum, only that
a quorum was signed: `PbftFinality` adds the tables.

Assumptions about use. `/pbft/audit-sign` signs any PREPARE or 265 row with the
local key without looking at a lock; a replica on which it is used that way is
in `Faulty`. Handlers are taken as atomic here; the tests of `emit_preprepare`
and `accept_preprepare` are made outside the lock that protects the write, and
`PbftThreads` splits them there.

### PbftFinality

Adds `prepareMsgs` and `commitMsgs`, keyed `view:seq:replica_id` as in
`_store_prepare` and `_store_commit`: a later row of one signer replaces the
earlier one whatever its digest (`Store`). A slot becomes prepared, an index
certified, when the *stored* rows make a quorum. `FinalitySpec` implements
`VotesSpec` with the stores hidden; the run `finality` checks it.

### PbftThreads

`TestEmitPrePrepare`/`TestAcceptPrePrepare` end where the handler has passed
its tests; `WriteAccepted` is `_accept`, under the lock, whatever the locks are
by then. `tested` holds the handlers in between. Everything else is `PbftVotes`
unchanged (`WholeRequest`).

### Settlement

A call of `propose` is a thread: it reserves locally, asks its peers one after
the other (`Ask`), each answer arrives (`ServePrepare`) or the call stops
waiting (`GiveUp`: timeout, refused connection, lost answer). A request that
was given up is still served, at any later time. After the last peer the call
counts (`NoMajority` or `Settle`), settles its own ledger first, then asks for
commits and ignores their failures. `reserved` is `_reservations`, `settled`
the ledger seen per WorkID. `commit_local` does not look at reservations: the
ledger decides (`Fresh`). `Restart` forgets reservations, calls and received
requests; `TornWrite` is the crash between the truncation and the write of the
ledger file, after which the ledger is read as empty. `SidOf` is arbitrary
because a caller may pass `forged_sid`. Left out: `skip_hosts` and
`extra_delay_hosts` (set by tests only), the optional `view` of a prepare
request (`propose` never sends it), and a fake coordinator that posts commits
without preparing: the routes are called by coordinators only.

`WorkSettlement` is the promise of the docstrings: a WorkID is won by one
SettlementID for ever, ledgers pay winners only, and a ledger can be lost but
not rewritten.

### ChainLedger

`public` and `private` are the two books as sequences of lines, `marker` the
file that says the split was done, `phase` and `copied` where a start of the
node stands in it, `settled` the SETTLED rows of the WorkID registry,
`certified` the blocks the replicas have certified, `installed` those whose
certificate the node has stored, `call[t]` the append or import thread `t`
serves, with the rows of the registry it has read. `torn` and `crossed` are
histories: a crash has cut the registry's file; two calls were between reading and
rewriting it at once.

A start either opens the books (`OpenBooks`: marker there, no legacy book, or a
public book that is not empty) or copies the legacy book line by line
(`StartCopying`, `CopyLine`, `FinishCopying`). `append_block` is
`BeginAppend` (reads the tip, builds the block), `CheckWork`
(`_assert_workids_unsettleable`), `ReadWork`, `LoadRows` and `SaveWork` (the three
accesses of `WorkRegistry.transition`: the record, all rows again, the file),
then, for a public block of an official replica,
`FinalizeCertifies` or `FinalizeFails` (the `pbft_finalize` hook), else
`WriteBlock`. An import is `BeginCertified` (the certificate route) or
`BeginSync` (a peer's block), then `TestImport` (every test of
`import_extending_block`) and `WriteBlock`. `Crash` may come between any two
steps; `CutRegistry` is a crash between the truncation and the rewriting of the
registry's file, which is read as empty afterwards. `BeginRewrite` and
`EndRewrite` are the other calls that rewrite that file (`create`, and transitions
to another status): they write back the rows they read.

No lock covers any of it: threads that append and import at once fork a book, or
write two lines of one index. The properties do not deny it; `LinesExtendLines`
says what is left of a chain then: each line that is not a legacy one follows the
book as it once was, to its end or to an earlier line.

Assumptions: the replicas certify at most one block of an index (`Undecided`),
which `PbftVotes` is about and `votes_agreement` shows to need care; a line is
written whole; the legacy book is a constant, because nothing writes to it once
the split is on; the integrity gate reads only that book, so it is a constant
too. Anti-sybil and slashing filters, a reward passed by the caller, and
private imports (which nothing calls) are left out. The reward
`min(R(H)*dt/T, ...)` keeps the cap and takes the population's part as a
constant.

### PrimaryLoss

Only the views are kept: `inView` is the view store's counter, `wanted` the
VIEW-CHANGE rows each replica has signed in its own file, `newViews` the
NEW-VIEWs signed, `up` the replicas that answer. `Tick` is the watchdog on a
stalled tip with `next_reachable_view`; `SignNewView` and `InstallView` are the
two halves of the route `/pbft/new-view`. Nothing in the program posts a
VIEW-CHANGE row or a NEW-VIEW to another node, so these two need the constant
`Operator`. A tip is also old when there is nothing to certify; `CalmViews`
bounds the view changes this causes.

### BookIndex

`file` is the book as a sequence of pieces (a line's consensus index, or what a
crash left of one); `offsets`, `byIndex` and `meta` are the index in memory, a
list, a table and a record that all threads share without a lock; `offFile` and
`metaFile` are its two files. `Ensure` finds that the memory fits, or goes on to
`Load` (the files fit) or `Reset`. A rebuild is a loop: `ScanLine` appends an
offset, `TakeNumber` computes the line's number from the length the list has by
then, `EnterNumber` enters it for the index if there is none; `ScanEnd`, `WriteOff`
and `WriteMeta` end it. An append is `EnterEnsure`, `ReadTip`, `WriteLine`, and
`NoteAppended` with the same `TakeNumber`, `EnterNumber` and two writes. `Die` may
cut the line or either file.

`calm` is a history: `"whole"`, `"torn"` once a line was torn, `"crossed"` once two
threads were changing the index at once. `LookupRight` is about the first two,
`IndexExact` about the first. They say that a look-up is right in every state of one
thread's scan or append, with other threads looking up or in `ensure()`, and
whatever crashes left behind. Of crossed calls nothing is stated, because nothing
is true: two scans, or a scan and an append, mix their offsets in the list, and a
look-up then gives another block (see Disagreements). The append that reads the tip
of an index another thread has just reset is in the model: it finds an empty
book and numbers its block 0 again, and a look-up of 0 gives the first of the two.

### PublicSync

`blocks[n]` is the public book of node `n`, `pending[n][t]` the block that its
thread `t` is about to write. `Produce` is the first half of `append_block` below
the exclusive range: the tip is read and a block placed after it. `TestBlock` is one
round of `import_public_blocks` up to the write, with the verdict of
`decide_public_import` (`Extends`), on any block of any peer: books only grow, so
that stands for every answer, late, repeated or cut. `WritePending` writes the line
after whatever was written since, `DieAppending` loses it. Threads of one node fork
its book, and write a block twice; `SamePast` holds all the same.

### PoolJobs

`job` is the owner's file, `incoming[n]` the file of worker `n`, `request[t]`
what a thread serves with what it has read. Every operation reads a file
(which may be truncated at that moment: `SeenJob`, `SeenIncoming`) and writes it
in a later step. A result goes `ProcessChunk`, `ReceiveResult`, `SaveResult`,
`MarkDone`, `SaveIncoming`; `Abandon` loses the call, the answer or the
callback at any point. A line of `incoming` says whether it names an
`owner_callback_base` (or is the owner's own): `ProcessChunk` goes to the post in
the one case and straight to `MarkDone` in the other, which posts to nobody.

### GroupMembers and GovernanceVotes

The same discipline: `visit[t]` and `serving[t]` hold the copy of the file that
a call has read and will write back. `ApproveRequest`, `AddMember`,
`AdmitMember`, `MarkRequest` are `approve_request` with its three writes.
`CastVote`, `CheckVote`, `RecordVote` are `cast_vote`; `DecideVote` and
`WriteProposals` are `_refresh_statuses`, and `DecideOther` is the same call made
for another proposal, which writes this one back as it was read. `early` counts
the votes recorded before the closing.

### DeviceBindings

An operation holds its registry's file lock from read to rename, so it is one
step, except a purge: `LogPurge`, then `RemovePurged`, or `DieInPurge` between
them. A registry is a set of records: the file's order is that of the
identifiers, which are drawn one by one. The registries' files exist from the start
(`api/deps.py` makes the store before anything is served); the constructor writes
empty ones without the lock when they do not, so that two processes started at once
on a fresh node are left out. `FirstFit` is the record
`revoke_with_history` takes, the first in that order.

### MachineEpochs

`machines` is the registry's file, `waiting` the coordinator's list, `applying`
where `begin_epoch` stands in it. A transfer is `TransferOut` then `TransferIn`.
An operation that raises (`OpFails`) ends `begin_epoch` and leaves the whole
list waiting. `MissBeat` is `mark_grace`, which does not ask whether the machine
has left; `revived` remembers that it happened. `request_deactivation` would revive
one too; nothing in the source calls it.

### NetworkGate, Slashing, CapabilityTokens

`NetworkGate`: one assessment is one step with any measurement; `degraded` is
the age of `_degraded_since_ts_ns`, `lacking` (history) for how long every
assessment has found no way in. `Slashing`: a slash is memory, then the
blacklist (critical only), then the event; a restart reads both files, and
`CutWrite` cuts one. `CapabilityTokens`: `RedeemOutcome` is the order of the
refusals in `redeem`, `trail` the audit trail.

### ControlTransfers

`authority` is the subject's row in `governance.json`, `NoAuthority` while the
file is empty; `transfers` the lines of `transfers.jsonl`. `busy[t]` is a call
between two of its accesses: what it read, the row it will write, the line it
will append. `propose_transfer` is `ProposeTransfer` (the authority is read) and
`CheckPending` (the pending transfer is); `cancel`, `decline` and
`accept_transfer` are `OpenTransfer` (the transfer is read) and an action that
reads the authority. All end in `EmptyFile`, `FillFile` (`write_text`) and
`AppendTransfer`; `SaveOther` is an `_upsert` for another subject, and
`KillNode` ends the process between any two of these.

## 3. Runs

| Run | Instance | Shows |
|---|---|---|
| `votes_viewchange` | 4 replicas, 2 views, 2 blocks at one index; the primary of view 0 votes for both in both views; two backups move on | `TypeOK`, `OneVotePerSlot`, `SameViewAgreement`, `CertifiedIndexKept`, `PreparedValueHeld`, `BookFollowsCertificates` |
| `votes_recovery` | the same blocks; any 265 rows presented, unproven claims, restarts, a truncated file of either store | the inductive `VotesInv` |
| `finality` | 4 replicas with stored rows, equivocating primary, one backup may lose its file, view change | `StoresTypeOK`, `PreparedStillProven`, and refinement of `VotesSpec` |
| `votes_five` | 5 replicas, one faulty | violation of `SameViewAgreement` |
| `votes_agreement` | 4 replicas, none faulty; one misses view 0 | violation of `CertificateAgreement` |
| `threads` | 4 replicas, one faulty; two threads of one backup | violation of `SameViewAgreement` |
| `settlement` | 4 nodes, two coordinators, one WorkID, two SettlementIDs, one node restarts at will | `SettleInv`, `OneSettlement`, refinement of `WorkSettled` |
| `settlement_restarts` | the same, two nodes restart | violation of `OneSettlement` |
| `services` | one service per behaviour. The ledger: a legacy book of two public lines and a private one, a peer's block that rivals an append and another after it, one WorkID, certificates required from index 3, two threads. The others: two threads each, the bounds below | `TypeOK`, `LinesExtendLines`, `ExclusiveRangeCertified`, `WorkPaidOnce` of the ledger; the properties of the twelve services, below |
| `ledger_supply` | the ledger alone, a cap that one reward more would pass | violation of `SupplyCapped` |
| `work_twice` | the ledger alone, two threads | violation of `PaidAtMostOnce` |
| `primary_down` | four replicas, one may die, no operator | violation of `StallEnds` |

What the run `services` shows of each service:

| Service | Property | Says |
|---|---|---|
| book index | `LookupRight` | a look-up by index gives a block of that index, at every step of a scan, a load or an append, wherever the process dies and whatever lines are torn, until two threads change the index at once |
| | `IndexExact` | until a line is torn or two threads change the index at once, between calls the index is the one a scan would build, however often the process died between the line and the two files |
| sync | `SamePast` | two books with a common block have its whole past in common, forks and repeated lines or not |
| pool | `DoneWasDelivered` | a chunk that names its owner's address is done only when its owner has written the result |
| | `OnlyCompleteJobsFinalized` | no job is offered for finalization, finalized or minted with a result missing |
| groups | `FounderKept`, `ApprovedWasAdmitted` | stale copies never unseat the founder; an approval was an admission |
| governance | `VetoHolds`, `OutcomeOfTheVotes` | a veto in time prevents acceptance; an outcome is one the votes had, at or after the closing |
| bindings | `OneActivePerDevice`, `NoBindingVanishes`, `RevokedForGood` | one wallet per device; a binding is in its registry or, revoked, in the log; a revocation is final |
| machines | `BoundOnce`, `NoMachineLost` | a human is bound to one live machine; a transfer that fails is still to be tried |
| gate | `GraceGiven` | a suspension for want of a way in comes after a whole uninterrupted grace |
| slashing | `BanKept` | a critical slash that has returned survives restarts and one cut write |
| tokens | `TrailExplains` | one attempt decided each token, and the trail says which and why |
| control | `AuthorityAgreed` | controller and legal owner are a pair that accepted transfers lead to, one by one, from the founder |

The services share no state, so their composition interleaved would only
multiply their states; `service` picks one at the start, the others stay put,
and the sizes add up (2.4 million states). Each of the parts is still checked
under its own whole next-state relation.

Bounds and why they are enough. Four replicas are the smallest membership with
a fault (`F = 1`) and the deployed one was four; five is what the registry
lists now. Two blocks at one index are what agreement is about: a third
changes no guard. `MaxView = 1` has one view change, which is what the locks,
the constraint and the late `enter_view` are about; the proofs cover any number
of views. `Routes` says which optional events happen at which replica, so that
each run spends its states on its question; the MC modules name each choice.
`MoveOnAfterAccepting`, `ViewOneIdle` and `LateLoss` are constraints that bound
when the view changes and what happens after it; `PartitionedPrimary` only steers the violation run
towards its counterexample faster. Two calls with one WorkID and two
SettlementIDs are the conflict settlement must resolve; four nodes are the
fewest it accepts. In the ledger two threads
serve the calls, so that appends, imports and rewrites of the registry overlap each
other, blocks certified elsewhere and crashes; two overlap wherever any do, and the
three properties are proved for any number. Two hashes are drawn: enough for two
appends of one WorkID, or an append and a block of another replica. The legacy book
mixes both kinds of line, with a private line last, and the peer's first block
competes with an append for the index before the exclusive range, so that the
second is refused there. All counters are bounded by the constants. Symmetry is used
over blocks, which nothing distinguishes, and over replicas or nodes that lead
no view and coordinate no call, and over the two threads of the ledger, in runs
without liveness.

In `services` two threads are the overlap every stale copy needs, and a third
adds none: a copy is stale or not. Two chunks, one of them the owner's own, make
a job that is complete or not and both ways of delivery. `MaxBindings = 3` lets
a device be bound, revoked and purged, and bound again; three votes and two
voters give each outcome and a creator who votes twice by way of a rotation;
`MaxPieces = 4` gives a torn line with lines before and after it, and two readers
with the appender make a call that looks on while two others take turns;
`IndexUncrossed` stops a behaviour where two threads change the index at once,
beyond which nothing is stated; three nodes of two threads with three blocks make a
fork, in one book or in two, and a node that hears both sides; `Grace = 3`
is long enough to be interrupted and resumed; three machines with one transfer
each and two operations waiting let an operation fail before and after another.
`MaxCuts = 1` is the bound `BanKept` states. `LastView = 4` lets each replica be
primary once and the first again. Control transfers have three people, two
transfers and one thread for the subject, which can be killed between any two
writes, so that two proposals are open at once, beside a thread that writes
stale copies of the authority back; for several threads of the subject there is
the theorem.

`CHECK_DEADLOCK FALSE` because every run may really stop: all calls returned,
all rows signed, the last view reached.

Fairness is assumed for `StallEnds` only, in the run `primary_down`
(`ViewFairness`): the watchdog's loop (`start_background`) ticks every minute whatever
the tick returned, hence weak fairness of `Tick` while production is stalled. No
fairness is assumed of an operator, who is not part of the program, and the run has
none. That production resumes if somebody relays the rows by hand is not stated: it
would rest on that person. In `services` an operator may relay, which fires the two
halves of the route, for the types only. No fairness is assumed of a replica's loss,
and the other services promise nothing in time: the code retries nothing there by
itself.

### Disagreements found

- `votes_agreement`: once a replica holds the certificate of an index,
  `_uncommitted_prepared_digest` no longer constrains that index, and
  `accept_preprepare`, `emit_prepare` and `emit_commit` do not compare with
  `finalized_digest` or the tip. A primary that missed the first view proposes
  its own block for the index in the next view, the replicas that certified
  the first block sign it too, and a second certificate for the index exists,
  with no faulty replica. The certification matrix and `docs/PBFT_ARTCB.md`
  say this cannot happen. `CertifiedIndexKept` holds: a replica that has the
  first certificate keeps it, so replicas diverge instead of changing their
  mind. There is no other cause: `AgreementAcrossViews` (section 4) proves that
  certificates agree in any number of views, or a correct replica has voted
  against what it prepared itself while it held a certificate.
- `votes_five`: `n_f_q` gives `Q = 3` for the five replicas of the registry.
  `Q = 2F+1` needs `N = 3F+1`; two quorums of three among five share one
  replica, and if that one is the faulty primary one view certifies two hashes.
- `threads`: the test that refuses a second PRE-PREPARE of a slot is not made
  under the lock that records the first. One backup that serves both at once
  votes for both, and together with a faulty primary certifies two hashes in
  one view. With the handler as one step this is impossible (`Agreement`); with
  threads, whatever they do, two such certificates convict a correct replica of two
  signed PREPAREs (`ThreadsConvict`).
- `settlement_restarts`: the reservation a prepare answer promises is only in
  memory. Two of four nodes restarting between two calls (a rolling update)
  let both calls win.
- `ledger_supply`: the supply already issued is the sum over the legacy book.
  After the split every block goes to the public or the private book, so the
  sum is frozen and the reward is never cut by the cap. The second test, in
  `mining/protocol.py`, uses the same sum.

- `primary_down`: when the primary is dead, each replica's watchdog signs a
  VIEW-CHANGE in its own file and posts it to itself. The coordinator's
  automatic VIEW-CHANGE calls a method the finality store does not have and
  swallows the exception. No replica ever holds a quorum of rows, and the view
  stays, although the docstrings say that consensus continues.
- `work_twice`: two appends of one WorkID, served by two threads, both read it
  unsettled before either saves it, and two blocks pay it. Until two calls read and
  rewrite the registry at once, this cannot happen (`PaidOnce`).

Disagreements seen while modelling the services that no run counts as a
violation. Each is outside what the properties state, and the comments of the
properties say where they stop:

- `revoke_with_history` takes the first record that *any* criterion fits, while
  its documentation gives the binding's identifier priority: a call with
  an identifier and a wallet may revoke another binding of the wallet.
- After a rotation of the creator's key an earlier veto counts as an ordinary
  vote, and the new key may vote again.
- A prepared value is not held where somebody claims prepared values for others (the
  265 rows, `/pbft/bind-prepared`) or a view file was torn: `accept_preprepare` tests
  the lock, but `emit_prepare` (`pbft_finality.py:563`) signs later without asking
  `_must_digest` again. A replica may accept what one claim bound, be bound to
  another value, or fall back to view 0, and then vote for the first.
  `PreparedValueHeld` is checked without these requests and proved under
  `NobodyClaims`, for replicas whose files are not torn.
- A chunk whose owner is another node and which names no `owner_callback_base` is
  posted to nobody, marked done and saved (`pool/service.py:419-437`): its result
  stays with the worker, although the docstring of `process_incoming_chunk` has the
  worker return it to the owner, and the route does not require the field.
- The index of a book is shared by all threads without a lock. Two of them that scan
  at once, or one that scans while another appends, mix their offsets in the list
  and take its length for their own: a look-up gives another block, although
  `book_index.py:42` promises "holes/duplicates safe lookups". An append that meets a
  reader's rebuild finds an empty book and numbers its block 0 again.
- Two threads that append or import at once read the same tip and both write after
  it: the public book forks in itself, or holds a block twice.
- The public lines of a legacy book are copied by the split as they stand, with
  the indexes and links they had among private lines: the public book need not be
  linked there.
- The suspension for degradation resets the mark it was counted from: the next
  assessment starts a new grace, and from there a way in makes the node DIRECT
  without the streak the anti-flap rule asks for. A change of network skips the
  streak too, and one successful probe counts for good.
- Suspensions (`ban_until`) are not restored at a restart, a later minor slash
  may shorten a longer one, and one torn line ends the loading of events.
- `mark_grace` makes a retired or transferred machine live again; an operation
  that raises stays at its place and makes every later epoch fail there; the
  waiting operations are forgotten by a restart.
- The routes that issue capability tokens and the middleware that redeems them
  hold two different stores.
- The producer elected by the failover never produces.
- A call that reads `governance.json` while another has emptied it finds no
  authority, and an `_upsert` for another subject then writes a file without
  it. A crash between the two files of an accepted transfer leaves the transfer
  proposed: it can be accepted again when control is back where it was. A
  controller who is not the legal owner may propose a sale.

Two more facts the ledger runs show and no run counts as a violation: a WorkID
stays settled when its append fails, was a dry run or is cut short, so the work
is then never paid; and a crash during the split leaves a shorter book that the
next start takes as complete.

## 4. Proofs

TLAPS checks every step; nothing is assumed but the named assumptions on the
constants, each in the module that declares them: thresholds and bounds are
naturals, a "none" is not one of the values, the replicas, blocks and rows are of
their kinds. `IssuedAssumption` says that a sum of naturals over the legacy book
is a natural: an induction over the book, which the provers cannot make, and which
TLC evaluates. Some theorems have a hypothesis of their own, said where they are
listed: `QuorumsMeet`, `NobodyClaims`, `CallsMeet`, or an official replica.

`PbftVotes_proofs`
- `TypeCorrect`: `VotesSpec => []TypeOK`.
- `VotesInvariant`: `VotesSpec => []VotesInv`. `OneVotePerSlot` alone is not
  inductive: `enter_view` erases locks. What saves it is that `enter_view` runs
  for a view already installed (`EnteringBelow`) and erases only locks of views
  below it, so a PREPARE of the current view is still locked (`VoteLocked`);
  views only grow, so older slots are never signed again. `PreparedBacked` and
  `CommitBacked` say that a COMMIT rests on a PREPARE quorum. They hold for any
  row a faulty replica signs and for truncated files, because votes, once
  signed, exist.
- `OneVote`: `VotesSpec => []OneVotePerSlot`.
- `Agreement`: under `QuorumsMeet`, `VotesSpec => []SameViewAgreement`. Two
  commit certificates have an honest committer each, so two PREPARE quorums;
  they share a replica that is neither faulty nor truncated, which would have
  signed two PREPAREs. `QuorumsMeet` is what five replicas lack.
- `BookFollows`: `VotesSpec => []BookFollowsCertificates`. The book is written when the
  block's certificate verifies, the certificate is stored by its own request, and a
  truncated file loses certificates but not the book, so neither determines the
  other. `BookInv` says that each has a COMMIT quorum of some view behind it, which no
  later row takes away; they differ only if two verifiable certificates do, which is
  what `votes_agreement` finds.
- `CertificatesStay`: `VotesSpec => CertifiedIndexKept`, an action property, by the
  handlers one by one: only those that store a certificate touch the table, and
  both keep one that is there.
- `PreparedIsHeld`: under `NobodyClaims`, `VotesSpec => PreparedValueHeld`, an action
  property, for any number of views and indices. A lock is tested when the block is
  accepted and the PREPARE is signed later; between the two the slot may be prepared,
  the constraint replaced and older locks erased. `HeldInv` says that a constraint is
  on something its replica prepared (`BoundIsOwn`), that a prepared slot of the current
  view is still locked on its digest (`UsedSlots`), hence that the lock of the current
  view is on the one prepared digest (`LockHeld`). `NobodyClaims` leaves out the
  `view-change-265` rows and the bind requests: no code of a node sends them, only the
  operator's scripts do. With them the property fails beyond the instance of
  `votes_viewchange`: a replica may accept what one claim bound, be bound to another
  value and then vote for the first.
- `AgreementAcrossViews`: under `QuorumsMeet` and `NobodyClaims`, `VotesSpec =>
  []((CertificatesAgree /\ CertificateAgreement) \/ Overruled)`. `Overruled` is a fact of
  the state: a correct replica signed a PREPARE against what it had prepared at that
  index in an earlier view, and holds a certificate for another digest than its
  vote's. That is what `_must_digest` lets it do, and `votes_agreement`, which
  satisfies both hypotheses, reaches; the theorem says that certificates disagree for
  no other reason, however views, faulty rows and crashes mix. The invariant,
  `ChoiceInv`, speaks of the digests a slot may still choose: those that a quorum has
  prepared, may yet prepare, or consists of replicas not to be relied on
  (`Choosable`). What is no longer choosable never is again (`ChoosersShrink`: a replica
  prepares in its view only, and views grow), and whoever locks or votes for a digest
  has prepared, in the views before, nothing else that is still choosable
  (`LocksClear`, `VotesClear`), or is `Overruled`. A certificate's digest is choosable
  (`CertificateChoosable`), a PREPARE quorum of a later view shares a correct replica
  with those that chose it, so it is for the same digest (`VotersClear`).

`PbftFinality_proofs`
- `StoresCorrect`: `FinalitySpec => []StoresTypeOK`; a stored row was signed by
  the replica it names, so a quorum counted is a quorum that was signed.
- `StoresRefine`: `FinalitySpec => VotesSpec`, from that fact and one step lemma
  per handler. `StoresAgree` reads agreement off the refinement.
- `PreparedStaysProven`: `FinalitySpec => []PreparedStillProven`. A later row of a
  signer replaces its earlier one, and `enter_view` erases locks. `ProvenInv` adds
  what keeps the quorum in the table: a prepared slot of the current view is still
  locked on its digest (`LockedFor`), so no row with another digest is stored for it;
  `enter_view` erases only locks of older views.
- `StoresMatchBook`, `StoresKeepCertificates`, `StoresHoldPrepared` and
  `StoresAgreeAcrossViews` read the same facts about books, certificates, prepared
  values and agreement off the refinement.
- `ThreadsConvict`: under `QuorumsMeet`, `ThreadsSpec => []TwoCertificatesOneCulprit`, for
  any number of threads. Where the locks are replaced under one another, agreement in
  a view is lost (`threads`), but not evidence: behind each COMMIT is a PREPARE quorum
  (`QuorumInv`, what survives of `VotesInv`), so two certificates of a view have a correct
  replica behind them that signed both PREPAREs.

`Settlement_proofs`
- `SettleInvariant`: `SettleSpec => []SettleInv`. A vote of a node that never
  restarts stands as a reservation or a settled work (`VoteStands`), so it was
  given to one SettlementID (`VotesAgree`); every commit request on its way and
  every ledger row has a won call behind it (`CommitsWon`), however late.
- `SettlementUnique`: under `CallsMeet`, `SettleSpec => []OneSettlement`.
  `CallsMeet` (quorums of calls for one work share a node that never restarts)
  is the condition the code does not check: it computes the quorum from its own
  peer table and keeps reservations in memory.
- `SettlementRefines`: under `CallsMeet`, `SettleSpec => WorkSettled`.

`ChainLedger_proofs`
- `LedgerTypeCorrect`: `LedgerSpec => []TypeOK`.
- `RangeCertified`: for an official replica, `LedgerSpec =>
  []ExclusiveRangeCertified`, with any number of threads. The test and the write
  of an import are steps of different moments; `RangeInv` says that a thread
  about to write in the range holds a certified block, which stays certified.
  Appends cannot reach the write step there, because a replica's public append
  goes through finalization.
- `PaidOnce`: `LedgerSpec => []WorkPaidOnce`, with any number of threads.
  `WorkPaidOnce` is not inductive: a certified block may be imported long after the
  append that paid its WorkID failed. `SettledFirst` counts certified blocks and those
  of threads past the registry as paying, and says that a paying block's WorkID is
  already settled, and that a thread about to rewrite the registry has the rows of the
  file. It holds because the registry is saved before finalization: the very order
  that loses works. The theorem ends where two calls read and rewrite the registry at
  once (`crossed`), which `work_twice` shows to be enough to pay twice.
- `LinesExtend`: `LedgerSpec => []LinesExtendLines`, with any number of threads. A block
  is placed after a tip long before it is written. `LinksInv` says that what every call
  holds follows its book as it is or once was (`Grounded`); books only grow, so that
  stays true whatever other threads write.

`Authority_proofs`
- `TrailAlwaysExplains`: `TokenSpec => []TrailExplains`, inductive beside the types
  (`TokenShape`): only a pending token's attempt is answered with anything but a
  refusal, so no earlier attempt had decided it.
- `FounderStays` and `ApprovalsHonest`: `GroupSpec => []FounderKept` and
  `=> []ApprovedWasAdmitted`, with any number of threads. Neither is inductive: a
  call writes back a copy it read long before. `GroupInv` says of every copy
  held what the properties say of the files; since admissions only
  accumulate, an old copy stays as true as it was when it was read.
- `VotesDecide`: `VoteSpec => []OutcomeOfTheVotes`. A call computes the outcome from
  the file it read and writes it after others have voted. `VoteInv` says of the
  outcome written, and of each outcome a call is about to write, that it is the tally
  of the votes up to some moment since the closing (`Backed`): votes are only added,
  so what was a moment stays one.
- `VetoStands`: `VoteSpec => []VetoHolds`, from the same invariant: a veto among the
  votes recorded before the closing is in every tally since, until the creator is
  rotated.
- `AuthorityIsAgreed`: `ControlSpec => []AuthorityAgreed`, for any number of
  threads. `AuthorityAgreed` is not inductive: a call writes a row it read or
  built several steps earlier. `ControlInv` adds that every row a call holds is
  agreed on (`HeldAgreed`) and that the transfer it decides is a line of the file
  (`CallShape`). What was agreed on stays so, because more lines and more
  acceptances leave fewer sets closed under them (`ClosedBefore`).

`Machines_proofs`
- `NoneLost` and `HumanBoundOnce`: `MachineSpec => []NoMachineLost` and
  `=> []BoundOnce`. A transfer retires the machine and registers its heir in two steps,
  the list of operations is replaced only when the epoch is through, and an operation
  that raises leaves the whole list. `MachineInv` adds that the transfers the epoch is
  past have their heirs (`TransfersPast`), so the list may be replaced.
- `OneWallet`, `NoneVanishes` and `RevokedStays` (an action property): `BindingSpec =>
  []OneActivePerDevice`, `=> []NoBindingVanishes`, `=> RevokedForGood`. `BindingInv`
  adds that identifiers are drawn once (`IdsDrawn`) and that a purge has logged the
  revoked record before it removes it (`PurgeLogged`).
- `GraceIsGiven`: `NetSpec => []GraceGiven`. `GraceInv` compares the mark the code
  counts from with how long there has been no way in: the mark is never older.
- `DoneDelivered` and `FinalizedComplete`: `PoolSpec => []DoneWasDelivered` and
  `=> []OnlyCompleteJobsFinalized`, for any number of threads. Files are overwritten
  with stale copies and may be read while truncated. `PoolInv` says of every copy a
  thread holds that it claims no result that was not delivered, but for lines that name no address
  to deliver to: results only accumulate, so a stale copy forgets but never claims too much.
- `BanStays`: `SlashSpec => []BanKept`, for any number of threads. Not inductive:
  what a restart bans is read from two files that slashes under way have not
  reached. `BanInv` says which file restores every ban: both until a crash cuts a
  write, and after one cut the other one.

`Books_proofs`
- `OnePast`: `SyncSpec => []SamePast`, for any number of nodes and threads. Two books with
  a block in common could still differ by what is about to be written. `SyncInv` adds
  that hashes are drawn once, each for one block (`OneBlockEach`), and that every
  line, and every block a thread is about to write, follows one that its book had
  before (`PastsHeld`): what was a tip stays a line.
- `IndexStaysExact` and `LookupsRight`: `BookSpec => []IndexExact` and `=> []LookupRight`,
  for any number of readers. `IndexInv` has two parts. `Sound`, as long as no calls have
  crossed: memory leads to right lines (`Leads`), the files on disk do too or are none
  that would be loaded (`Dull`), which is why a crash may come anywhere; and of the one
  thread at work it says what its offset and number are worth at each place
  (`AtWork`): between `ScanLine` and `TakeNumber` the last offset is its own because
  nobody else appends. `Whole`, as long as no line was torn either: how many of
  the lines the memory and files hold there (`Holding`).

`Services_proofs`
- `ServicesTyped`: `ServicesSpec => []ServicesTypeOK`, for any constants. The types of
  the pool, the bindings, the book index, synchronisation, the votes and the network
  gate are part of the invariants above; those of the tokens, groups, machines,
  slashing and control transfers are proved beside them (`TokensTyped`, `GroupsTyped`,
  `MachinesTyped`, `SlashesTyped`, `ControlTyped`), those of the views here
  (`ViewsTyped`). That a request list fits its bound needs more than the type of the
  file: a copy a call holds may be written back later, so no copy is longer
  (`GroupShort`).

The inductive invariants were checked by TLC on the instances of the runs before
they were proved.

Only model-checked: the liveness property `StallEnds` (violated). Out of the prover's reach,
and left to TLC: liveness under fairness, ENABLED, induction over data, and RECURSIVE
operators (none is used).

## 5. Plan

1. `PbftVotes`, `PbftFinality` and the proofs of agreement: done.
2. `Settlement` against `WorkSettlement`, with proofs: done.
3. `ChainLedger` with its proofs, for any number of threads: done.
4. `PrimaryLoss` (liveness) and the twelve services: done.
5. Proofs of the services' safety and action properties, and of their types: done.
6. `PbftFinality_proofs`, the stores' invariants, `FinalitySpec => VotesSpec` and the handlers as threads: done.
7. Not begun: job payments and webhooks, grants and their revocation; repeated settlement calls (a split vote, a commit that was lost).

## 6. Not modelled

Cryptography (signatures and hashes are abstract), content conversion
(language, IR, memory, reasoning), logs and traces, adapters (MCP, SDK,
connectors), measurements of hardware. They compute or copy data and keep no
state that a protocol depends on. Each is listed with its reason in
`PROJECT.json`, as are the components of the plan that have no module yet. They
are most of the repository by size: the state that several actors change and
that outlives a call is in some forty files, and the models cover its core.

Within the modelled services, left out are the contents a decision does not
depend on (texts, scores, names, reasons), signatures, routes that only read, and
files that are only written.
