# effect-utils: a verification project

effect-utils is a monorepo of TypeScript packages (and two Rust tools) around
Effect.  Most of it is pure transformation: parsers, schemas, renderers, code
generators, clients.  What runs concurrently, survives crashes and can lose
data is `@overeng/notion-datasource-sync`, a two-way sync between a local
SQLite store and a Notion data source; `@overeng/effect-distributed-lock`, as
megarepo uses it; the renderer of `@overeng/notion-react`, which rewrites a
live page call by call; and `@overeng/agent-session-ingest`, which follows files
that other programs write.  This project is about those four, the sync first.
Paths below are relative to `packages/@overeng/`.

## 1. Inventory

### notion-datasource-sync

**Outbox store** (`store/store.ts`, `store/schema.ts`, `store/projections.ts`).
State: `_nds_sync_event`, an append-only log per root with a unique idempotency
key, and projections of it, `_nds_outbox` among them.  Every insert clears all
projections of the root and replays the log in the same transaction; an event
whose key is taken is returned and changes nothing.  Operations: append, claim
the next command, check a lease, append an attempt state or a settlement,
rebuild, decide on compaction.  Hard: leases by wall clock whose columns are
not in the log, late appends of workers that lost their lease, keys used up by
events that the projection ignores.  Correct when: the projection is a
function of the log, an attempt number is used once, a superseded run has no
effect on the row, settled is final.

**Outbox executor** (`sync/executor.ts`, `gateway/notion.ts`).  State: the run
of each worker (one-shot syncs and watch daemons share a store) and the
requests on their way to Notion.  A run claims, observes the surface, checks
the base and the lease, writes, observes again and appends a settlement or a
failure; each step is an await.  Hard: anything may happen between two awaits;
a crash after the write; a lost answer; other editors.  Correct when: a write
is sent by the newest attempt only, a settlement has evidence, every planned
command comes to rest.

**Signal inbox and watch daemon** (`store/store.ts` 984-1190,
`daemon/watch.ts`, `webhook/receiver.ts`).  State: `_nds_signal_inbox` with
leases of its own, the daemon's state file (cycle, last complete cycle,
repair), the wake notifier.  A webhook enqueues a signal and wakes the daemon;
a cycle claims one, pushes, pulls, settles it, or releases it on failure.
Hard: a lost wake-up, a cycle that outlives its lease, a failure between claim
and release, two daemons.  Correct when: a processed signal's change was
pulled, no signal is lost, a fenced daemon settles nothing.

**Rows, conflicts, tombstones** (`store/store.ts` 2700-3426,
`planner/conflict-commands.ts`).  State: per page a row with its `in_trash`, a
tombstone, the evidence of an absence, lifecycle conflicts, and the last settled
archive or restore, the local target.  An observation that contradicts the
target raises a conflict, which freezes `in_trash` until it is resolved:
keep-remote takes the remote state, keep-local re-asserts the target by a new
command and waits, frozen, for its settlement.  Hard: each append is a
transaction of its own and other processes come in between; events are
deduplicated by content, so what comes back may be dropped; settle, resolve and
forget race; a process may end between a resolution and its command.  Correct
when: a contradiction of the target is on record, a conflict that waits has a
command to wait for, properties converge under any freeze.

**Sync passes and planner** (`sync/sync.ts`, `sync/observation.ts`,
`planner/`).  Pull, plan, drain up to N commands; guards against stale bases.

**Replica, local workspace, body sync, webhook transport, CLI**.  SQL views and
triggers, file I/O, Markdown, HTTP, output.

### effect-distributed-lock, its file backing, and megarepo's store lock

`megarepo/src/lib/store-lock.ts` guards worktrees and lock files between
processes.  State: a gate (a semaphore in memory) per process and key, and
around it a distributed semaphore (`DistributedSemaphore.ts`) whose permits are
files with an expiry (`utils/src/node/file-system-backing.ts`).  A caller enters
the gate, polls for the permit, runs its effect while a keep-alive fiber
refreshes the file, and releases.  Hard: every check of the backing is separate
from the write that relies on it; a slow holder's file expires and is removed by
whoever reads it; a refresh that meets a missing file interrupts the effect; a
revocation, a crash or a failing backing comes at any file access.  Correct when:
the gate excludes within a process, processes that do not overlap their
acquisitions stay within the limit, a holder is told of a lost permit and is told
so only for a reason, nobody waits for ever.

### notion-react: diff and sync of a page

`sync()` (`renderer/sync.ts`) makes a Notion page show a rendered tree.  State:
the page, a cache file of what earlier syncs wrote, and within one sync the plan,
the working copy of the cache and the ids of what has landed.  It compares the
live top-level children with the cache (drift), makes a base of the two, diffs it
with the rendering (`renderer/sync-diff.ts`: a longest common subsequence stays,
the rest is appended, inserted and removed), groups the plan into batched calls,
writes a checkpoint of the working copy after every block call and the whole
rendering at the end.  Hard: the API has neither transactions nor request tokens;
a sync may die between any two calls; the HTTP client repeats a call whose answer
is lost; people edit the page; only the top level is compared.  Correct when: an
undisturbed sync converges whatever came before, the next one is silent,
checkpoints tell the truth, nothing disappears before its copy is there.

### agent-session-ingest: polls of transcripts

`watchSource` (`watch.ts`) polls what a coding agent has written: a JSONL file,
read from an offset on (`files/append-only.ts`, `adapters/jsonl.ts`), or a
session in OpenCode's database, read from a time and a key on
(`adapters/opencode.ts`).  State: the checkpoint file, which all sources share,
and what a poll has read so far.  A poll (`services/SessionIngestor.ts`) loads all
checkpoints, reads its source, saves all checkpoints and hands its records over.
Hard: a poll opens the transcript up to five times, and the agent appends to it or
replaces it in between; rows share milliseconds and are stored between the queries;
two sources save over each other; a save empties the file first, and a poller may
die before or after it.  Correct when: nothing before a saved cursor was passed by,
repeats have a reason, every source catches up.

### The other packages

`PROJECT.json` lists each with the reason it is not modelled: pure
transformation, user interface, process wrappers, or a protocol that belongs to
an external runtime.

## 2. Modules

| module | models | role |
|---|---|---|
| `OutboxStore` | `store.ts`: log, keys, `#applyEvent` for the outbox, claim, lease, compaction | state and operators of the store |
| `OutboxExecutor` | `executor.ts` over it, the gateway's base check, remote side, faults, forget, clock | the composed specification, its properties |
| `CommandLifecycle` | what a command's user is promised | abstract specification |
| `OutboxProofs` | theorems about `OutboxExecutor` and what it does to `OutboxStore` | proofs |
| `SignalInbox` | `store.ts`: enqueue, claim, settle, release of signals | state and operators of the inbox |
| `WatchDaemon` | `watch.ts`: cycle, loop, wake notifier, state file; `receiver.ts`: delivery and wake | the composed specification, its properties |
| `WatchDaemonProofs` | theorems about `WatchDaemon` | proofs |
| `MCWatchDaemon` | constants of the instances | model checking |
| `MCOutbox` | constants of the instances | model checking |
| `RowLifecycle` | `sync.ts`, `observation.ts`, `conflict-commands.ts`, `store.ts`: the trash state of a page | specification and properties |
| `RowLifecycleProofs` | theorems about `RowLifecycle` | proofs |
| `MCRowLifecycle` | constants of the instances | model checking |
| `HolderFiles` | `file-system-backing.ts`: the permit files, each access a step | state and operators of the backing |
| `StoreLock` | `store-lock.ts` over `DistributedSemaphore.ts` over it | the composed specification, its properties |
| `StoreLockProofs` | theorems about `StoreLock` | proofs |
| `MCStoreLock` | constants of the instance | model checking |
| `SiblingDiff` | `sync-diff.ts`; from `sync.ts` the batches and the working cache | pure operators on trees |
| `PageSync` | `sync.ts` over it, the page, faults and other people | specification and properties |
| `PageSyncProofs` | theorems about `SiblingDiff` and `PageSync` | proofs |
| `PageSyncConvergence` | that a sync converges, on top of `PageSyncProofs` | proofs |
| `MCPageSync` | renderings of the instances | model checking |
| `JsonlReader` | `append-only.ts`: offsets, head samples, lines | pure operators on bytes |
| `RowReader` | `opencode.ts`: the order of rows, the filter, the next cursor | pure operators on rows |
| `SessionIngest` | `watch.ts`, `SessionIngestor.ts`, `CheckpointStore.ts` over both, agents and deaths | specification and properties |
| `SessionIngestProofs` | theorems about `SessionIngest` | proofs |
| `InductionLemmas` | nothing of the code: induction over numbers, recursive functions of one place and of two, the layout of a flattened sequence | lemmas |
| `MCSessionIngest` | transcripts and sources of the instances | model checking |

### The store

`log` is `_nds_sync_event`, `outbox` is `_nds_outbox`.  `AppendEvent` is the
transaction of an append: look the key up, insert, clear the projection and
replay the whole log (`Rebuilt`).  That the projection is the replay of the log
holds by this construction, in the code as in the module.

The columns `updated_at` and `retry_after_at` are computed from the clock
during the replay, for every row, at every insert.  All rows therefore share
one instant, the last rebuild, and `age`, the ticks since then, is all that is
left of both columns.  Events that the outbox does not read (observations,
conflicts) still rebuild: action `Rebuild`.

Lease tokens belong to configurations, not to runs: every one-shot sync of a
root uses `one-shot:<root>` (`sync.ts` 1067-1068), a watch daemon uses a token of
its instance (`watch.ts` 641).  `Token` therefore gives workers any tokens, shared
or not.

`Key` keeps what the idempotency keys tell apart: the claim's key
`attempt:<command>:<n>`, the report's `<key>:attempt-state:<n>:<state>:...`,
the settlement's `<key>:settled`.  `Settled` has a flag `exact`, whether the
observed hash of the event is the desired one.

### The executor

`pc` is the await a worker is at:

    idle -Claim-> observe -ObserveBefore-> lease -CheckLease-> await
         -RemoteWrite-> verify -ObserveAfter-> settle -Settle-> idle
    and from each of them to record -RecordAttemptState-> idle

A request lives in `network`: the gateway reads the surface again
(`GatewayCheck`) and then writes (`RemoteWrite`); in between others may edit.
`WriteError` is an error of either: the request may be gone or still on its
way.  `Stop` is a crash, a cancelled or timed-out cycle, or a failed
transaction: the run is gone, its request is not, if it had left.

Hashes are abstracted to the two comparisons the executor makes: does the
observed base equal the planned one (`base`), does the observed verification
hash equal the desired one (`met`).  The five kinds of commands are the five
ways a write shows in them (`Kinds`): a property patch can only be seen as "the
page changed", a created page not at all, a long relation by reading it back.

External and modelled from its use: the Notion API (`Written`), other editors
(`ThirdPartyEdit`).

Left out: the decision which command is claimed first (`ORDER BY`; any
claimable one may be), a planned event without a command (the claim is
recorded as blocked at once, a path the current planner does not produce), body
pointers, spans, progress.  Each command has a surface of its own: the base of a
command may be changed by another command as by any other editor.

### The signal inbox and the watch daemon

The inbox is a table that is updated in place, so `age` of a row is the time
since its own claim.  `ClaimSignal`, `SettleSignal` and `ReleaseSignal` compare
the lease token, which is the instance's identity.

`pc` of an instance is the await its cycle or its loop is at:

    start -ReadState-> begin -WriteStarted-> claim -ClaimNextSignal-> push
      -FastPush-> pull -PullReads-> append -PullAppends-> settle -SettleHeld->
      complete -CompleteCycle-> done -ChooseDelay-> rest -AwaitWake-> asleep | start
    FailInPass (pull, append, settle): releases the signal, writes a retry
    FailOutside (begin, push, complete): releases and writes nothing

The data source is a counter of edits; the pull reads it at one moment and
appends what it read at a later one.  Signal `n` announces edit `n`.  `Deliver`
stores a signal, `Wake` is the call that follows once the receiver has written
its span; a delivery may be repeated, to another instance too, or never come.
The state file is reduced to what chooses a delay: whether the last cycle
started is the last one completed, and the repair.  The fast push and the drain
at the end of a pass are `OutboxExecutor`'s runs and change nothing here.

Left out: dry runs, which claim and write nothing; the order of claims
(`ORDER BY updated_at`; any claimable signal may be claimed); the signal state
`failed`, which no caller asks for; `maxCycles`.

### The trash state of a row

`job` is what a process is at and what it has read for it:

    idle -Query-> listed -Hydrate-> compare -Compare-> record -AppendRow-> idle
    idle -Query-> absent -Classify-> candidate -AppendCandidate-> compare | idle
                                          compare -Compare-> record -AppendTombstone-> idle
    idle -Decide-> decided -AppendResolution-> reassert -AppendReassert-> idle

`Compare` is the divergence check with the append of what it raises: the check
reads the target and appends at once, without an await, and the conflict's own
insert is its transaction.  `logged` is the set of idempotency keys: a key that
is taken makes the append a no-op.  The keys of row observations and tombstones
hold content and no occasion; a conflict's key holds two lifecycle hashes, so
there is one conflict for each remote state, `conflict[r]`.  The log has no
order here because the projection is updated as events come, which
`OutboxStore` shows equal to the replay for its own table.

A lifecycle command is written, verified, refused or settled by any worker, in
any order with the rest: claims, leases and retries are `OutboxExecutor`'s.  The
base of a command is the properties' hash; the follow-up of keep-local is given
a lifecycle hash instead, which no page content has (`NoBase`), so it is refused
unless the page already is where it should go.

History variables: `raced` is set when an observation is appended although the
target changed since its check, and reset by the next settlement; `cut` holds the
conflicts whose process ended between the resolution and its command.

Left out: bodies, pages that moved or became inaccessible, property conflicts,
the decision of compaction, the restore command of the CLI (the planner's restore
stands for it).

### The store lock

`phase` is where a call is, `op` the file operation it is in the middle of,
`lock[h]` the ticks until the holder's file expires, or `NoFile`.  `listed`,
`counted` and `stale` are what an acquisition has read and not yet acted on, `age`
the ticks since the operation read the clock.

    queued -EnterGate-> trying -Acquire-> held -EndEffect-> releasing -Release-> done
    in trying:  Attempt (list), then Scan (read a file, remove an expired one),
                until Refuse (poll again) or Acquire (publish the own file)
    in held:    Refresh reads the own file, Renew writes it back;
                a file that is missing makes the lock lost, and the effect ends

One key, since keys share nothing.  Every caller in the repository takes one
permit under a fresh identifier, so a holder stands for a call; genie's callers
have no gate, each being a process of its own.  Time is relative; `MaxLag` bounds
how far a step may lag behind its own reading of the clock.  A rename is asynchronous: the
interruption of a fiber does not cancel the rename it has issued
(`InterruptsRefresh`, `IssueRename`; the platform's file system is external).
History variables: `rivals`, who published while a holder was acquiring;
`lapsed`, who ran without a live file; `excused`, who was slow or revoked.

Left out: acquisition on a push notification (off in `store-lock.ts` 98-111),
several permits, `listHolders`, `forceRevokeAll`.

### The sync of a page

A rendered node is a record of its key, kind, hash and children, a cached one has
the id the server gave it as well, a live one has no key.  The hash stands for the
payload, the kind for the node kind and the block type.  A list is a page's, or
that of one block, whose children are leaves; the recursion of `diffChildren` is
the same on every level.  Temporary ids are the paths of keys, and `bound` is
`idMap` together with the ids that `diffChildren` takes over.

`Begin` is the retrieval, the diff and the grouping: the page may change as soon as
it has been read, so nothing is lost by taking the steps between reading and the
first call together.  Then each call is a step:

    idle -Begin-> syncing -Send*-> syncing -Finish-> idle
    Refuse: the diff throws;  Rejected, Stop: the sync ends early
    LoseAnswer: the call lands, its checkpoint is not written
    SendTwice: the call lands twice, the second answer counts

`RetainedKeys` is the code's table and walk, ties included; `Plan` is its order of
operations: a list, then the lists below it, then its removals, and the calls that
rename and archive sub-pages last.  `Calls` breaks runs where the code does and
anchors every batch after the first on the one before.  The Notion API is external:
`Landed` and `Accepts` are what the driver relies on, among it that a move within
one parent is refused, which `runMovePage` takes for done.

History variables: `quiet`, nothing disturbed the sync since it read the page;
`known`, the cache was right about what drift detection does not compare; `tidy`,
no sub-page had to go before a sibling that stays; `lost`, some call landed
unrecorded.

Left out: the content of sub-pages, columns and tables, which are created with
their children, `reorderSiblings`, the page's own title, upload ids, `coldBaseline:
'merge'`, caches of an older schema.

### The polls of transcripts

`phase` is what a source's poller did last; each step is one access or query:

    idle -Load-> loaded
    loaded -Stat-> stated -Sample-> sampled -ReadText-> read      a transcript
                   sampled -ReadText-> window -ReadBoundary-> read  its tail only
    loaded -ReadSession-> session -ReadMessages-> messages -ReadParts-> read
    read -Truncate-> truncated -Write-> saved -HandOver-> idle
    Fail (a line or the checkpoint file does not decode), Crash: -> dead -WatchAgain-> idle

A transcript is a sequence of bytes, of which only the newlines, the record and
place a byte comes from, and whether it continues a character are told apart: the
reader mixes offsets in bytes with lengths of decoded text, and `Units` is such a
length.  The hash of the first bytes is those bytes (`HeadOf`); size, time and tail
hash are left out, since `resetToStartBecauseRewrite` is decided by the head hash
alone.  `Malformed` records are complete lines that the schema of their source does
not decode: such a line fails the poll.  Rows are triples of rank, identifier and
time.  The code has two orders of them: it sorts with `localeCompare`
(`SortsBefore`, with `Place` for a locale's order) and takes the last row's key for
the cursor, and it filters by the code units of the order key (`KeyBefore`).

A save is `writeFileString`: the file is empty for a while, what another poller
saved in between is overwritten and may stick out at the end (`WrittenOver`): in the
middle of a line, so that the file no longer decodes (`Torn`), or with whole lines,
which then win.  A death leaves any part of what was being written.  A file that is
torn is taken to stay so when a shorter one is written over it, which takes three
saves at once.  The file of an agent, its database and the application that
watches a source again after a failure are external.

History variables: `once`, what a source's consumer was given; `dropped`, what a
death lost after the save; `excused`, what the reader may pass by: the text before
a first read's tail, what lies before a cursor in a replacement that its head sample
(or its lack of one) does not tell from the file it is of, rows stored behind a cursor or between two queries; `last`, where the
last poll ended.

Left out: discovery, sources with several artifacts, a session that is gone, the
reader of whole files (`files/mutable.ts`), normalized translations.

## 3. Runs

| run | expects | shows |
|---|---|---|
| `outbox_safety` | pass | fencing, evidence, replay, compaction, life cycle |
| `outbox_liveness` | pass | planned commands come to rest |
| `create_twice` | violation | an interrupted creation is sent twice |
| `forgotten_writes` | violation | a forgotten page is written |
| `watch_daemon` | pass | signals, leases and wake-ups of two daemons; signals are processed and edits pulled |
| `store_lock` | pass | exclusion, losses and progress of the store lock |
| `row_lifecycle` | pass | conflicts, re-assertions and convergence of a row |
| `second_divergence` | violation | a page's second divergence flips its row |
| `page_sync` | pass | convergence, checkpoints and minimality of page syncs |
| `retries_can_diff` | violation | an interrupted reorder stops all later syncs |
| `session_ingest` | pass | nothing is passed by, repeats have reasons, sources catch up |
| `wide_records` | violation | text outside ASCII leaves the cursor inside a line |

Properties of `outbox_safety`:

- `TypeOK`, the one type invariant.
- `OneWorkerPerAttempt`: the attempt number fences, whatever the clock does.
- `SettledHasEvidence`: settled means the desired hash was observed or, where it
  cannot be, that the write was carried out.
- `CompactionFindsNoRun`: when compaction is allowed no run is on an unsettled
  command, forgotten pages excepted.
- `WritesAreFenced`: the lease check lets only the newest attempt send; a superseded
  run gets past it only if it shares its token with another worker, and not before
  a second takeover, since the first one is ambiguous and stops everybody.  With one
  more takeover the code has no fence: two one-shot syncs can send one write twice.
- `SupersededReportsIgnored`: a late failure report changes no row.
- `SettledIsFinal`, and `ImplementsLifecycle`, the refinement of
  `CommandLifecycle`.

Properties of `watch_daemon`:

- `TypeOK`, the type invariant of `WatchDaemon`.
- `ProcessedSignalsWerePulled`: whichever instance claims, loses, fails or
  settles a signal, processed means that its edit is in the log.
- `SleepersMissNoSignal`: a daemon does not sleep its backoff over a signal of its
  own receiver, whenever the signal is stored and the wake-up comes.
- `LeasedSignalsStayPut`: within its lease a signal leaves its claim only through
  the pass that holds it.
- `StoredSignalsAreProcessed`: also after a cycle that died or failed before its
  pass and released nothing.
- `EditsArePulled`: also when the signal never arrives.

Properties of `store_lock`:

- `TypeOK`, the type invariant of `StoreLock`.
- `GateExcludes`: two calls of one process never hold the lock together, whatever
  becomes of the files.
- `NoOvercommit`: among holders that never ran without a live file, and of which
  none published while another was acquiring, the limit is kept.
- `LossExplained`: a lock is lost only by a holder that was revoked or did not
  refresh, or finish an operation, in time.
- `LossNoticed`: a holder whose file was removed stops, unless its next file was
  already being written.
- `NeverWedged`: crashed holders, failed releases and late renames block a caller
  for a time only.

Properties of `row_lifecycle`:

- `TypeOK`, the type invariant of `RowLifecycle`.
- `ContradictionsAreRecorded`: a row contradicts the last settled archive or
  restore only where a conflict of that direction has been put on record, or a
  settlement came between a pull's check and its append.
- `ResolvingIsReasserted`: a conflict that waits for its re-assertion has a
  command, or a process about to append it, or lost it with that process.
- `NewContentIsMirrored`: properties seen for the first time reach the row, under
  any freeze and after any crash.

Properties of `page_sync`:

- `TypeOK`, the type invariant of `PageSync`.
- `OneSyncConverges`: whatever earlier syncs and others left, one undisturbed sync
  makes the page equal to the rendering, if `known` and `tidy`.
- `ResyncIsSilent`: after it the next plan is empty.
- `CheckpointsAreTrue`: the cache is right about payloads and children of the
  blocks it shares with the page, wherever a sync stops, unless an answer was lost.
- `NoGhostsKept`: placeholders of foreign blocks never reach a saved cache.
- `SnapshotResolves`: every node has an id when the calls are made.
- `MostIsKept`: the walk over the table keeps a largest set of siblings that can
  keep their order, compared with all sets of keys.
- `CopiesLandFirst`: a block that is still rendered is removed only after its new
  copy is on the page.
- `SyncsConverge`: repeated syncs end in the last rendering, or in one of three
  named traps: two cached siblings with one key (`retries_can_diff`), a sub-page
  that would have to be moved within its parent, an unrecorded nested change.

Properties of `session_ingest`:

- `TypeOK`, the type invariant of `SessionIngest`.
- `NothingSkipped`: every complete record before a saved offset was handed over,
  whatever is appended, replaced or saved over between two accesses of a poll.
- `CursorsBeginLines`: in ASCII, and before the first rewrite, a saved offset lies in
  the middle of a line only in a record longer than a first read.  The reads are in
  terms of a window that may begin and end anywhere; the run has a record of six
  bytes and first reads of four.
- `RowsSkippedOnlyIfLate`: so was every row before a saved cursor, unless it was
  stored late, at the cursor's own time under a smaller key or between two queries.
- `RepeatsExplained`: a record is handed over again only by a poll whose checkpoint
  was taken back, whose file was rewritten, or whose session is older than its
  newest part; unless it is written twice, comes after a character of several bytes,
  or its row is sorted before the cursor's and filtered behind it (`Misplaced`).
- `CatchesUp`: no race or death stops a source for good.  What does is named: a torn
  checkpoint file, a complete line that does not decode, a cursor in the middle of a
  line (`IsStuck`).

**Bounds of the outbox.**  One command; two one-shot syncs, which share their lease token, and a
watch daemon with its own; three attempts, one fault, one forget, leases and retries
of one tick.  The one-shot syncs are interchangeable, which the run uses as a symmetry.  Commands interact only
through the clock of the rebuild, which `Rebuild` gives to a single command as
well.  Three attempts (claim, reclaim as ambiguous, reclaim as running) are the least
after which a superseded run finds its own token on a running row, and three workers
let each of the two reclaims come from either side.  One fault is enough for a crash, a
lost answer or a foreign edit; lost leases are not faults, since `Tick` may pass
under any run.  The liveness run has nine attempts for two faults, more than they can
use up, so the bound on attempts never stops it.  `CHECK_DEADLOCK FALSE`
everywhere: with its bounds used up and all commands at rest a model stops.

**Bounds of the daemons.**  Two instances, as a hung one and its replacement;
leases of one tick; one trouble (a failing or dying cycle, or one that outlives
its lease) per behaviour; one edit, whose delivery may be repeated, late or lost.
Each property is about a single signal, and the cost is in the fair cycles; that
several signals change nothing for the three safety properties and for leases is
proved (section 4), for any number.  The last instance is never stopped; deadlock
is checked.

**Bounds of the store lock.**  Three calls, two of them in one process: the least
with a gate contended and a foreign process to overlap with.  One permit, files
that last two ticks and are refreshed after one, steps that lag by at most one:
enough for a file to run out under a live holder, before and after a refresh has
read it.  One trouble per behaviour (crash, revocation, failing backing,
interruption); slow steps are not troubles and may come at any time.

**Bounds of the row.**  One process pulls, another resolves, so that every order of
their appends occurs; two contents; two changes by others, which is a divergence
and its return; one intent, one forget, one crash.  Two re-assertions come on top
of the intent.  `second_divergence` takes four changes by one process alone,
without forget or crash, to show that neither is needed.

**Bounds of the page.**  Six renderings: blocks that move, change, gain and lose
children, one that becomes a sub-page, insertions at two places, a sub-page before
and after blocks, renamed or not.  Two changes of the rendering, so that it can
return to an earlier one, which is what exposes a cache that is behind; one fault
or edit, at any moment of any of the syncs; two children per call, so that runs of
three and four need a second batch; a page that starts empty or with a foreign
block.

**Bounds of the polls.**  Seven settings, chosen by `watching`: a transcript of two
records that is replaced once, by another of two or by one that begins alike, which
its head sample does not tell apart; one whose first record is longer than a first
read; one with a character of three bytes; one with a line that does not decode; two
transcripts of one record whose pollers share the checkpoint file; one session with
one message and two parts, three changes of rows at two times, where the locale sorts
the parts in the other order than their code units.  Lines of two to seven bytes, the
file seen at the sizes that `Flushes` has, in the middle of lines among them, head
samples of three bytes, so that files are seen without one, and a first read of at
most four, which can be a tail, with and without a line's end in it.  One death.
`wide_records` needs one poller, one character of three bytes and no fault.

**Fairness.**  `TimelySpec` assumes that a worker takes its next step (an
event-loop turn; `WF` of `WorkerStep` for each worker), that requests are
answered, and that time passes while no run is under way.  It restricts
behaviours in two ways: a lease does not run out under a live run (60 s against
a few requests), and no foreign event keeps postponing the clock, since under
`Rebuild` at every tick an expired lease never becomes claimable.  The relation kind is left out: it need not come to rest,
since a settlement with another hash than the desired one is logged and not
projected.

`FairSpec` of the daemons: each event loop takes its next step (`WF` per
instance), which includes the timer of a sleep; a receiver that has stored a
signal gets to its `wake()`; time passes.  No delivery, failure, launch or
foreign step is fair.  A tick that ends the lease of a pass under way is a
trouble, of which there is a bounded number: were every cycle to outlive its
lease, signals could be claimed back and forth for ever.

`Fairness` of the store lock: each caller's next step (`WF` of `Proceed`, its fiber
or its timer) and time.  That an effect ends is not assumed, nor that any trouble
comes.  `FairSpec` of the row: a watch daemon pulls again and again, and a call
that has resolved a conflict goes on to its next append, as `WF` per process;
users, workers and other editors are not fair.  `FairSpec` of the page: a sync that
has begun goes on (`WF` of `Step`), and the application calls `sync()` again (`WF` of
`Sync`); there are boundedly many faults, since a sync that always fails never
converges.  `Spec` of the polls: the schedule of `watchSource` takes each watched
source's next step (`WF` of `Step`); that a failed source is watched again is the
application's part and assumed with it.  Agents and deaths are not fair.

**Disagreements with the documents.**  The five violation runs; `findings` in
`PROJECT.json` quotes the lines.  Others are visible in the models and have no run:
a superseded one-shot sync can still send its write, since the one that superseded
it has the same token (`WritesAreFenced` bounds it, against "Stale leases are fenced",
glossary.md 195-196 and watch-daemon/spec.md 139-142); a run that lost its lease can
still settle (`Settle` compares no token, against
watch-daemon/spec.md 143-144); a rebuild postpones leases and retries (`age`,
against sync-store/spec.md 116); a refresh that has read its file brings a revoked
lock back (`file-system-backing.ts` 407); keep-local of a lifecycle conflict cannot
pass its own base check (`conflict-commands.ts` 296); syncing a page with a new
sub-page before a retained block never becomes silent (R04 of notion-react's
requirements); calls on sub-pages write no checkpoint (its spec.md 420); the
settlement of a long relation patch is logged, ignored by the projection, and
takes the key of every later one (`Settled`'s flag, against
sync-orchestration/spec.md 161-162); a daemon whose cycles fail outside the pass
retries without a delay from the second failure on (`ChooseDelay`, against the
comment at `watch.ts` 898-899); a row whose key the locale sorts before the cursor's
and the filter puts behind it is yielded again (`Misplaced`, `opencode.ts` 619 and
640, against "incremental ingestion" at 371); a first read inside a record longer than
`initialReadMaxBytes` saves an offset in the middle of its line, which no later poll
can decode (`append-only.ts` 80, 215, against its line 96).

## 4. Proofs

`OutboxProofs`, for any number of commands, workers, attempts, faults and
forgets, from the assumptions the modules name (`NoTokenAssumption`,
`TicksAssumption`, `WorkersAssumption`).

- `TypeCorrect`: `Spec => []TypeOK`.
- `InvariantHolds`: `Spec => []IInv`.  `OneWorkerPerAttempt` is not inductive:
  one has to know that a claim takes effect, that is, that its key is new.  `IInv`
  adds that each attempt in the log is at most its row's (`LoggedAttempts`),
  that each run's attempt was logged (`JobsAttempted`), what unclaimed rows and
  rows without a lease look like (`UnclaimedRows`, `LeaselessRows`), and that the
  newest attempt of a run that has not reported is under way or was ended by a
  settlement or a forget (`NewestIsUnderWay`).
- `AttemptsAreExclusive`: from `IInv`; needs no assumption on tokens.
- `SupersededReportsAreIgnored`, `SettlementIsFinal`: action properties from
  `IInv` and the definition of the projection.
- `SupersededRunsAreFenced`: `WritesAreFenced`, whichever workers share a token.  A
  token that no other worker has is the row's only while its run is the newest
  (`LeaseOwner`).  For shared ones the count of takeovers matters: a run that goes to
  the lease check was claimed as running (`RunningWhenLeasing`), its row shows the
  state of the newest claim (`ClaimIsShown`), and the claim after a running one is
  ambiguous (`TakeoverIsAmbiguous`), which the check refuses.
- `Refinement`: `Spec => ImplementsLifecycle`; the step lemma `EventAdvances`
  maps each appended event to a step or a stutter of `CommandLifecycle`.

Two more theorems of the module rest on `StoreChange`: every change of the store is
the append of one event, and a settlement comes from a run that is about to settle.

- `SettlementHasEvidence`: `SettledHasEvidence`.  The invariant to add is
  `RunsEvidence`: a run that is to settle already has its evidence, and one that is
  to verify has written.  Other runs and other people move the surface between two
  of its steps, but evidence is history and is kept (`EvidenceKept`).
- `CompactionIsSafe`: `CompactionFindsNoRun`.  A row exists only for a planned
  command (`PlannedRows`), and a fenced row without a lease is a forgotten one
  (`ForgottenRows`); with `IInv`, the row of a run under way is claimed and keeps
  its lease unless it is settled or forgotten.
That the projection is the fold of the log (`Replayed`) is a lemma here: it lets a
step be read as the one event it appends.  The fold is a recursive function of the
number of events, and `ReplayRuns` shows that it is the table after each prefix.

`WatchDaemonProofs`, for any number of instances, signals and troubles and any
lease, from `SignalLeaseAssumption`, `EditsAssumption` and
`NoInstanceAssumption`:

- `TypeCorrect`: `Spec => []TypeOK`.
- `ProcessedOnlyAfterPull`: `ProcessedSignalsWerePulled` by `PullInv`, which adds
  that a signal is stored after its edit (`StoredAfterEdit`) and that the signal a
  cycle holds is covered by what its pull has read, and then by what it has
  appended (`HeldBeforeView`); no part of it mentions a lease.
- `NoLostWakeUp`: `SleepersMissNoSignal` by `WakeInv`: a fresh signal is pending,
  so the backoff was chosen before it was stored, and its wake-up is outstanding
  or kept from then on.
- `LeasesAreRespected`: `LeasedSignalsStayPut`, from `TypeCorrect` and one step
  lemma.

`StoreLockProofs`, for any number of processes and calls, any limit, expiry and
lag:

- `TypeCorrect`, and `Invariance`: the inductive invariant adds to the three
  properties below what an operation under way has read (`OpInv`), that the gate's
  holder is the one running (`GateInv`), when a file's age betrays a lapse
  (`SlowInv`, `LapseInv`) and that a scan has counted everyone who is not its rival
  (`ScanInv`).
- `GateExclusion`, `LimitKept`, `NoFalseLoss`: `GateExcludes`, `NoOvercommit`,
  `LossExplained`.

`RowLifecycleProofs`, for any number of pulling and resolving processes, contents,
intents and bounds, from `RowAssumption`:

- `TypeCorrect`, `ContradictionsRecorded`, `ReassertionKept`: the three invariants
  of `row_lifecycle`, from `Invariance`.  The invariant adds `JobInv`: what a
  comparison has left for its append (the target it read agrees, or the conflict
  is raised) and that only raised conflicts are decided.  It holds because a
  conflict is never taken back to unraised, by a settlement or a forget either.

`InductionLemmas` is what makes statements about data of any size provable.  The
library's induction theorems take an operator as a parameter, which the provers
cannot instantiate; a set of numbers does as well: `BoundedInduction` says that a set
with 0 in it that is closed under successors up to n contains 0..n, and follows from
the well-foundedness of the naturals.  `StepwiseFunction` gives the function that
`f[n]` is defined from `f[n - 1]` by, and `FlattenLayout` says of a sequence of
sequences, laid end to end, at which place each piece lies; `TableExists` is the same
for a table of two indices, each entry from the three before it.

`SessionIngestProofs`, for any number of sources of both kinds that share the
checkpoint file, any transcripts, widths of records, head samples and first reads,
any sizes at which a file is seen, any rows, times, changes, rewrites and deaths, from
the assumptions that `JsonlReader` and `SessionIngest` name:

- `TypeCorrect`: `Spec => []TypeOK`.
- `NoTimelyRowIsSkipped`: `RowsSkippedOnlyIfLate`, from `Invariance`.  The property
  is not inductive, since a cursor may be restored from what another poller loaded
  long ago.  `IInv` therefore asks the same of every cursor that is around: saved
  (`StoreInv`), loaded by whichever poller (`SeenInv`), or about to be saved
  (`NextInv`, for which the records of the poll count too), and of what a poll has
  read so far (`ScanInv`).
- `NothingIsSkipped`: `NothingSkipped`, from the same invariant, for transcripts in
  any encoding and however alike they begin.  `Ends` gives the place where each
  record's line ends, `TextLayout` derives it from `Text`; what a poll reads, at any
  time and of whatever file was there then, matches a transcript from some place on
  (`Matches`), and from that the lines it decodes are those of the records that lie
  there, all of them (`LinesAreComplete`) and no others (`LinesAreSound`).  A cursor is
  sound when the records whose lines start before it were given (`Passed`), for every
  transcript that its head may be of (`Fits`).  Counting characters for bytes does no
  harm here: an offset falls short and never goes too far (`UnitsBound`).
- `CursorsBeginAtLines`: `CursorsBeginLines`.  The invariant also keeps, of cursors of
  narrow transcripts, that they lie behind a line or in a record longer than a first
  read (`AtLine`); `TailAtLine` is the case of a first read.
- `RepeatsAreExplained`: `RepeatsExplained`, for any transcripts, rows and locale.
  `RepeatInv` adds where everything lies that was handed over, of the records that can
  be told apart and that offsets do not fall short of (`Told`) and of the rows: before
  the cursor of the poll that did so, of the file or of one of the two orders of rows
  (`Left`), and no further than the file that is read next.  The latter is what makes
  a shrunken file, which is read from its start, harmless.

`PageSyncProofs`, for renderings of any size in which siblings have keys of their own
(`RenderingAssumption`, which `assertUniqueKeys` demands), any size of a batch, and any
number of renders, faults of calls and edits by others:

- `TypeCorrect`: `Spec => []TypeOK`, and `NoGhostIsKept`: `NoGhostsKept`, both from
  `Invariance`.
- `SnapshotAlwaysResolves`: `SnapshotResolves`.  The invariant is `Covered`: every path
  of the rendering has its id, or one of the calls still to be made creates it.  When a
  sync begins, that is what the plan is for (`PlanIs`), and it takes three lemmas on the
  way from plan to calls: batches leave out no operation and begin where runs do
  (`CallsAreBatches`), a flattened plan has the operations of its parts
  (`FlattenMembers`), and what a call refers to is at hand when its turn comes
  (`CallsAreScheduled`).
- `MostIsAlwaysKept`: `MostIsKept`, for sibling lists of any length.  The entry of
  `MatchLength` at two places is the length of a longest common subsequence of the two
  prefixes, and the walk from the last entry, ties broken as the code does, collects one
  (`TablesAreLongest`); both are recursive functions, unfolded by `TableExists`.
- `CopiesAlwaysLandFirst`: `CopiesLandFirst`, from `OrderAlwaysHolds`.  That invariant
  adds two facts.  `Levels`: the ids of the page's children and of the blocks under them are apart, on the
  page, in the caches and among the bound ids, so that a call on a nested block takes no
  child off the page.  `Turn`: of every removal still to be made, the copy with the same
  key has its id already, or an earlier call creates it, and that id is another one.  It
  survives a lost or doubled call since new ids are new everywhere.

`PageSyncConvergence`, under the same assumptions, says where a sync gets to:

- `CheckpointsAreAlwaysTrue`: `CheckpointsAreTrue`, from `CourseAlwaysHolds`.  A call on
  blocks does the same to the working cache and to the blocks of the page that it knows
  (`AgreesSent`), so that both agree on contents as long as every call was answered once
  (`Faithful`), even when somebody has moved or removed children of the page.  Calls on
  sub-pages write no checkpoint; they do no harm to this because the ids of blocks and
  of sub-pages are apart (`Sorts`).
- `OneSyncAlwaysConverges`: `OneSyncConverges`, from `ConvergingHolds`.  Its center is a
  comparison of a list of siblings with the rendered one, with calls still to be made
  (`Aligned`): what is bound to a rendered node is there, in the rendered order, with its
  payload or with a call to come that sets it, and all else has a removal to come.  A
  longest common subsequence makes the lists that a sync begins with aligned
  (`BeganAligned`).  A call that creates names an anchor, and that is the right place if
  the call brings the next run of rendered nodes that are not yet bound (`Fitting`); a
  call that removes or sets must be one that the rendering asks for (`Apt`).  The plan
  consists of such calls place by place (`PlanHas`), batches included, and an aligned
  list with no call left is the rendered one (`AlignedDone`).  The working cache goes
  this way in every sync (`Course`, by `Underway` of each list), the children of the page
  go it as long as the sync is undisturbed (`Tracks`), and the contents below them follow
  by `Faithful`.  The condition `tidy` is where a sub-page would have to be put before a
  sibling that stays: the driver creates it at the tail, and then `Aligned` is false.
- `ResyncIsAlwaysSilent`: `ResyncIsSilent`, from `ConvergingHolds` too.  A page that shows
  the rendering and a cache that mirrors it make a base that mirrors it; of a list with
  the keys of the rendered one everything is kept (by the lemmas on the longest common
  subsequence), and a plan of lists that are kept, with their payloads, is empty
  (`MirrorsPlanNothing`).

All of it needs that no two nodes of a tree ever share an id, on the page, in the working
cache and in the checkpoint, nor two rendered nodes (`Distinct`); that lemma and those on
what the operations on trees do, node by node, are at the end of `PageSyncProofs`.

With this, a theorem states every safety property of the passing runs, invariants and
action properties alike, and the refinement of the command's life cycle.  Only
model-checked are the eight liveness properties, which rest on fairness and which TLAPS
cannot prove: `PlannedCommandsRest`, `EditsArePulled`, `StoredSignalsAreProcessed`,
`LossNoticed`, `NeverWedged`, `NewContentIsMirrored`, `SyncsConverge` and `CatchesUp`.
The violation runs are counterexamples and have nothing to prove.

## 5. Plan

1. Outbox store and executor, abstract life cycle, first theorems (done).
2. Signal inbox and watch daemon, with proofs (done).
3. The store lock over its file backing, with proofs (done).
4. Rows and lifecycle conflicts, with proofs (done); property and body conflicts
   and the compaction decision of all of them together are left.
5. The page sync of notion-react (done); the content of sub-pages and
   `reorderSiblings` are left.
6. The polls of agent-session-ingest (done); several artifacts of a source and the
   normalized translations are left.
7. The proofs of the safety properties of all runs (done).  Next would be the safety
   part of what is left of items 4 to 6.
