# Network Admission Fabric: specification, model checking and proofs

A TLA+ model of the admission coordinator: what it admits, how it accounts for
admitted load, what it revokes when authority changes, what survives a crash,
how its journal's file gets there, and how its threads serve and stop. Paths below are relative to the repository root, which is `src/`.

## The system

| Part | Source | State | Operations |
|---|---|---|---|
| Admitted load ledger | `src/engine/ledger.cpp` | load per decision, cached totals per resource and path, entry count | reserve, release, mark and clear revalidation flags |
| Decision history | `src/engine/history.cpp` | records, audit index, retirement cursor | insert, update, trim |
| Attempt registry and decision cache | `src/engine/history.cpp`, `engine.cpp` | answered attempts, request fingerprints, cached replies | classify, record, remember |
| Authority inputs | `src/model`, `src/engine/engine.cpp` | policy, capacity, reservations, paths, QoS and priority catalogs, clock | publish, invalidate, advance the tick |
| Evaluation | `src/engine/admission.cpp` | none | fence, idempotency, readiness, expectations, policy, path, capacity, verdict |
| Engine | `src/engine/engine.cpp`, `admission.cpp` | all of the above behind one mutex, epoch, sessions, identities | admit, revoke, revalidate, publish and enforce, sessions, new incarnation, compaction |
| Recovery | `src/engine/engine.cpp`, `open_durable` | the journal | replay, restore, fence, boot record |
| Journal file | `src/durable/journal.cpp`, `src/core/file.cpp` | frames on disk, what is synced, handle and counters | open with torn-tail repair, append, replay, compact, close |
| IPC server and daemon | `src/ipc/server.cpp`, `tools/nafd.cpp` | listener, workers, their streams, one session per connection | start, run, stop, serve |
| IPC client, endpoints, frames | `src/ipc` | sockets, requests in flight | connect, request, Bye; accept, read, write |
| Encodings, rendering, command line client | `src/ipc/protocol.cpp`, `src/durable/records.cpp`, `tools/nafctl.cpp` | | |

How they interact: owners of authority publish snapshots, claimants ask for
admission over a session. An admission evaluates the current snapshots, writes
an intent, books the load, writes the commit, then records the decision. A
publication of policy, capacity or obligations walks the recorded admissions
newest first and revokes what no longer fits. A restart replays the journal,
restores the committed and unreleased load, raises the epoch and blocks
admission until republished capacity has been compared with that load. Claimants
reach the engine over connections; each has a worker thread, which registers a
session and retires it when the connection ends. The daemon stops from a second
thread.

What makes it hard: load is held in four places that must agree (the ledger's
entries, its cached totals, the history, the journal); any append can fail
between two of them; the history is retired while its oldest records are live;
replies are cached, and attempts are repeated after they were answered, revoked,
fenced or forgotten; identities and audit sequences have to continue after a
crash; session nonces restart with each epoch; a write that failed may still be
in the file; two threads stop a server that is accepting. `PROJECT.json` lists these
hazards with their lines.

## Modules

| Module | Models |
|---|---|
| `Ledger` | the ledger's data, reserve with its roll-back, release, 64-bit arithmetic of width `MaxU64` |
| `LedgerMachine` | the ledger alone, under every sequence of calls its interface allows |
| `LedgerFacts`, `LedgerProofs` | lemmas about `Ledger`, and theorems about `LedgerMachine` |
| `History` | history, attempt registry, decision cache |
| `Authority` | snapshots, their validation and publication rules, headroom, obligations, readiness |
| `Evaluation` | the decision procedure, in the order of the code, as the operator `Ruling` |
| `Engine` | the operations of the coordinator and its journal, composed of the above |
| `EvaluationFacts` | lemmas about `Authority`, `History` and `Evaluation` |
| `EngineProofs`, `EngineSafety` | theorems about `Engine` |
| `Recovery` | the engine with crashes, restarts and replay |
| `DurableLog` | what a journal promises: a log of which a prefix survives every crash |
| `Journal` | the journal's file, operation by operation, with failures, crashes and power losses; implements `DurableLog` |
| `JournalProofs`, `JournalRefinement` | theorems about `Journal` |
| `Server` | the daemon's two threads, the workers, the sockets and the clients |
| `ServerProofs` | theorems about `Server` |
| `MCLedger`, `MCEngine`, `MCRecovery`, `MCJournal`, `MCServer` | instances for TLC |

The variables keep the names of the members they model (`by_decision_` is
`by_decision`). `Engine` has an action per operation. One mutex serialises them,
so an operation that changes state once is one action. An admission is two
actions (`AdmitGranted`, then `CommitWritten` or `CommitFailed`) and enforcement
is one per revocation (`EnforceRevoke`, `EnforceDone`): there a failed write or a
crash leaves intermediate state behind. `handler` holds the operation under way,
and no other starts meanwhile.

`MayFail` names the frame kinds whose append can fail; each failure takes the
code's early return, with whatever was changed before it. `MayLinger` names those
whose frame may be in the file all the same, because only its sync failed.
Operations that change
nothing (replays, refused publications, successful revalidations) are stuttering
steps. `Crash` can strike between any two actions, and also between the release
and the revocation frame of one release. There the journal holds whole frames:
`Journal` shows what becomes of the others. Compaction is decided on the journal's
own frame count, which misses the frames that linger; `FrameCounts` allows every
count from the frames that cannot linger up to the length of the file.

`Restart` is the whole of `open_durable`: it replays the frames, rebuilds the ledger
with one `reserve` per restored decision (`Rebuilt`), and writes the boot record.
When that cannot be written (`RestartFails`) the coordinator stays down, with the
record in the file or not. A journal that cannot be replayed, or a reservation that
is refused, leaves `Restart` disabled; `JournalReplays` says that this never happens.

`Journal` has an action per operation that succeeds and one per way to fail, and
one per step of `compact`, since a crash may strike between them. A file is a
sequence of frames, each intact or not, with the length of its synced prefix;
`previous` holds the files that a power loss may bring back under the same name.
The payloads are numbers. `acknowledged` and `exposed` record what the owner was
told, and `known` what it has in memory; no action of the code depends on
them, except that a compaction writes what its caller knows.

`Server` has a program counter per thread. A thread steps between two accesses to
what it shares; a section under `workers_mutex_` is one step, except the join in
`stop`, which waits with the mutex held (`LockWorkers`, `Joined`). A connection is
one run of a client. What a request is about is the matter of `Engine`; here it is
read and answered, refused, or lost with its connection. `Finish` retires the
session, closes the stream and ends the thread in one step: nobody observes the
moments between.

Some definitions are marked *Faulty*. They are variants of the definition that
follows them, each with one plausible mistake in it. No specification uses them:
substituting one for the definition it precedes makes TLC report the property
that it is paired with in `PROJECT.json`, which shows that the property depends on
that code.

Abstractions: a request is named by its fingerprint, so equal fingerprints mean
equal content. Sorted lists with unique keys are functions. Explanations,
authority vectors, revocation reasons, counters and reports are left out, since
no decision reads them. `ledger_live` is kept although nothing reads it.

## Runs

| Run | Shows | Distinct states |
|---|---|---|
| `ledger` | totals, entry count and releasability under all call sequences, overflow included | 91 454 |
| `engine` | the engine without a journal: accounting stays closed, held load stays recorded, index and cursor are sound, cached replies are backed, no attempt is granted twice, the history stays bounded, enforcement is newest first | 70 424 |
| `durable` | one incarnation with every kind of append failing, the boot record's included, some with their frame in the file: memory equals what replay restores, the journal replays, no admission is begun that does not fit, not even behind an enforcement that failed half-way | 96 811 |
| `recovery` | crashes and restarts with a claimant's session, failing commits and failing revocations: released load stays released, restored load gates admission and is what was granted, and a fenced grant is fenced for good | 464 150 |
| `journal` | the file under failing operations, crashes and power losses: what was acknowledged on an intact file survives, the frame count is right, and the file implements `DurableLog` | 92 251 |
| `server` | threads and clients in every interleaving: sessions have a worker that retires them, `run` leaves nothing behind, workers are bounded, shutdown ends, lost clients lose their sessions, nobody waits forever | 85 771 |

Six further runs are expected to end in a counterexample. Each states what a
comment or document of the repository says and the code does not do.

| Run | Statement that fails | Cause |
|---|---|---|
| `path_totals` | path totals equal the load on the path | `reserve` adds the first amount once, `remove` subtracts the sum over resources |
| `audit_reuse` | the account is closed after enforcement | the restored audit sequence is the last one used, so an index entry is overwritten |
| `fenced_repeat` | a live grant answers its attempt | the fence is checked before an earlier answer is looked for, and its refusal is recorded as the attempt's answer |
| `lingering_commit` | no attempt is granted twice | a commit that was written and not synced is undone in memory and found again by a restart |
| `stop_race` | once `stop` is called the coordinator ends | a worker added between the two locked sections of `stop` is joined without having been woken |
| `torn_interior` | `open` truncates nothing that was acknowledged | `append` writes behind a frame that was cut short, and `open` takes both for a torn tail |

`ShutdownEndsOrJoins`, which holds, says what is left of `stop_race`: the
coordinator ends, unless a call of `stop` waits for just such a worker. Likewise
`AcknowledgedDurable` says what is left of `torn_interior`: what was appended to an
intact file survives. The rest, the payloads in `exposed`, is lost by the next
`open` when the length in the torn header reaches behind the end of the file.

Smaller disagreements of the same kind have no run; `PROJECT.json` records them with
their hazards: a minimum of 0 is accepted and its grant can become impossible to
release, a required path need not be selected, and a restart records the attempts
of refused conflicts, which the running coordinator does not, so that the statement
of `fenced_repeat` fails over a restart as well.

### Bounds

* `ledger`: three decisions, two resources, one path, rates 1 and 3 against a
  largest value of 5 and at most 5 entries, so that overflow of a total, overflow
  of the path total with its roll-back, and a full ledger all happen.
* `engine`: three decisions, a history of one record, so that live records must be
  skipped and the cursor moves; two snapshots of each kind, of which the second
  always shrinks what is available, and one has a resource with unknown capacity;
  two contents for one attempt. Deadlock is checked: an idle engine can always do
  something.
* `durable`: three decisions, operations start with fewer than six frames,
  compaction at six. Every append can fail, that of a restart's boot
  record and of a policy included; boot records, intents and revocations may linger.
  A lingering commit is the subject of `lingering_commit`; a lingering release
  keeps load in memory that a restart would free, and is left out.
* `recovery`: operations start with fewer than seven frames in the journal, enough
  for two committed admissions and a boot record; two epochs, one nonce in each, so
  that the second epoch hands out the nonce of the first again; one claimant, and
  two decisions, so that one can be granted on each side of a restart. The capacity
  of the second epoch is smaller: two restored grants may have to be reconciled by a
  revocation, and a small grant still fits beside a small restored one. Longer
  journals and a second restart are outside this bound.
* `fenced_repeat` is the engine with one claimant and one request; `torn_interior`
  is the instance of `journal`.
* `journal`: five payloads are written, compactions keep at most one of them and
  add a mark, replay accepts up to five frames. That is enough for a failed append
  between two that succeed, a repair, and a second compaction while the first one
  may still be undone. `SyncsName` is TRUE: syncing a file makes its directory
  entry durable, as common file systems do. With FALSE, `AcknowledgedDurable` fails
  for a journal that was just created, whose directory is not synced before the
  first compaction. Deadlock is checked.
* `server`: two connections, one worker and one session at a time, so that a full
  server, a full session table, a queued connection and a worker being reaped all
  happen. With two workers at a time the properties hold as well (241 032 states in
  an earlier form of the module, which took too long to keep as a run). The model
  ends with the process, so deadlock is not checked.
* `AttemptCapacity` and `MaxDecisionRecords` exceed what a run can fill, so
  evictions from the attempt registry and the decision cache are modelled but
  happen in no run.

`durable` and `recovery` stop at their bounds, so deadlock is not checked there.

### Fairness

The liveness properties of `Server` rest on weak fairness of each thread of the
daemon: `run` with `main` behind it, the stopper, and each worker. A thread that can
step is scheduled. The mutex needs no strong fairness: what holds it for longer
than a step is a join, after which that thread never takes it again. Clients are
not fair: they may stay silent or connected forever. Neither are signals, failing
accepts and failing writes.

## Proofs

`LedgerProofs` proves, for any decisions, resources, paths and rates and any
largest value, under the assumptions named in `Ledger` and `LedgerMachine`:

| Theorem | Statement |
|---|---|
| `LedgerTypeCorrect` | totals stay 64-bit values of known identities |
| `LedgerTotalsExact` | each cached resource total is the load that is held on it |
| `LedgerEntryCountExact` | the entry count is the number of entries |
| `LedgerReleasable` | if no rate is 0, every holder can be released |

The invariant `LedgerInv` joins the type invariant, the exactness of totals and
of the entry count. It is needed as a whole: a total is decremented without
wrapping because it is exact and the released amount is part of it, and it can be
compared with a sum because the types hold. Sums are written as cardinalities of
sets of units (`BlockOfUnits`, `BlockOfEntries`), so that adding and removing a
decision is a union with, or a difference by, a disjoint block; this avoids
induction over data. `ReserveKeepsLedger`, `ReleaseKeepsLedger`,
`RollbackKeepsLedger` and `FlagsKeepLedger` treat one action each and
`LedgerStep` joins them. `LedgerReleasable` adds `HeldPositive`, that no held
amount is 0. The hypothesis on rates cannot be dropped: a decision that holds 0 of
a resource is refused its release once the total of that resource has been erased.
The lemmas are in `LedgerFacts`, where the engine's proofs use them too.

`EngineProofs` and `EngineSafety` prove, for any requests, snapshots, limits and
failing writes allowed by the assumptions of `Ledger`, `History`, `Authority`,
`Evaluation` and `Engine`:

| Theorem | Statement | Hypotheses |
|---|---|---|
| `EngineTypeCorrect` | the engine's state is well formed | |
| `EngineTotalsExact` | the totals are the sums of what live decisions hold | |
| `EngineHeldRecorded` | whatever holds load is recorded as a live admission, or about to be | |
| `EngineIndexExact` | audit index and records are inverse | |
| `EngineNewestFirst` | when a decision is revoked by enforcement, every newer one fits | |
| `EngineSessionsCurrent` | live sessions are of the current incarnation | |
| `EngineFencedForever` | a fenced grant stays fenced | |
| `EngineGrantsFit` | what is booked fits | minimums are positive |
| `EngineAccountingClosed` | the account is closed | minimums are positive, releases and enforcement do not fail |
| `EngineCursorSound`, `EngineReplyBacked`, `EngineHistoryBounded` | `trim` passes nothing it could retire, admitting replies are backed, the history is bounded | no revocation record fails to be written |

The inductive invariant `EngineInv` joins the invariant of the ledger, the types,
and what ties the parts together: identities and audit sequences already used lie
below their counters, so that a new record overwrites nothing; index and records are
inverse; an admission being committed holds its load and has no record yet; and what
an enforcement has passed fits. The last is why newest-first enforcement works: a
release only lowers totals, so what fitted before still fits. For `trim`, the
proof needs that the cursor passes only live records, and that a release moves it
back. `EngineAccountingClosed` adds `FitInv`: outside enforcement every live grant
fits, which by `FitsCloses` closes the account, since the loads of a resource come
only from grants that hold it. `EngineFencedForever` adds `SessionInv`: a grant of
the current epoch has a nonce that is already spent.

The hypotheses are not idle. A request with a minimum of 0 can be granted 0 on
a resource that is overcommitted, and such a grant can be refused its release. A failed release ends
an enforcement half-way. A revocation record that fails to be written leaves the
load released, the reply cached and the cursor where it was. `durable` runs with
those two failures and checks what still holds.

`JournalProofs` and `JournalRefinement` prove, for any number of payloads, any
bound on what a compaction keeps, and every pattern of failures and crashes:

| Theorem | Statement |
|---|---|
| `AcknowledgedSurvives` | if syncing a file syncs its name, payloads acknowledged on an intact file are in the synced, readable part of every file that a crash can leave |
| `JournalImplementsLog` | the file implements `DurableLog`, whatever becomes of names |

The first rests on an inductive invariant that adds to `AcknowledgedDurable`
what the owner knows: everything known and not exposed is readable in the current
file, where an append's sync then makes it durable; the temporary file of a
compaction is intact until it is renamed, and once it is renamed the file is intact,
synced, and holds all that is known. `previous` is empty after an append that
acknowledges, which is where the hypothesis on names is used. The
refinement needs less: that files are well formed and the temporary file is intact.
The mapping reads a file as `open` does, up to the first frame that is not intact
(`Good`), and each action is shown to be a step of the log or a stutter. An append behind
a torn frame changes nothing in the log, which is what `tainted` stands for.

`ServerProofs` proves, for any number of connections and any bounds:

| Theorem | Statement |
|---|---|
| `ServerWorkersBounded` | at most `max_connections` workers, and each that runs is listed |
| `ServerSessionsServed` | every live session has a worker that will retire it, or its client said Bye |
| `ServerRunLeavesNothing` | when `run` has returned, no worker runs and no stream is open |

Its invariant `ServerInv` says where a connection can be (in the backlog, held by
`run`, or with a worker, never in two of them), that a session is live only while its
worker is between registration and its end, that running workers are listed, that
an open stream has an owner, and that nothing is listed once `run` has joined, or has
found the stop already over before its loop. The
last part needs the others: a connection is added only by `run` itself, so after its
own `stop` no worker can appear, whatever the stopper does.

Recovery is model-checked only: what replay computes from a journal of any length
needs induction over the journal. The same holds for `FramesCounted` and the count of
frames in a file. Of the engine's properties, `NoDoubleGrant` stays with TLC.
All liveness (`ShutdownEndsOrJoins`, `LostClientsRetired`,
`NobodyWaitsForever`) rests on fairness and stays with TLC.

## Not modelled

* byte-level encodings of records, frames and messages, checksums and hashes: a
  checksum tells whether a frame is intact, and a fingerprint identifies its
  content;
* rendering of decisions and authority vectors, which no decision reads;
* the stdio mode of the server, which serves one stream without threads, and the
  Windows transport and file operations;
* the command line client, and the options and printed output of the daemon;
* the race of two threads that close one socket (`SocketStream::close`), whose
  outcome depends on descriptor numbers;
* the fault-injection hooks that drop or corrupt frames on purpose.

The journal of `Engine` and the file of `Journal` are connected by the interface that
`DurableLog` states (an append that fails may have added its frame; a compaction
replaces the log at once), not by a composed module: the product of their states is
out of TLC's reach. `Server` likewise uses the engine through its answers only.
