# autotrade: a TLA+ verification project

`autotrade` runs long, unattended quantitative-research experiments: a language
model develops a trading strategy in a sandboxed session, a host validates and
tests what it wrote on frozen data, registers one candidate, replays it once on
years nobody looked at, and may then trade it on a Paper account. What makes
the program hard is not the statistics. An experiment lives for days, its
worker is stopped, restarted, terminated and killed, and everything it promises
("the record is contiguous", "the registered strategy has the whole record",
"the forward years are read once", "a resumed attempt keeps what it spent") has
to survive that. These modules state those promises and check them.

Paths below are relative to `src/src/autotrade/`.

## Inventory

| Component | State | Operations | Hard behaviour | What makes it correct |
|---|---|---|---|---|
| **Ledger and run markers** `pipelines/ledger.py` | append-only `ledger.jsonl`; one marker file per run | `append` with refusals, readers by record type, marker open / close / recover | a crash between any two writes; recovery that is itself interrupted | one outcome per run, no run vanishes, verdict is final |
| **Research experiment** `pipelines/experiment.py` | none but the ledger and directories | `run_research_session`, `complete_record`, `run_forward` | failure at each step, retries, environment blocks that count across workers | a registration stands on the whole record and is of its last candidate |
| **Validation record** `pipelines/validation_record.py` | `test_step` rows | one row per step, in order | the step's number is the session's own count | contiguous 1..k |
| **Session tools** `pipelines/session_tools.py` | Steps, step tree, `known` tests, counters of blocked batches | `validate`, `test`, publication | three writes per Validation; parallel cards | what is published can be loaded, what was validated is not lost |
| **Resume** `pipelines/session_resume.py` | sidecars, traces | what an attempt starts from | spend left by failed, restarted, torn attempts | spend never forgotten, no attempt bricked |
| **Research developer and agent loop** `pipelines/research_session.py`, `agent/` | conversation, budget, workspace | resume resolution, seeding, turns, collection | deadline, block, completion, exception race | the session's end decides what is registered |
| **Worker and runner** `pipelines/interactive.py`, `pipelines/worker.py`, `scripts/.../run_interactive_experiment.py` | `status.json`, process | plan, retry, gate, exit | SIGTERM in any state, exec-restart | no retry after an exit, every worker ends |
| **Console** `webui/manager.py`, `pipelines/hitl_state.py` | `control.json`, `status.json`, slots | start, pause, stop, resume, restart, terminate, delete | two writers of the status, a pid that was reused, a worker faster than its parent | one worker per experiment, requests are not lost |
| **Agent inbox** `pipelines/agent_inbox.py` | append-only log of message events | enqueue, list, consume, bind, reopen, expire, close | a consumed message whose turn was lost; a message accepted while the session ends | a message is in at most one conversation that landed; a closed session keeps none waiting; a live attempt hears all |
| **Budgets** `environment/time_budget.py`, `pipelines/research_session.py`, `agent/runner.py`, `agent/subagent.py` | pause depth, deadline, calls by role, spend; the trace's last block | pause / resume, claim, charge, trace, launch, wait, cancel | parallel sub-agents, nested pauses, a child that hangs | the main conversation's reserve; no time lost or gained; a bounded overshoot; the session ends |
| **Paper account** `paper/` | checkpoint with its outbox, journals, real-fill records, fitted states, verdict | adopt, settle, correct, reconcile, refit, decide, read the verdict | a crash between any two writes, a day run twice, records that change after their session settled | the journals account for the account; a book is one research replay stretched over the calendar |
| **Broker** `environment/broker*.py` | cash, holdings, lots, T+1 locks | open day, ex-date, buy, sell; a correction of a settled session (`paper/fills.py`) | rounding of resized lots, sales first in first out, corrections into and out of old lots | the lots are the holding; no sale of locked or missing shares |
| **Raw lake and releases** `data_sources/tushare/versions.py`, `io.py`, `cron_update.py`, `environment/data/research_release.py` | parquet and sidecar of a partition, observation table, versions; generation record; releases, pins | publish, restage, restore, rebuild, sweep; begin and finish a job; pin, cut, retire | a writer killed between two renames; a job that vouches for no change over a record a killed one left; retention racing a pin | nothing visible is lost; first-seen times are true; a release is its committed generation and stays while pinned |
| **Rolling as-of view and part stash** `environment/replay/timeview.py`, `data/contracts.py`, `pipelines/pit_backend.py` | per replay: cursors, held rows, slots, parts, months, version; shared: the stash of encoded parts | open the next slot, load minute groups, roll a domain, merge a month, publish a part | shortcuts between refreshes; a row the lake saw late; replays of different windows encoding into one stash | a decision reads exactly what its instant may know; a linked part is the one the view would encode |
| **LLM gateways, strategy containers, the engine's daily loop, tools, console read models, data transforms** | see `PROJECT.json` | | | not modelled; the reason stands beside each component |

Interaction: the console writes `control.json` and signals; the worker reads
both at session boundaries, writes `status.json`, and calls the runner; the
runner reads the ledger to decide which session is due and calls the
experiment; the experiment writes the marker, calls the developer, and writes
the ledger; the session's tools write the tree, the sidecars and `test_step`
rows in between. A later attempt, or a later worker, sees only the disk. What a
person writes from the console reaches a session through its inbox, at the
session's safe points. The session's threads share one budget, whose counters
the trace carries into the next attempt. A cron job maintains the raw lake under
a lock; experiments and Paper books read it through pinned releases. A replay
shows a strategy the rows of its release through a rolling view, whose encoded
parts it shares with the other replays of the same span. A Paper
book is run by its own command, once a day, and is written to by the console
when the owner records what really filled.

The hazards this code is exposed to, each at its line and with the properties
that would catch it, are `PROJECT.json`'s `hazards`.

## Modules

| Module | Models |
|---|---|
| `ResearchProtocol` | one experiment from its first worker start to its verdict |
| `ExperimentOutcome` | what an experiment promises its readers: the abstract specification |
| `MCResearch` | model checking of `ResearchProtocol` |
| `ResearchProtocolProofs` | its theorems, about the record and the registration first, about runs, files and spend then, and the refinement of `ExperimentOutcome` |
| `WorkerLifecycle`, `WorkerLifecycleProofs` | the console and the worker processes of several experiments; its theorems |
| `AgentInbox`, `AgentInboxProofs` | the messages of one session, from the console to the conversation; its theorems |
| `SessionBudget`, `SessionBudgetProofs` | calls, spend and active time shared by a session's threads; its theorems |
| `PaperEngine` | one Paper book: its daily runs, the owner's records, its verdict |
| `PaperEngineProofs` | its theorems, and the refinement of `PaperAccount` |
| `PaperBroker`, `PaperBrokerProofs` | the account that book trades, as pure operators; sums over its rows, and what each operator does to an account |
| `PaperAccount` | what a Paper book promises: the abstract specification |
| `RawLake`, `RawLakeProofs` | updater jobs, pins and retention over the raw lake; its theorems |
| `LakePartition` | one versioned partition and its write path, as pure operators |
| `AsOfView`, `AsOfViewProofs` | replays of one span, each rolling its view, over the shared part stash; its theorems |
| `MC...` | what TLC runs: constants and reductions of the module named |

### ResearchProtocol

State is split as the code splits it. On disk: the ledger, one variable per
record type (`tests`, `failed`, `research`, `forwards`; every reader filters by
type, so the order between types is not observable), the `markers`, the session
`root`, the `tree` with its `sidecars` and its `published` copy, the spend each
run's trace names (`traced`) and the `limit` in force. In memory: the program
counter and what an attempt loaded or decided. An exit of any kind sets `pc` to
`"down"`; nothing in memory is read after that before it is assigned again.

One step is one durable write with the memory updates that go with it, so that
a crash falls between any two writes. The stages of one attempt are
`begin` (inputs read, marker written) → `resolve` → `seed` → `session` (turns;
a Validation goes through `sidecar` → `unpublish` → `publish`) → `closing` →
`unpublish` → `publish` → `collected` → `completing` (host rows) → `record` →
`finish`. An exception leads to `failing` → `unmark` and back to `begin` while
attempts are left. Recovery of markers is two steps per marker (`RecoverRecord`,
`RecoverDrop`), because the code appends to the ledger and then unlinks.

Abstractions, each named where it is made:

* A Validation is one node carrying one bit, whether it registers by itself: a
  Step over the full span that is no control and passes the registration check.
* A batch is a batch of one, so a whole failed batch is one failed Validation.
* Budgets are units of model turns; a host call outside a turn costs nothing.
* The forward reading is its status alone.
* The limit is changed only while no worker runs. The console accepts an
  override at any time; the session reads it when an attempt begins.
* `publish_tree` is a removal and a copy; the copy is one step.

### ExperimentOutcome

The abstract specification: a record revealed step by step, one decision that
is never revisited, one reading. It has no worker, attempt, file or crash.
`ResearchProtocol` reads it off the ledger the way the code's readers do
(`Revealed`, `Decision`, `RegisteredNode`, `Reading`) and `ImplementsOutcome`
says every behaviour of the protocol is one of its behaviours.

### WorkerLifecycle

The other half of a worker's life: what its session does is one step here, and
what may happen to its process is all of it. `control` and `status` are the two
files; `proc` is the process table, each process with its program counter, a
pending SIGTERM and the last state its reporter was given; `op` is the console
operation under an experiment's lock, and `slots` the console-wide lock. One
action is one write to a file or one signal. A console operation that waits is
as many steps as it has waits: a restart reads the status, takes the slot lock,
signals, sees the exit or forces it, and then starts a worker like any other.
`Heartbeat` rewrites the status behind the main thread's back, and `Launched`
writes it after the worker may have. `Alive` reads the status as
`status_pid_alive` does: a last word (`LastWord`) has no start ticks and so reads
as dead while its process still runs.

Abstracted: the verdict is a stage of the ledger; a launch older than its grace
is a free choice (`StatesOf`); the start of the reporter and its first state are
one step; a SIGTERM is handled before the main thread's next step, however long
that takes. One console process is assumed, as its locks assume it.

### AgentInbox

The inbox is a log of events under the control lock; `inbox` is what
`_load_state` folds it to, and every writing step appends one event, so a worker
dies between any two. A message passes `Post` (the console sees a live worker)
and `Enqueue` (it appends, later, or is refused); an attempt goes `reopen` (what
runs without a ledger row had consumed is pending again) → `open` → `apply`
(list) → `say` / `consume`, one message at a time → `call` → back, or
`commit` (the research row) → `expire` (the leftovers, then the closing event).
`said` is the conversation of each run. A commit may be a block, after which the
session is opened again.

### SessionBudget

One session's threads against what they share: `timer` is the clock with its
nested pauses, `budget` the counters by role and the spend, `traced` the last
block on the trace, which is all a next attempt knows. `main` and `child[c]` are
the program counters of the main conversation and of its sub-agents: a claim, a
response and its charge, a traced event, a replay's begin and end are each one
step. The trace block is two steps, because it reads the counters without their
lock (`Trace`, `Traced`). Abstracted: a response costs one unit; tools other
than replays are one step; a queued launch waits for a free slot.

### PaperEngine, PaperBroker, PaperAccount

A run of a book is a sequence of checkpoints, each with the rows it still owes
in its outbox, and one action stands for one checkpoint: `Begin` (or the
`restore` of an earlier run's outbox) → adopt the owner's switch → `Settle`
and `Reconcile` session by session → `Gate` (the verdict) → `PublishFit` →
`Commit` → `Finish`. A crash cuts the rows of an outbox after any of them, or
inside one. The console records fills (`RecordFill`, `RecordSession`) at any
time and without the writer lock. `Reality` is the settlement from records:
open the day, the corrections of earlier sessions, the sheet, what was traded
beyond it. `PaperBroker` gives the steps of the account itself and answers
`Failed` where the code raises. `PaperAccount` is the promise: sessions decided
once, before they settle, in order, never after a kill; `Implements` says the
book keeps it.

Abstracted: one name, orders of one size, no fees; a strategy is a set of
possible sheets; the market's refusal of an order is a free choice; the
statistic behind the verdict is a free choice.

### RawLake, LakePartition

`LakePartition` is one partition's files as a record and the write path as
operators on it: the visible parquet and its sidecar (`rows`, `wid`, `side`),
sidecars staged beside them, the observation table, the versions kept. `RawLake`
sequences them: a job takes the updater lock, sweeps, marks the record
`updating`, publishes, restores or rebuilds, and finishes with a new generation
or, when it vouches for having written nothing, the old one. A commit is up to
six writes and a kill falls between any two. A pin takes the newest generation
under the shared updater lock, or an existing release under the registry lock;
retention reads its consumers under both and retires the rest one by one.

`shown`, `truth` and `committed` are history: every pair that was ever visible,
when a key first was, and what the lake showed when its generation was
committed. Abstracted: one partition; a release is its generation and its files
never change; promotion of a staged version and legacy partitions are left out.

### AsOfView

`view[v]` is one replay's private state, named as the code's fields are: the
rows that wait for their refresh job, the rows a job released before the lake
had seen them (`held`), the slots each domain keeps (`segments`), the last
signature of each domain, the boundary gate, the numbering of parts and of the
running month. `stash` is what the replays share. A decision is three kinds of
step: `Refresh` opens slots, loads minute groups and rolls every domain, all in
the replay's own memory, and queues the parts to publish; `Publish` does one of
them under that part's lock, linking what it finds or encoding it; `Serve` hands
the directory and the version to the strategy, and `served` remembers what it
read. A replay that dies or is cut short is one that takes no further step.

Abstracted: a row is its place in the slot's file with its dataset,
availability and first-seen instants; a part is the sequence of its rows; a
domain gated as a whole is one of a single dataset. Text bodies, which are cut
from the rows their index part names, and schemas are left out. What a slot
holds (`SlotOf`) and what a refresh job lands (`Cutoff`) are the code's;
`Known`, which the view is compared with, uses no cursor, signature, slot or
part.

## Runs

| Run | Shows | Bounds |
|---|---|---|
| `research_graceful` | Without silent deaths and torn write groups, under fairness: spend within the limit, every dead run audited, a resumed session sees every node, a deliverable is never given up, no attempt bricked, every worker ends | N = 2, 2 attempts, block after 2, budget 4, 6 runs, 1 SIGTERM |
| `research_crash` | With a SIGKILL and a SIGTERM anywhere, torn markers, and a raised limit: contiguous record, registration on the full record, one outcome per run, no run vanishes, blocked only when spent, refinement of `ExperimentOutcome` (which makes the research record and the forward reading final) | N = 2, 2 attempts, block after 2, budget 2 raised to at most 3, 5 runs |
| `research_killed` | *violation*: a run killed after it recorded a test loses its audit | 1 SIGKILL |
| `research_torn` | *violation*: an attempt ended between a node and its sidecar bricks the session | 1 SIGTERM, torn groups |
| `research_full_record` | *violation*: an attempt interrupted after the last test cannot complete on resume | 1 SIGTERM |
| `lifecycle` | Two experiments and one slot, under fairness: at most one worker each, the limit counts every worker that can still work, a restart keeps its slot, the console sees the worker there is and shows no session nobody runs, a deferred restart is taken by the worker it was asked of, a pause or stop comes to rest | 3 processes, 3 requests, 1 kill |
| `agent_inbox` | With deaths anywhere, blocks and completions: one delivery per message, nothing waits in a closed session, a live attempt hears everything | 4 messages, 2 pending, 4 attempts |
| `session_budget` | The clock counts exactly the time no replay overlapped, the reserve and the cap hold across attempts, the spend overshoots by the calls in flight only, a session ends though a sub-agent hangs | 2 sub-agents, 2 attempts, 5 calls, cap 2, reserve 1, spend 2, 2 ticks, grace 1, 1 paused tick |
| `paper_book` | A taxed book under real fills: the journals account for the account, the ledger of fills matches them, the lots are the holding, no session sells what came to it that day, nothing settles without a record, the fitted state stays, the book implements `PaperAccount` | 3 sessions, 2 of them due, 1 refit, 1 possible ex-date of 5 shares for 2, 2 upsets (records or crashes), torn lines |
| `paper_exdate` | *violation*: a correction books shares across an ex-date the book went through flat | the same with 3 shares for 2, untaxed, 1 upset |
| `raw_lake` | With a kill between any two writes: nothing visible is lost, first-seen times are true, a release is its committed generation, a pinned release stays | 3 keys of 2 values, 4 instants, 4 generations, 3 jobs, 1 kill, 1 experiment |
| `asof_view` | Two replays of a span, each opening on any day, share the stash: every decision reads exactly the rows its instant may know, each once, and the right universe; a part found in the stash is the one the view would encode, and none is refused; a view only grows, and its version moves with it | 2 slots, 5 decisions in 3 months, 2 datasets with 2 and 3 refresh jobs, 6 rows in 3 domains, 489 lakes |

The bounds are the least at which the cases meet. Two steps distinguish the
first from the last and allow a record half the session's and half the host's.
Two attempts distinguish a retry from the last try; a third worker start is
still possible within the run bound. A block after two distinguishes the first
block from the last. Five or six runs are an attempt that fails, a retry, a
worker that dies, its successor's two attempts and the forward replay. Deadlock
is not checked: an experiment with a verdict, an integrity row, or a spent
bound really stops.

In the lifecycle run three processes are a worker, its replacement, and one
more start competing with both; three requests are two creates and the restart
that the second races, or a create, a pause or stop, and a restart, deferred or
immediate. Deadlock is not checked: once the requests are spent and the
workers have ended, nothing is left to do.

Four attempts of an inbox are one that dies, one that is blocked, one that reads
what they left, and its retry; two pending messages make a cap that a third
meets and an order that two can break. Two sub-agents are the least whose
replays overlap without nesting, and two attempts the least that read a trace;
five calls leave a fifth after both children, the main conversation and a
compaction have claimed. Three sessions are one settled, one corrected from the
next, and one after the ex-date, whose five shares for two make of one share held
before the two that one fill sells; two upsets are two records of one key, or one
and a crash. In the view's span the second slot opens at a decision before
which nothing new has landed, a row may be first seen between the last decision
of a slot and its anchor, and a month has two parts to merge; the lake is
complete or holds its minutes alone, so that a gate may rest on them. Three jobs over a partition of three keys are a write, one that
supersedes it, and a vouching or operator's job over a killed one. Deadlock is not
checked in these runs either: each ends when its bound is spent.

`MCLake` lets no pin move between two writes of one commit (`PinsBetweenCommits`,
an action constraint); between commits and under a working job pins open, choose,
record and end as they like. Nothing the properties see is lost: a commit writes
the partition, a pin that moves beside one reads and writes releases and pins
only, and what either does the other does not read.

**Which properties hold where.** Three of the graceful research run's properties
are false when a run may die silently or between the writes of one Validation;
those are the violation runs, so they are checked where they hold
and refuted where they do not. `DeliverableKept` needs no exit between the
removal and the copy of a publication. `SpendBounded` and `ReserveKept` hold
across attempts, the total cap of calls only within one; see the disagreements.

**Fairness.** `FairSpec` asks weak fairness of `Work`, the worker's own steps,
and nothing else. It is justified because the worker is one process whose calls
all have timeouts and whose loops are bounded by the budget or by the attempts.
Starts, signals, kills, exceptions and overrides are not fair. `WorkerEnds`
needs it. In `WorkerLifecycle` the console's operations are fair too, because
each of their waits has a deadline; the operator's requests, the delivery of a
SIGTERM (blocking work may ignore it for long) and kills are not. `ComesToRest`
needs both. In `AgentInbox` a live worker goes on and an append that reached the
console is made; starts and deaths are not fair. In `SessionBudget` the main
conversation goes on, time passes and a sub-agent's replay returns (it has a
timeout of its own); a sub-agent's turns, calls and tools are not fair: it may
hang for ever, and `SessionEnds` holds all the same. `PaperEngine` and `RawLake`
state none: a book's run and a job are started by a schedule that may stop, and
a run that finds the book's writer lock taken gives up. `AsOfView` states none
either: a replay may stop anywhere, and what is shown until then is the question.

`NoGhostSession` speaks of a running session only. It is false of "preparing":
a SIGTERM that arrives while the entrypoint reports a failure ends that report.
Its premise names the two ways it fails of a running one: a worker killed from
outside, and a restart that killed its worker and was then refused the slot
(`owed` is `"broken"`; the third entry of the list below). The proof found the
second, which no run of these bounds reaches.

## Disagreements between the code and what it says

Four are runs that TLC ends in a violation:

1. **A killed run that had recorded a test is not audited**
   (`research_killed`). Recovery drops a marker whose run any ledger row names
   (`ledger.py:419-428`) and `test_step` rows name their run. The run gets no
   `attempt_failed`, the next attempt does not know it resumes and refuses the
   existing session root, and the one after starts without the killed run's
   spend.
2. **A node without its sidecar bricks the session** (`research_torn`). The tree
   is saved before the sidecar is written (`session_tools.py:966-990`) and any
   later publication copies it; `load_recorded_steps` then refuses every
   attempt. A SIGTERM is enough.
3. **A full record cannot complete on resume** (`research_full_record`). Only
   the `test` tool ends a session, and it refuses on a full record
   (`session_tools.py:2271`); the session spends the rest of its budget.
4. **A correction crosses an ex-date the book went through flat**
   (`paper_exdate`). `_ex_dated` looks for recorded corporate actions
   (`paper/fills.py:689`), and the broker records one only for a name it holds.
   Shares that a late record adds to an earlier session are booked without the
   split, where `fills.py:32-36` promises exact booking or a stop.

More were met, are stated as definitions where a definition can say them, and
are not among the runs:

* A worker that dies while preparing cannot be resumed (`KilledIsResumable`):
  `PREPARING` is not in `ACTIVE_STATES` (`webui/registry.py:99`), so `resume`
  starts nothing (`webui/manager.py:91`, `:759`). An immediate restart does.
* A pausing worker exits instead of blocking (`ResumeIsHeard`), against
  `interactive.py:20`; a resume in between is lost (`:134-138`), the next starts.
* A restart may be refused after it ended the worker it replaces
  (`RestartNeverRefused`), against `manager.py:938-947`: a SIGTERM that reaches
  another experiment's stopped worker on its way out makes that worker count
  again. Five requests are needed; TLC finds it with `MaxAsks = 5`,
  `MaxProcs = 2` and no kill.
* A record the console accepts may name a session that settles by simulation
  (`AcceptedRecordsApply`): a run that began before the switch does not read it
  (`fills.py:239`, `:341`), against `fills.py:3-6`.
* A torn line in a settlement journal makes every later reading of the verdict
  raise (`verdict.py:294`). `PaperEngine`'s `damaged` models it; no document
  denies it.
* The trace block reads the counters one by one without the lock
  (`research_session.py:643-660`). A claim in between leaves a total below the
  sum of the roles, and the next attempt starts from it, so that its
  conversations together pass `max_calls`, which `research_session.py:181` calls
  hard.
* The row that completes a session and the expiry of its inbox are two writes
  (`experiment.py:510-512`); `interactive.py:126-127` takes them for one.
* A reopened message may bring the inbox above its cap (`agent_inbox.py:94`),
  and a message consumed before a call that the budget refuses counts as read.
* A staged version torn between its two renames is taken as already staged and
  cannot be promoted (`versions.py:679-686`, `:714`).
* A kept version torn the same way blocks `rebuild_observations` until an
  operator removes it. `Rebuild`'s guard models it.

## Proofs

`ResearchProtocolProofs` proves for all values of the constants, from
`ConstantsAssumption` alone (the record has at least one step, at least one
attempt, a block after at least one batch, the budget within its bound):

* `TypeCorrect`: `Spec => []TypeOK`, the module's type invariant, which is proved
  and so not among the runs' properties. One lemma per group of variables
  (`LedgerTypeKept`, `DiskTypeKept`, `SessionTypeKept`, `EndingTypeKept`,
  `WorkerTypeKept`), each from a lemma that names the group's writers.
* `RecordIsContiguous`: `Spec => []RecordContiguous`.
* `RegistrationOnFullRecord`: `Spec => []RegisteredOnFullRecord`.

Neither of the last two is inductive: both speak of the ledger, and the ledger
is written from memory. `IInv` adds what connects them. `StageInv`: a session
runs only before any research record. `CountInv`: while a session runs its
count of tests is the ledger's, and never more than N. `ClosingInv`: a session
that closes has an outcome, so `Register` never meets an open one. `NomineeInv`:
a completed session nominated what the last step replayed; a nominee about to
be recorded has the whole record, either because the session's last test gave
it or because the host has just replayed the rest. `RowAdded` is the heart of
it: the row a test or the host adds is the step after the last. `IInv` was
checked by TLC before it was proved.

`AgentInboxProofs` proves for any number of messages, any cap and any number of
attempts, from `InboxAssumption` (each is positive):

* `ClosedSessionIsEmpty`: `Spec => []ClosedIsEmpty`. Alone it is not inductive:
  that closing finds nothing pending depends on what a run may still read.
  `InboxInv` adds that a closed inbox belongs to no attempt at work, that a run
  whose leftovers expire has its row, and that what a closed inbox has consumed
  was consumed by a run that landed; so nothing is reopened into it.
* `MessagesDeliveredOnce`: `Spec => []DeliveredOnce`. `DeliveryInv` relates the
  three places a message can be in: listed (`todo`), said, and consumed. What
  is listed is pending and later than all the run has said; what was said and
  is not the message about to be consumed has the run as its reader; a message
  whose reader is a run was said by it; and a run that landed keeps its
  messages, since only what a run without a row read is reopened.

`SessionBudgetProofs` proves for any number of sub-agents, calls, ticks and
attempts, from `BudgetAssumption` (finitely many sub-agents, a positive budget,
a reserve no larger than it):

* `ClockIsExact`: the clock counts exactly the ticks no replay overlapped.
  `DepthInv` is what it needs: the pause depth is the number of threads in a
  replay, so that the last to leave, whichever it is, extends the deadline.
* `ReserveIsKept`: the reserve and the cap hold for the live counters and for
  every block on the trace. The reason is in `ReserveInv`: the bound also holds
  of the traced counters, whose total was read no later than the roles, and a
  smaller total leaves more for the main conversation.
* `SpendIsBounded`: charged and in flight together stay below the cap plus one
  claim for every thread; the count of threads in flight is a cardinality, and
  `OneMoves` says what one thread's step does to it.

`WorkerLifecycleProofs` proves for any number of processes, requests and kills,
from `LifecycleAssumption` (finitely many experiments, the name 0 free, at least
one slot): `TypeCorrect`, `OneWorkerAlways`, `WithinSlotsAlways`,
`RestartKeepsSlotAlways`, `LiveIsSeenAlways`, `NoGhostSessionAlways` and the
action property `RestartOfItsOwnAlways`. `OneWorker` speaks of processes alone;
what keeps a second one away goes through the files. `SeenInv`: whoever may
still write its pid into the status is the process the status names, with its
start ticks, or the one being launched. `DecidedInv`: a start is decided only
while nobody is seen. `LockInv`: whoever waits for a worker, or launches one,
holds the slot lock. `WithinSlots` is then part of the invariant itself,
`OwedInv` adds that the others leave one slot while a restart owes its worker
one, and `GhostInv` follows a status that says a session runs from the worker
that wrote it through the restart that replaces it.

The second part of `ResearchProtocolProofs` rests on the same assumption:

* With kills, signals and torn groups of writes anywhere: `OneOutcomeAlways`,
  `NoRunVanishesEver`, `BlockedOnlyAtTheLast`, and `Implements`, the refinement
  of `ExperimentOutcome`. `RunInv` is what they share: a run at work has no
  outcome yet, a run that is about to drop its marker has one. `BlockInv` says
  which attempt records a block, `CandInv` that every candidate is a node of the
  tree, `ForwardInv` that the forward stage is entered with a registration and
  without a reading. The refinement is step by step: every writer of the ledger
  is one action of `ExperimentOutcome` (`RevealsNext`, `Decides`, `ReadsOnce`)
  or changes nothing its readers see.
* If no process ends inside the writes of one Validation (`~TornWrites`):
  `EveryNodeSeen`, `AlwaysResumable`, `DeliverableAlwaysKept`. `TreeInv` relates
  the tree, its sidecars, its published copy and the steps a session can
  nominate, between and inside those writes.
* If besides no process is killed outright (`Graceful`): `SpendAlwaysWithinLimit`
  and `DeadRunsAudited`. `SpendInv`: what a session counts is what was really
  spent, and the trace, or the attempts before it, carry it on.

The runs `research_torn` and `research_killed` show that neither premise can be
dropped.

`RawLakeProofs` proves for any experiments, keys, values, answers, jobs,
generations and kills, from `LakeAssumption` (what can be answered is a content;
the names for nobody and for retention are no experiments'):

* `PinnedReleaseAlwaysKept`, from `LockInv` (who holds which lock in which step)
  and `PinInv` (a release about to be recorded is there, and a retention keeps
  what its consumers have pinned).
* the action property `ReleaseAlwaysCommitted`, from `CommitInv`: a committed
  record has no staged sidecar and vouches for what was committed, and so does a
  job that wrote nothing over one.
* `NothingEverLost`, from `LostInv`: from the instant a commit decides, what is
  visible is in the new rows or in a version that can be restored.
* `FirstSeenAlwaysTrue`, from `SeenInv`, which relates the observation table to a
  history of the visible rows. `Since` is the instant of the visible content: its
  sidecar's, or that of the sidecar a killed commit left staged. `IdInv`: one id
  is never given to two contents, so a sidecar found beside a parquet is its own.
  `WholeInv`: the parquet is without its sidecar only between the two renames,
  and then the sidecar is staged. `ClockInv`: a commit's instant is later than
  that of the content it replaces, so what it records does not count before its
  rows are visible and what a killed one recorded is told from what counts.
  `TableInv` then speaks of the table row by row, `PendInv` of the rows a commit
  has recorded and not yet shown. A rebuild finds the kept states with the least
  instant for each key.

All rest on `ShapeInv`, whose `Pairing` says that a version whose sidecar is
about to follow is there.

`PaperBrokerProofs` holds the account. An account is `Sound` when cash and
holding are natural numbers and the lots, each of a positive size, add up to the
holding; `OpenDaySound`, `ExecuteSound` and `CorrectSound` say that an ex-date's
resizing, an order and a correction keep it so and move it by what they report,
and that a day opens with no more to sell than was held before.
These need sums over sequences. The library's induction theorems take an
operator as a parameter; `Induction` says the same of a set (a set that holds 0
and the successor of each of its numbers holds all of them, because the least it
lacks would be neither), and with it `SumOf`, whose running totals are a
function, gets its lemmas.

`PaperEngineProofs` proves for any calendar, schedule, prices, records, crashes
and torn lines, from `PaperAssumption` (the sessions named are sessions, amounts
are natural numbers): `BookTypes`, `BooksAlwaysBalance`, `LedgerAlwaysMatches`,
`LocksHold`, `LotsAlwaysAddUp`, `NothingAssumed`, `FitStateAlwaysKept` and
`BookImplements`.

* What a settlement does is one fact of its own (`SettlementMaking`): whatever
  the owner recorded, its rows add up to the account's change (`Explained`) and,
  order by order, to the ledger's, and name no session it did not reach. It is
  built row by row along the code's steps: the day's opening, each correction,
  the sheet, what was traded beyond it.
* How rows go out is another (`NumberInv`): the outbox holds the last identities
  issued, in order, and a row of it that is already journaled is the journaled
  one. So what is published (the journal, with the outbox's rows it lacks) is
  the same before and after any part of an outbox has gone out.
* `BookInv` puts them together with the calendar (`CalendarInv`, `PlanInv`: what
  a run checked before it settles and decides still holds), the reach of the rows
  (`RowsInv`, `LedgerInv`), the owner's answers (`EvidenceInv`) and the fitted
  states (`FitInv`). `BalanceInv`, `LockInv` and `MatchInv` are three properties
  the run checks, in the form in which they are inductive.
* `LockInv` is T+1 without the locks: the shares of all earlier days, with what a
  day corrected of them, cover what the day sold. A settlement proves it of its
  own day, since what an account may still sell never exceeds what it held before
  with what the rows so far freed (`Explained`). The days before keep their sums;
  those after see the whole holding, because no row moves a share after the last
  settled session (`Reached`).
* For the refinement every step of a book leaves its account as a reader sees it,
  settles the next session, or decides one (`Steady`, `SettledAs`, `DecidedAs`),
  and each of the three is a step of `PaperAccount` or a stutter.

`AsOfViewProofs` proves for any decisions, slots, refresh jobs, domains, minute
groups, lakes and replays: `ViewAlwaysExact`, `StashAlwaysAgrees` and the action
property `ViewOnlyGrows`. Its assumptions are three. `SpanAssumption`: decisions
and anchors ascend (both come from a trading calendar), every domain rolls once,
and auction rows, which are gated one by one, are not fed in groups.
`FeedAssumption`: a refresh job is done no earlier than it starts.
`LakesAssumption`: a row has a known domain and dataset; the lake saw it when it
was available or later (`first_seen_at` is read only "where that is later than
its available_at", `timeview.py:209-210`), and after the first anchor; the rows of
the minute groups are the minute domain's, and carry no first-seen time, which
is why `_roll_incremental` holds none back.

* The argument never follows a part back through the refreshes that made it. A
  decision `i` of a view that opens on `f` adds to a domain the rows `Grown`, and
  publishes them, if there are any, as part `Number`: both are functions of the
  lake, the schedule and `f` alone. `Batch` is then the rows of the parts `a` to
  `b`, and `ReadOrder` the order in which they are read: decisions first, file
  order within one. `Enumerates` says that a sequence holds a set's elements each
  once, in that order, and `EnumerationIsUnique` that only one does.
* `EntryIs`: a part in the stash, named by its opening, slots, domain and numbers,
  enumerates its batch. Since two enumerations of one batch are equal, what a
  replay finds is what it would encode, with the same count; this is
  `StashAgrees`, and it is why the opening has to be part of the name.
* `CursorsAt` is a domain between two refreshes: what is waited for or held is
  what was opened and is not known yet (`Waits`), a row is held for its first-seen
  time alone (`HeldLanded`), a slot is kept while a row of it is pending
  (`KeptInView`), and the signature, if there is one, is that of an earlier refresh
  after which nothing landed was waited for (`Signed`). From these
  `SkipMissesNothing`: an equal signature and no held row due mean that nothing
  new is known. `GateIs` says the same of the boundary: before it, nothing that
  is pending becomes known. The gate, the signature and the slots let go are the
  three shortcuts of `timeview.py`, and each has its lemma (`BoundaryIs`,
  `SkipMissesNothing`, `ContinueIs`).
* `BooksAt` is a domain's parts: they hold their batches and tile the numbers so
  far (`Tiles`), the running month is the parts since it began, none of them
  merged (`MonthIs`, `Singles`), and what is queued is the newest part and, behind
  it, the merge of the month before (`QueuedIs`). `ReadingIs`: parts that tile `a`
  to `b`, read in order, enumerate the batch of `a` to `b`, however they were
  merged. So what is shown enumerates what is known, and an earlier showing is a
  prefix of it (`PrefixIs`).
* `ViewIs` and `ServedIs` put these together for one view and what it last
  showed; the version is in `ServedIs`: it is the one shown exactly while the rows
  known and the universe are.

The model's loops over slots, domains and parts are recursive functions; the
proof takes each as a chain of states (`OpeningExists`, `RollingExists`,
`FlattenExists`) and goes along it with `Induction`, the number lemma described
above.

Every strengthening was checked by TLC before or beside its proof.

Long case splits are divided, and a fact that several leaves would expand is a
lemma, so that no leaf comes near the provers' time limits: every proof module
checks from nothing with those limits cut to a third.

Model-checked only: liveness (`WorkerEnds`, `ComesToRest`, `Heard`,
`SessionEnds`), which the prover does not reach.

## Plan

Done: `ResearchProtocol` with `ExperimentOutcome`, `WorkerLifecycle`,
`AgentInbox`, `SessionBudget`, `PaperEngine` with `PaperBroker` and
`PaperAccount`, `RawLake` with `LakePartition`, `AsOfView`; every safety property
and every action property of the runs proved, and both refinements. Next, in
this order:

1. More of the session: validation batches and their parallel cards, the
   validate interval.
2. More of the lake: promotion of a staged version, legacy partitions.
3. More of the replay: the contract a stash is bound to, text bodies, the order
   of fit, inference and settlement in the engine's daily loop.

## Not modelled

`PROJECT.json` lists every component with its status and the reason. In short:
floating-point statistics and data-frame transforms have no order of events;
vendor downloads, container management and HTTP are I/O whose failures enter
the protocol as errors; prompts, traces and read models are text. Of the
modelled components these parts are left out: creation of a Paper book and its
cap, the simulated track kept beside a book on real fills, fees, taxes and
several names in an account; the vendor side of an update and the run report of
a job; GPU claims, archiving and un-archiving in the console; the artifacts and
statistics an experiment copies; the refusal of a session whose trace reached
its size cap (`session_resume.py:171`: traces are taken to stay below it, since
an attempt past it spends untraced); the text bodies and schemas of a replay's
view. The implementation is mostly such code, which is why the map covers the
share of it that it does.
