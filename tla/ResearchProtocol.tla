--------------------------- MODULE ResearchProtocol ---------------------------
(***************************************************************************)
(* One experiment of autotrade, from its first worker start to its         *)
(* terminal verdict: the research session with its Validations and tests,  *)
(* the registration, the host's completion of the validation record, the   *)
(* forward replay, and every retry, termination and crash in between.      *)
(*                                                                         *)
(* State is split the way the code splits it.  The ledger (ledger.jsonl),  *)
(* the run markers, the session root, the step tree with its sidecars and  *)
(* its published copy, and the traces are on disk and survive any exit of  *)
(* the worker; everything else is the worker's memory, meaningful only     *)
(* while pc says a run is under way.  One worker runs at a time (the       *)
(* console's lifecycle guarantees it), so the worker is one program        *)
(* counter, and each step is one durable write with the memory updates     *)
(* that go with it.                                                        *)
(*                                                                         *)
(* Abstracted: a Validation is one node with the one bit the protocol      *)
(* reads, whether it registers by itself (a full-span, non-control Step    *)
(* whose check_registration passes); a batch is a batch of one; seed       *)
(* replicates are part of the candidate; budgets are units of model        *)
(* turns; the bytes and readings of replays are left out.                  *)
(***************************************************************************)
EXTENDS Integers, Sequences, FiniteSets

CONSTANTS
    N,              \* steps of the validation record (ValidationSteps.count)
    MaxAttempts,    \* session_max_attempts
    BlockedAfter,   \* ENVIRONMENT_BLOCKED_BATCHES
    Budget,         \* the session's configured budget, in model turns
    MaxLimit,       \* bound: how far an operator's override may raise it
    MaxRuns,        \* bound: run ids ever created
    MaxKills,       \* bound: SIGKILLs, OOM kills, host resets
    MaxTerms,       \* bound: SIGTERMs
    TornWrites     \* may a process end inside a Torn group of writes?

ASSUME ConstantsAssumption ==
    /\ N \in Nat \ {0}
    /\ MaxAttempts \in Nat \ {0}
    /\ BlockedAfter \in Nat \ {0}
    /\ Budget \in Nat
    /\ MaxLimit \in Nat /\ Budget <= MaxLimit
    /\ MaxRuns \in Nat
    /\ MaxKills \in Nat
    /\ MaxTerms \in Nat
    /\ TornWrites \in BOOLEAN

VARIABLES
    \* ---- the ledger, by record type (every reader filters by type) ----
    tests,      \* test_step records: step, candidate, source, run
    failed,     \* attempt_failed records: run, phase
    research,   \* research_session records: run, registered node, end status
    forwards,   \* forward records: run, status
    \* ---- the rest of the disk ----
    markers,    \* .host/runs: markers of runs that wrote no record yet
    root,       \* the session runtime root: absent, laid out or seeded
    tree,       \* the session's step tree: per complete node, does it register
    sidecars,   \* nodes with a host-only sidecar
    published,  \* complete nodes of the experiment's copy of the tree
    traced,     \* the last budget_used block of each run's trace (0: none)
    limit,      \* the session budget in force (configured or overridden)
    \* ---- the worker's memory ----
    pc, phase, run, tries, resume, attempt, used, known, steps,
    batchFails, testFails, outcome, nominee, after, exiting,
    \* ---- history ----
    lastRun, spent, kills, terms

ledger  == <<tests, failed, research, forwards>>
session == <<resume, attempt, used, known, steps, batchFails, testFails>>
ending  == <<outcome, nominee, after>>
disk    == <<root, tree, sidecars, published, traced>>
history == <<lastRun, spent, kills, terms>>
vars == <<ledger, markers, disk, limit, pc, phase, run, tries, session,
          ending, exiting, history>>

-----------------------------------------------------------------------------
(* What the ledger's readers conclude. *)

None == 0   \* no node, no run

Registered == \E i \in DOMAIN research : research[i].registered # None

ResearchOver == Registered \/ \E i \in DOMAIN research : research[i].end # "none"

Mutated == \E i \in DOMAIN forwards : forwards[i].status = "integrity_failure"

ForwardDone == \E i \in DOMAIN forwards : forwards[i].status # "integrity_failure"

Verdict == ForwardDone \/ (~Registered /\ ResearchOver)

RunsIn(log) == { log[i].run : i \in DOMAIN log }

MutantFailuresOnly == RunsIn(failed)   \* business records are not looked at
\* Every run id any ledger record carries, a test_step's too.
Recorded == RunsIn(tests) \cup RunsIn(failed) \cup RunsIn(research)
              \cup RunsIn(forwards)

\* The research attempts that failed, in ledger order (resume_state).
Attempts == { i \in DOMAIN failed : failed[i].phase = "research" }

MutantNoSpend == 0   \* a resumed attempt starts from a fresh budget
\* The spend the last of their traces that names one leaves behind.
LastSpend ==
    LET spenders == { i \in Attempts : traced[failed[i].run] > 0 }
    IN  IF spenders = {} THEN 0
        ELSE traced[failed[CHOOSE i \in spenders : \A j \in spenders : j <= i].run]

MutantLastNodeMissed == 1 .. published - 1   \* off by one
\* The complete nodes a resumed attempt can account for.
Published == 1 .. published
Loadable  == Published \subseteq sidecars

TestsOnRecord == Len(tests)

MutantZeroBased == known   \* the step already counts from zero
NextStep == known + 1

StepUnrecorded(s) == \A i \in DOMAIN tests : tests[i].step # s

-----------------------------------------------------------------------------
Init ==
    /\ tests = <<>> /\ failed = <<>> /\ research = <<>> /\ forwards = <<>>
    /\ markers = {} /\ root = "absent"
    /\ tree = <<>> /\ sidecars = {} /\ published = 0
    /\ traced = [r \in 1 .. MaxRuns |-> 0]
    /\ limit = Budget
    /\ pc = "down" /\ phase = "research" /\ run = None /\ tries = 0
    /\ resume = FALSE /\ attempt = 0 /\ used = 0 /\ known = 0 /\ steps = <<>>
    /\ batchFails = 0 /\ testFails = 0
    /\ outcome = "open" /\ nominee = None /\ after = "session"
    /\ exiting = FALSE
    /\ lastRun = 0 /\ spent = 0 /\ kills = 0 /\ terms = 0

-----------------------------------------------------------------------------
(* The worker between runs: recovery, the verdict, the session plan. *)

\* A worker start refuses while an integrity row stands; otherwise it first
\* turns the markers it finds into ledger evidence.
StartWorker ==
    /\ pc = "down" /\ ~Mutated
    /\ lastRun + 2 * MaxAttempts <= MaxRuns
    /\ pc' = "recovering" /\ exiting' = FALSE
    /\ UNCHANGED <<ledger, markers, disk, limit, phase, run, tries, session,
                   ending, history>>

MutantDropUnreadable(m) == m.run \in Recorded \/ m.phase = "unknown"
Droppable(m) == m.run \in Recorded

AllForgotten == markers = {}

\* A marker whose run no ledger record names becomes an attempt_failed.
RecoverRecord ==
    /\ pc = "recovering"
    /\ \E m \in markers :
         /\ m.run \notin Recorded
         /\ failed' = Append(failed, [run |-> m.run, phase |-> m.phase])
    /\ UNCHANGED <<tests, research, forwards, markers, disk, limit, pc, phase,
                   run, tries, session, ending, exiting, history>>

\* A marker whose run is in the ledger, however it got there, is dropped.
RecoverDrop ==
    /\ pc = "recovering"
    /\ \E m \in markers : Droppable(m) /\ markers' = markers \ {m}
    /\ UNCHANGED <<ledger, disk, limit, pc, phase, run, tries, session,
                   ending, exiting, history>>

\* With a verdict the worker republishes it and exits; else it plans.
Recovered ==
    /\ pc = "recovering" /\ AllForgotten
    /\ pc' = IF Verdict THEN "down" ELSE "ready"
    /\ UNCHANGED <<ledger, markers, disk, limit, phase, run, tries, session,
                   ending, exiting, history>>

\* The research session runs until research is over, the forward replay once
\* an artifact registered; with neither due the worker is done.
NextSession ==
    /\ pc = "ready"
    /\ \/ /\ ~ResearchOver
          /\ pc' = "begin" /\ phase' = "research" /\ tries' = 0
       \/ /\ Registered /\ ~ForwardDone
          /\ pc' = "begin" /\ phase' = "forward" /\ tries' = 0
       \/ /\ Verdict
          /\ pc' = "down" /\ UNCHANGED <<phase, tries>>
    /\ UNCHANGED <<ledger, markers, disk, limit, run, session, ending, exiting,
                   history>>

-----------------------------------------------------------------------------
(* The research session: opening an attempt. *)

\* The published tree names a node without its sidecar: the attempt fails
\* before it has a marker, a run id or a ledger record.
BeginRefused ==
    /\ pc = "begin" /\ phase = "research" /\ ~Loadable
    /\ tries' = tries + 1
    /\ pc' = IF tries + 1 < MaxAttempts THEN "begin" ELSE "down"
    /\ UNCHANGED <<ledger, markers, disk, limit, phase, run, session, ending,
                   exiting, history>>

\* The attempt's marker is written once its inputs are read: the failed
\* attempts before it, the spend they left, the published Validations and the
\* tests on record.
BeginResearch ==
    /\ pc = "begin" /\ phase = "research" /\ Loadable /\ lastRun < MaxRuns
    /\ lastRun' = lastRun + 1 /\ run' = lastRun + 1
    /\ markers' = markers \cup {[run |-> lastRun + 1, phase |-> "research"]}
    /\ tries' = tries + 1
    /\ resume' = (Attempts # {})
    /\ attempt' = Cardinality(Attempts) + 1
    /\ used' = LastSpend
    /\ steps' = [i \in Published |-> i]
    /\ known' = TestsOnRecord
    /\ batchFails' = 0 /\ testFails' = 0
    /\ outcome' = "open" /\ nominee' = None /\ after' = "session"
    /\ pc' = "resolve"
    /\ UNCHANGED <<ledger, disk, limit, phase, exiting, spent, kills, terms>>

\* A session root nobody's failed attempt explains, or one whose workspace is
\* missing although spend or Validations are on record, is refused.
Refused ==
    \/ root # "absent" /\ ~resume
    \/ resume /\ root # "seeded" /\ (steps # <<>> \/ used > 0)

Resolve ==
    /\ pc = "resolve"
    /\ \/ Refused /\ pc' = "failing" /\ UNCHANGED <<root, resume>>
       \/ /\ ~Refused /\ pc' = "seed"
          /\ root' = IF root = "absent" THEN "layout" ELSE root
          /\ resume' = (resume /\ root = "seeded")
    /\ UNCHANGED <<ledger, markers, tree, sidecars, published, traced, limit,
                   phase, run, tries, attempt, used, known, steps, batchFails,
                   testFails, ending, exiting, history>>

\* The working copy is seeded, or kept as a resumed attempt finds it.
Seed ==
    /\ pc = "seed"
    /\ root' = "seeded" /\ pc' = "session"
    /\ UNCHANGED <<ledger, markers, tree, sidecars, published, traced, limit,
                   phase, run, tries, session, ending, exiting, history>>

-----------------------------------------------------------------------------
(* The session: one model turn at a time, each charged and traced. *)

Turn ==
    /\ pc = "session" /\ used < limit
    /\ used' = used + 1 /\ spent' = spent + 1
    /\ traced' = [traced EXCEPT ![run] = used + 1]

\* The model thinks, edits its workspace, or has a tool call refused.
Think ==
    /\ Turn
    /\ UNCHANGED <<ledger, markers, root, tree, sidecars, published, limit, pc,
                   phase, run, tries, resume, attempt, known, steps, batchFails,
                   testFails, ending, exiting, lastRun, kills, terms>>

\* A Validation completes: its node enters the session's tree.
Validate ==
    /\ Turn
    /\ \E registers \in BOOLEAN : tree' = Append(tree, registers)
    /\ pc' = "sidecar"
    /\ UNCHANGED <<ledger, markers, root, sidecars, published, limit, phase,
                   run, tries, resume, attempt, known, steps, batchFails,
                   testFails, ending, exiting, lastRun, kills, terms>>

MutantOnlyIfRegistering ==   \* a partial-span Step or a control gets none
    sidecars \cup { n \in {Len(tree)} : tree[n] }
WithSidecar == sidecars \cup {Len(tree)}

\* Its host-only sidecar is written next, and the tree is then published.
RecordSidecar ==
    /\ pc = "sidecar"
    /\ sidecars' = WithSidecar
    /\ pc' = "unpublish" /\ after' = "keep"
    /\ UNCHANGED <<ledger, markers, root, tree, published, traced, limit, phase,
                   run, tries, session, outcome, nominee, exiting, history>>

\* publish_tree removes the experiment's copy ...
Unpublish ==
    /\ pc = "unpublish"
    /\ published' = 0 /\ pc' = "publish"
    /\ UNCHANGED <<ledger, markers, root, tree, sidecars, traced, limit, phase,
                   run, tries, session, ending, exiting, history>>

\* ... and copies the session's tree over; a fresh Validation is then the
\* session's to nominate.
Publish ==
    /\ pc = "publish"
    /\ published' = Len(tree)
    /\ IF after = "keep"
       THEN steps' = Append(steps, Len(tree)) /\ pc' = "session"
       ELSE pc' = after /\ UNCHANGED steps
    /\ UNCHANGED <<ledger, markers, root, tree, sidecars, traced, limit, phase,
                   run, tries, resume, attempt, used, known, batchFails,
                   testFails, ending, exiting, history>>

\* A batch fails: its dead end is published.  When the environment failed it
\* whole, BlockedAfter of those on one span end the attempt.
ValidateFails ==
    /\ Turn
    /\ \/ /\ UNCHANGED batchFails       \* the strategy's own error
          /\ after' = "session" /\ UNCHANGED outcome
       \/ /\ batchFails' = batchFails + 1
          /\ IF batchFails + 1 < BlockedAfter
             THEN after' = "session" /\ UNCHANGED outcome
             ELSE after' = "closing" /\ outcome' = "environment_blocked"
    /\ pc' = "unpublish"
    /\ UNCHANGED <<ledger, markers, root, tree, sidecars, published, limit,
                   phase, run, tries, resume, attempt, known, steps, testFails,
                   nominee, exiting, lastRun, kills, terms>>

\* A test of a candidate that registers: the next step is durable before
\* anything is returned, and the last one ends the session.
Test ==
    /\ Turn /\ known < N /\ StepUnrecorded(NextStep)
    /\ \E i \in DOMAIN steps :
         /\ tree[steps[i]]
         /\ tests' = Append(tests, [step |-> NextStep, cand |-> steps[i],
                                    source |-> "test", run |-> run])
         /\ IF known + 1 = N
            THEN outcome' = "completed" /\ nominee' = steps[i] /\ pc' = "closing"
            ELSE UNCHANGED <<outcome, nominee, pc>>
    /\ known' = known + 1 /\ testFails' = 0
    /\ UNCHANGED <<failed, research, forwards, markers, root, tree, sidecars,
                   published, limit, phase, run, tries, resume, attempt, steps,
                   batchFails, after, exiting, lastRun, kills, terms>>

\* The host fails a test's replay; the BlockedAfter-th in a row ends the
\* attempt, and so does a seed that lacks the replay's prebuilt state.
TestFails ==
    /\ Turn /\ known < N
    /\ \E i \in DOMAIN steps : tree[steps[i]]
    /\ \/ /\ testFails + 1 < BlockedAfter
          /\ testFails' = testFails + 1 /\ UNCHANGED <<pc, outcome>>
       \/ /\ testFails' = testFails + 1
          /\ pc' = "closing" /\ outcome' = "environment_blocked"
    /\ UNCHANGED <<ledger, markers, root, tree, sidecars, published, limit,
                   phase, run, tries, resume, attempt, known, steps, batchFails,
                   nominee, after, exiting, lastRun, kills, terms>>

MutantBudgetSpent == used > limit    \* the two guards of the loop disagree
BudgetSpent == used >= limit

\* The budget is spent: the session closes as it stands.
Deadline ==
    /\ pc = "session" /\ BudgetSpent
    /\ outcome' = "deadline" /\ pc' = "closing"
    /\ UNCHANGED <<ledger, markers, disk, limit, phase, run, tries, session,
                   nominee, after, exiting, history>>

\* The session's result is collected over a last publication of its tree.
Collect ==
    /\ pc = "closing"
    /\ pc' = "unpublish" /\ after' = "collected"
    /\ UNCHANGED <<ledger, markers, disk, limit, phase, run, tries, session,
                   outcome, nominee, exiting, history>>

-----------------------------------------------------------------------------
(* The attempt's end: registration, the host's rows, the record. *)

\* What a session whose budget ran out registers: the last tested candidate,
\* or before any test the last of its Validations that registers by itself.
Registrables == { i \in DOMAIN steps : tree[steps[i]] }
MutantLastStep ==   \* looks at the last Step, not at the last that registers
    IF steps = <<>> THEN None
    ELSE IF tree[steps[Len(steps)]] THEN steps[Len(steps)] ELSE None
LastRegistrable ==
    IF Registrables = {} THEN None
    ELSE steps[CHOOSE i \in Registrables : \A j \in Registrables : j <= i]

MutantFirstTested ==
    IF outcome = "completed" THEN nominee
    ELSE IF tests # <<>> THEN tests[1].cand
    ELSE LastRegistrable
Candidate ==
    IF outcome = "completed" THEN nominee
    ELSE IF tests # <<>> THEN tests[Len(tests)].cand
    ELSE LastRegistrable

\* The attempt may be retried after an environment block, or its candidate is
\* no Validation this session can account for.
MutantBlockEnds ==   \* the first environment block ends the experiment
    IF outcome = "environment_blocked" THEN FALSE
    ELSE \A i \in DOMAIN steps : steps[i] # Candidate /\ Candidate # None
EndRefused ==
    IF outcome = "environment_blocked"
    THEN attempt < MaxAttempts
    ELSE \A i \in DOMAIN steps : steps[i] # Candidate /\ Candidate # None

MutantUntestedOnly(c) == outcome = "deadline" /\ c # None /\ tests = <<>>
HostCompletes(c) == outcome = "deadline" /\ c # None /\ Len(tests) < N

\* The candidate registers; a session whose budget ran out leaves the rest of
\* the validation record to the host.
Register ==
    /\ pc = "collected"
    /\ IF EndRefused
       THEN pc' = "failing" /\ UNCHANGED nominee
       ELSE /\ nominee' = IF outcome = "environment_blocked" THEN None
                          ELSE Candidate
            /\ pc' = IF HostCompletes(nominee') THEN "completing" ELSE "record"
    /\ UNCHANGED <<ledger, markers, disk, limit, phase, run, tries, session,
                   outcome, after, exiting, history>>

\* One host row per remaining step, read off one replay of the candidate.
CompleteRow ==
    /\ pc = "completing" /\ StepUnrecorded(NextStep)
    /\ tests' = Append(tests, [step |-> NextStep, cand |-> nominee,
                               source |-> "host_completion", run |-> run])
    /\ known' = known + 1
    /\ pc' = IF known + 1 < N THEN "completing" ELSE "record"
    /\ UNCHANGED <<failed, research, forwards, markers, disk, limit, phase,
                   run, tries, resume, attempt, used, steps, batchFails,
                   testFails, ending, exiting, history>>

\* The research record names the registration or why the experiment ended.
EndStatus ==
    IF nominee # None THEN "none"
    ELSE IF outcome = "environment_blocked" THEN "environment_blocked"
    ELSE "no_deliverable"
RecordResearch ==
    /\ pc = "record"
    /\ nominee # None => ~Registered
    /\ research' = Append(research, [run |-> run, registered |-> nominee,
                                     end |-> EndStatus])
    /\ pc' = "finish"
    /\ UNCHANGED <<tests, failed, forwards, markers, disk, limit, phase, run,
                   tries, session, ending, exiting, history>>

\* A recorded run drops its marker; the runner goes on to the next session,
\* or exits on a pause, a stop or a failure after the record.
FinishRun ==
    /\ pc = "finish"
    /\ markers' = { m \in markers : m.run # run }
    /\ pc' \in IF exiting THEN {"down"} ELSE {"ready", "down"}
    /\ UNCHANGED <<ledger, disk, limit, phase, run, tries, session, ending,
                   exiting, history>>

-----------------------------------------------------------------------------
(* The forward stage. *)

BeginForward ==
    /\ pc = "begin" /\ phase = "forward" /\ lastRun < MaxRuns
    /\ lastRun' = lastRun + 1 /\ run' = lastRun + 1
    /\ markers' = markers \cup {[run |-> lastRun + 1, phase |-> "forward"]}
    /\ tries' = tries + 1 /\ pc' = "replay"
    /\ UNCHANGED <<ledger, disk, limit, phase, session, ending, exiting, spent,
                   kills, terms>>

\* The replay completed, or raised in the strategy's own code: a reading too.
RecordForward ==
    /\ pc = "replay" /\ ~ForwardDone
    /\ \E status \in {"ok", "strategy_error"} :
         forwards' = Append(forwards, [run |-> run, status |-> status])
    /\ pc' = "finish"
    /\ UNCHANGED <<tests, failed, research, markers, disk, limit, phase, run,
                   tries, session, ending, exiting, history>>

\* The frozen trees changed during the replay: the integrity row is this
\* run's record, and no retry and no later start gets past it.
RecordMutation ==
    /\ pc = "replay"
    /\ forwards' = Append(forwards, [run |-> run, status |-> "integrity_failure"])
    /\ pc' = "finish" /\ exiting' = TRUE
    /\ UNCHANGED <<tests, failed, research, markers, disk, limit, phase, run,
                   tries, session, ending, history>>

-----------------------------------------------------------------------------
(* Failure, termination, death. *)

\* Where an attempt is under way and has no record yet.
Sessions == {"resolve", "seed", "session", "sidecar", "unpublish", "publish",
             "closing", "collected", "completing", "record"}
Attempting == pc \in Sessions \cup {"replay"}

\* Between the writes of one Validation, from its node to the republished
\* tree, or between a failure and the row that records it.
Torn == pc \in {"sidecar", "unpublish", "publish", "failing"}

\* An exception ends the attempt: the host, the model, a refused registration.
AttemptError ==
    /\ Attempting /\ (Torn => TornWrites)
    /\ pc' = "failing"
    /\ UNCHANGED <<ledger, markers, disk, limit, phase, run, tries, session,
                   ending, exiting, history>>

OutOfTries == exiting \/ tries >= MaxAttempts

\* The failed attempt is recorded, its marker dropped, and the session
\* retried while the runner has attempts left and the process stays.
RecordFailure ==
    /\ pc = "failing"
    /\ failed' = Append(failed, [run |-> run, phase |-> phase])
    /\ pc' = "unmark"
    /\ UNCHANGED <<tests, research, forwards, markers, disk, limit, phase, run,
                   tries, session, ending, exiting, history>>

Unmark ==
    /\ pc = "unmark"
    /\ markers' = { m \in markers : m.run # run }
    /\ pc' = IF OutOfTries THEN "down" ELSE "begin"
    /\ UNCHANGED <<ledger, disk, limit, phase, run, tries, session, ending,
                   exiting, history>>

MutantExceptException == IF pc = "finish" THEN "finish" ELSE "down"
UnwindsTo == IF Attempting THEN "failing"
             ELSE IF pc = "finish" THEN "finish" ELSE "down"

\* SIGTERM raises SystemExit in the worker's main thread: an attempt unwinds
\* through its except branch, a recorded run through its finally, and outside
\* a run the process just exits.
Terminate ==
    /\ pc # "down" /\ terms < MaxTerms /\ (Torn => TornWrites)
    /\ terms' = terms + 1 /\ exiting' = TRUE
    /\ pc' = UnwindsTo
    /\ UNCHANGED <<ledger, markers, disk, limit, phase, run, tries, session,
                   ending, lastRun, spent, kills>>

\* SIGKILL, an OOM kill or a host reset runs no code, and may tear a marker
\* whose bytes have not reached the disk.
Kill ==
    /\ pc # "down" /\ kills < MaxKills /\ (Torn => TornWrites)
    /\ kills' = kills + 1 /\ pc' = "down"
    /\ \/ UNCHANGED markers
       \/ /\ pc \in {"resolve", "seed"}
          /\ markers' = { [m EXCEPT !.phase = "unknown"] : m \in markers }
    /\ UNCHANGED <<ledger, disk, limit, phase, run, tries, session, ending,
                   exiting, lastRun, spent, terms>>

\* The operator overrides the session's deadline between two attempts.
RaiseLimit ==
    /\ pc = "down" /\ limit < MaxLimit
    /\ limit' \in limit + 1 .. MaxLimit
    /\ UNCHANGED <<ledger, markers, disk, pc, phase, run, tries, session,
                   ending, exiting, history>>

-----------------------------------------------------------------------------
Work ==
    \/ RecoverRecord \/ RecoverDrop \/ Recovered \/ NextSession
    \/ BeginRefused \/ BeginResearch \/ Resolve \/ Seed
    \/ Think \/ Validate \/ RecordSidecar \/ Unpublish \/ Publish
    \/ ValidateFails \/ Test \/ TestFails \/ Deadline \/ Collect
    \/ Register \/ CompleteRow \/ RecordResearch \/ FinishRun
    \/ BeginForward \/ RecordForward \/ RecordMutation
    \/ RecordFailure \/ Unmark

Next == Work \/ StartWorker \/ AttemptError \/ Terminate \/ Kill \/ RaiseLimit

Spec == Init /\ [][Next]_vars

\* The worker's own steps are fair: its calls time out, its loops are bounded.
\* Starts, signals, crashes, failures and overrides are nobody's obligation.
FairSpec == Spec /\ WF_vars(Work)

-----------------------------------------------------------------------------
(* Properties. *)

PCs == Sessions \cup {"down", "recovering", "ready", "begin", "replay",
                      "finish", "failing", "unmark"}
Runs == 1 .. MaxRuns
TestRows == [step : Nat, cand : Nat, source : {"test", "host_completion"},
             run : Runs]
Attempt == [run : Runs, phase : {"research", "forward", "unknown"}]

LedgerType ==
    /\ tests \in Seq(TestRows) /\ failed \in Seq(Attempt)
    /\ research \in Seq([run : Runs, registered : Nat,
                end : {"none", "no_deliverable", "environment_blocked"}])
    /\ forwards \in Seq([run : Runs,
                status : {"ok", "strategy_error", "integrity_failure"}])
DiskType ==
    /\ markers \subseteq Attempt
    /\ root \in {"absent", "layout", "seeded"}
    /\ tree \in Seq(BOOLEAN) /\ sidecars \subseteq Nat /\ published \in Nat
    /\ traced \in [Runs -> Nat] /\ limit \in Nat
SessionType ==
    /\ resume \in BOOLEAN /\ attempt \in Nat /\ used \in Nat /\ known \in Nat
    /\ steps \in Seq(Nat) /\ batchFails \in Nat /\ testFails \in Nat
EndingType ==
    /\ outcome \in {"open", "completed", "deadline", "environment_blocked"}
    /\ nominee \in Nat
    /\ after \in {"keep", "session", "closing", "collected"}
WorkerType ==
    /\ pc \in PCs /\ phase \in {"research", "forward"}
    /\ run \in Nat /\ tries \in Nat /\ exiting \in BOOLEAN
    /\ lastRun \in Nat /\ lastRun <= MaxRuns
    /\ spent \in Nat /\ kills \in Nat /\ terms \in Nat
    /\ Attempting \/ pc \in {"failing", "unmark", "finish"} => run \in Runs

\* Every variable has its type, and every run named on disk is one that began.
TypeOK ==
    LedgerType /\ DiskType /\ SessionType /\ EndingType /\ WorkerType

\* The validation record is the contiguous 1..k every reader counts on
\* (test_step_records raises otherwise), whatever attempts, crashes and host
\* rows wrote it.
RecordContiguous == \A i \in DOMAIN tests : tests[i].step = i

\* A registration stands on the whole validation record, and is of the
\* candidate its last step replayed, be that step a test's or the host's.
RegisteredOnFullRecord ==
    \A i \in DOMAIN research :
        research[i].registered # None =>
            /\ Len(tests) = N
            /\ tests[N].cand = research[i].registered

\* However often attempts fail, stop and resume, the turns the model really
\* took stay within the session's budget.
SpendWithinLimit == spent <= limit

\* A run leaves at most one outcome in the ledger: never a record and a
\* failed attempt, never two of either, across any crash and recovery.
OneOutcomePerRun ==
    /\ \A log \in {failed, research, forwards} :
         \A i, j \in DOMAIN log : log[i].run = log[j].run => i = j
    /\ RunsIn(failed) \cap RunsIn(research) = {}
    /\ RunsIn(failed) \cap RunsIn(forwards) = {}
    /\ RunsIn(research) \cap RunsIn(forwards) = {}

\* Every run that ever began is named by a ledger record or by its marker.
NoRunVanishes ==
    \A r \in 1 .. lastRun : r \in Recorded \/ \E m \in markers : m.run = r

\* A run that died has its business record or its attempt_failed, or still
\* the marker that "the next worker start turns into the missing
\* attempt_failed" (ledger.py:15-17).
EveryDeadRunAudited ==
    \A r \in 1 .. lastRun :
        \/ r \in RunsIn(failed) \cup RunsIn(research) \cup RunsIn(forwards)
        \/ \E m \in markers : m.run = r

\* What the session's earlier attempts validated is still its own: an attempt
\* can nominate every node of the session's tree.
ResumeSeesEveryNode ==
    pc = "session" => { steps[i] : i \in DOMAIN steps } = DOMAIN tree

\* No attempt is ever refused because of a node the session itself published
\* before its sidecar was written.
Resumable == Loadable

\* An experiment ends without a deliverable only when nothing was tested and
\* no Validation on record registers.
DeliverableKept ==
    \A i \in DOMAIN research :
        research[i].end = "no_deliverable" =>
            tests = <<>> /\ \A n \in DOMAIN tree : ~tree[n]

\* An environment block ends the experiment only after its attempts are spent.
BlockedOnlyWhenSpent ==
    \A i \in DOMAIN research :
        research[i].end = "environment_blocked" =>
            /\ research[i].registered = None
            /\ Cardinality(Attempts) + 1 >= MaxAttempts

\* "The session ... ends when its tests reach the end of the validation
\* years" (experiment.py:344): no model turn on a full record.
FullRecordEndsSession == [][Len(tests) = N => spent' = spent]_<<tests, spent>>

\* Every worker that starts comes to its end.
WorkerEnds == pc # "down" ~> pc = "down"

-----------------------------------------------------------------------------
(* The protocol implements what an experiment promises: ExperimentOutcome,  *)
(* read off the ledger by its readers.                                      *)

Revealed == [i \in DOMAIN tests |-> tests[i].cand]
Decision == IF research = <<>> THEN "open"
            ELSE IF Registered THEN "registered" ELSE research[1].end
RegisteredNode == IF research = <<>> THEN 0 ELSE research[1].registered
Reading == IF forwards = <<>> THEN "none"
           ELSE IF Mutated THEN "frozen" ELSE forwards[1].status

Outcome == INSTANCE ExperimentOutcome WITH
    record <- Revealed, decision <- Decision,
    registered <- RegisteredNode, reading <- Reading

\* Over any attempts, crashes and recoveries the ledger only ever says what
\* one uninterrupted experiment could have said.
ImplementsOutcome == Outcome!Spec

=============================================================================
