---------------------------- MODULE WorkerLifecycle ----------------------------
(***************************************************************************)
(* The console and the workers of autotrade's experiments.  They share two *)
(* files per experiment and nothing else: control.json, which the console  *)
(* writes and the worker consumes, and status.json, which the worker       *)
(* writes, and the console too when it starts or force-terminates one.     *)
(* Whether a worker lives is read off the status: its pid together with    *)
(* the pid's start ticks, so that a recycled pid is not mistaken for it.   *)
(*                                                                         *)
(* Every console operation holds its experiment's lock to its end; those   *)
(* that start a worker also hold the console-wide slot lock.  A worker is  *)
(* a process: its main thread, one action per durable step, and the        *)
(* reporter's heartbeat thread, which rewrites the last state set.         *)
(*                                                                         *)
(* Abstracted: what a session does (ResearchProtocol) is one step, and the *)
(* ledger the stage it leaves the experiment in; GPU claims and the local  *)
(* model's own limit count the same roster as the slots; directives,       *)
(* messages and archiving are left out.                                    *)
(***************************************************************************)
EXTENDS Naturals, FiniteSets

CONSTANTS
    Experiments,
    Slots,          \* MAX_RUNNING_EXPERIMENTS
    MaxProcs,       \* bound: processes ever spawned
    MaxAsks,        \* bound: operator requests
    MaxKills        \* bound: kills nobody asked for

ASSUME LifecycleAssumption ==
    /\ IsFiniteSet(Experiments) /\ 0 \notin Experiments    \* 0 names nobody
    /\ Slots \in Nat \ {0}
    /\ MaxProcs \in Nat /\ MaxAsks \in Nat /\ MaxKills \in Nat

VARIABLES
    stage,      \* what the ledger says is due: a session, or the verdict stands
    control,    \* control.json: the request and the deferred restart
    status,     \* status.json: state, pid, are the pid's start ticks recorded
    op,         \* the console operation under the experiment's lock
    target,     \* the pid that operation waits for
    slots,      \* who holds the slot lock
    proc,       \* the process table
    procs, asks, kills,
    askedOf,    \* history: the worker a deferred restart was asked of
    owed        \* history: whether a restart owes its worker the slot it held

vars == <<stage, control, status, op, target, slots, proc, procs, asks, kills,
          askedOf, owed>>

NoOne == 0
NoRequest == [request |-> "none", restart |-> FALSE]
Procs == 1 .. MaxProcs

Exited == {"none", "dead"}
Corpse(w) == [w EXCEPT !.pc = "dead", !.sig = FALSE, !.said = "none"]
\* A worker that runs its experiment, or is on its way to.
Working == {"spawned", "preparing", "recovering", "gate", "session", "boundary",
            "exec"}

Workers(e)     == { p \in Procs : proc[p].exp = e /\ proc[p].pc \in Working }
MutantStatusOf(s, p) ==     \* only the first report records the start ticks
     [state |-> s, pid |-> p, ticks |-> s = "preparing"]
StatusOf(s, p) == [state |-> s, pid |-> p, ticks |-> TRUE]
\* The terminal reports of the worker's entrypoint record no start ticks.
LastWord(s, p) == [state |-> s, pid |-> p, ticks |-> FALSE]

NoWorker(s)    == [state |-> s, pid |-> NoOne, ticks |-> FALSE]

\* status_pid_alive
MutantAlive(e) == LET s == status[e]    \* a starting worker is taken for dead
                  IN  /\ s.ticks /\ s.pid # NoOne /\ proc[s.pid].pc \notin Exited
                      /\ s.state \notin {"launching", "preparing"}
Alive(e) == LET s == status[e]
            IN  s.ticks /\ s.pid # NoOne /\ proc[s.pid].pc \notin Exited

Ended     == {"completed", "failed", "stopped"}
MutantRunningOnly ==    \* a worker that is still launching takes no slot
    { e \in Experiments : Alive(e) /\ status[e].state = "running_session" }
Running   == { e \in Experiments : Alive(e) /\ status[e].state \notin Ended }
SlotFree  == Cardinality(Running) < Slots

WorkerLive(e) ==
    Alive(e) /\ status[e].state \notin Ended \cup {"terminated"}

\* The console's view: an active state without a worker reads interrupted, a
\* launch only once its grace is over.
Active == {"initializing", "running_session", "paused"}
StatesOf(e) ==
    LET s == status[e].state IN
    CASE Alive(e)                     -> {s}
      [] ~Alive(e) /\ s \in Active    -> {"interrupted"}
      [] ~Alive(e) /\ s = "launching" -> {s, "interrupted"}
      [] OTHER                        -> {s}

ResumableStates == {"stopped", "failed", "interrupted", "terminated", "created"}

-----------------------------------------------------------------------------
Init ==
    /\ stage = [e \in Experiments |-> "research"]
    /\ control = [e \in Experiments |-> NoRequest]
    /\ status = [e \in Experiments |-> NoWorker("absent")]
    /\ op = [e \in Experiments |-> "idle"]
    /\ target = [e \in Experiments |-> NoOne]
    /\ slots = NoOne
    /\ proc = [p \in Procs |->
                 [exp |-> NoOne, pc |-> "none", sig |-> FALSE, said |-> "none"]]
    /\ procs = 0 /\ asks = 0 /\ kills = 0
    /\ askedOf = [e \in Experiments |-> NoOne]
    /\ owed = [e \in Experiments |-> "nothing"]

-----------------------------------------------------------------------------
(* The console. *)

\* One operator request on an experiment nobody else is operating on.
Ask(e) ==
    /\ op[e] = "idle" /\ status[e].state # "absent"
    /\ asks < MaxAsks /\ asks' = asks + 1

\* create holds the slot lock over its files and the worker's start.
Create(e) ==
    /\ op[e] = "idle" /\ status[e].state = "absent"
    /\ asks < MaxAsks /\ asks' = asks + 1
    /\ slots = NoOne /\ SlotFree
    /\ slots' = e
    /\ op' = [op EXCEPT ![e] = "starting"]
    /\ stage' = [stage EXCEPT ![e] = "research"]
    /\ control' = [control EXCEPT ![e] = NoRequest]
    /\ status' = [status EXCEPT ![e] = NoWorker("created")]
    /\ owed' = [owed EXCEPT ![e] = "nothing"]
    /\ UNCHANGED <<target, proc, procs, kills, askedOf>>

\* pause, stop: the request waits in control.json for the worker.
Request(e) ==
    /\ Ask(e)
    /\ \E r \in {"pause", "stop"} : control' = [control EXCEPT ![e].request = r]
    /\ UNCHANGED <<stage, status, op, target, slots, proc, procs, kills, askedOf, owed>>

\* resume clears the request, then looks whether there is a worker to start.
Resume(e) ==
    /\ Ask(e)
    /\ control' = [control EXCEPT ![e].request = "none"]
    /\ op' = [op EXCEPT ![e] = "resuming"]
    /\ UNCHANGED <<stage, status, target, slots, proc, procs, kills, askedOf, owed>>

ResumeLooks(e) ==
    /\ op[e] = "resuming"
    /\ \E s \in StatesOf(e) :
         op' = [op EXCEPT ![e] = IF ~Alive(e) /\ s \in ResumableStates
                                 THEN "starting" ELSE "idle"]
    /\ UNCHANGED <<stage, control, status, target, slots, proc, procs, asks,
                   kills, askedOf, owed>>

\* start_worker's clearing of what was meant for the worker before it.
MutantKeepsRestart(c) == IF c.request = "stop" THEN [c EXCEPT !.request = "none"]
                         ELSE c
Cleared(c) == IF c.request = "stop" \/ c.restart
              THEN NoRequest ELSE c

\* start_worker takes the slot lock, refuses over a live worker or past the
\* limit, clears the control file, and spawns.
StartRefused(e) ==
    /\ op[e] = "starting" /\ slots \in {NoOne, e}
    /\ WorkerLive(e) \/ ~SlotFree
    /\ op' = [op EXCEPT ![e] = "idle"] /\ slots' = NoOne
    /\ owed' = [owed EXCEPT ![e] = IF @ = "slot" THEN "broken" ELSE @]
    /\ UNCHANGED <<stage, control, status, target, proc, procs, asks, kills,
                   askedOf>>

Spawn(e) ==
    /\ op[e] = "starting" /\ slots \in {NoOne, e}
    /\ ~WorkerLive(e) /\ SlotFree /\ procs < MaxProcs
    /\ slots' = e
    /\ control' = [control EXCEPT ![e] = Cleared(@)]
    /\ procs' = procs + 1
    /\ proc' = [proc EXCEPT ![procs + 1] =
                  [exp |-> e, pc |-> "spawned", sig |-> FALSE, said |-> "none"]]
    /\ target' = [target EXCEPT ![e] = procs + 1]
    /\ op' = [op EXCEPT ![e] = "launching"]
    /\ owed' = [owed EXCEPT ![e] = "nothing"]
    /\ UNCHANGED <<stage, status, asks, kills, askedOf>>

\* The console writes the status after the spawn, over whatever a fast worker
\* has written already; a worker that is gone has no start ticks.
Launched(e) ==
    /\ op[e] = "launching"
    /\ status' = [status EXCEPT ![e] =
                    [state |-> "launching", pid |-> target[e],
                     ticks |-> proc[target[e]].pc # "dead"]]
    /\ op' = [op EXCEPT ![e] = "idle"] /\ slots' = NoOne
    /\ UNCHANGED <<stage, control, target, proc, procs, asks, kills, askedOf, owed>>

\* terminate: SIGTERM now, SIGKILL when the grace is over.
Terminate(e) ==
    /\ Ask(e) /\ Alive(e)
    /\ op' = [op EXCEPT ![e] = "terminating"]
    /\ target' = [target EXCEPT ![e] = status[e].pid]
    /\ proc' = [proc EXCEPT ![status[e].pid].sig = TRUE]
    /\ UNCHANGED <<stage, control, status, slots, procs, kills, askedOf, owed>>

TerminateSeesExit(e) ==
    /\ op[e] = "terminating" /\ ~Alive(e)
    /\ op' = [op EXCEPT ![e] = "idle"]
    /\ UNCHANGED <<stage, control, status, target, slots, proc, procs, asks,
                   kills, askedOf, owed>>

\* SIGKILL leaves no worker to stamp a terminal state, so the console does.
TerminateForces(e) ==
    /\ op[e] = "terminating" /\ Alive(e)
    /\ proc' = [proc EXCEPT ![target[e]] = Corpse(@)]
    /\ status' = [status EXCEPT ![e].state = "terminated"]
    /\ op' = [op EXCEPT ![e] = "idle"]
    /\ UNCHANGED <<stage, control, target, slots, procs, asks, kills, askedOf, owed>>

\* restart at the session boundary: a flag for the live worker.
RestartDeferred(e) ==
    /\ Ask(e) /\ Alive(e)
    /\ control' = [control EXCEPT ![e].restart = TRUE]
    /\ askedOf' = [askedOf EXCEPT ![e] = status[e].pid]
    /\ UNCHANGED <<stage, status, op, target, slots, proc, procs, kills, owed>>

\* restart now: the status is read, then the slot lock is taken over both the
\* termination and the respawn, so nobody takes the slot in between.
Restart(e) ==
    /\ Ask(e)
    /\ op' = [op EXCEPT ![e] = "restarting"]
    /\ target' = [target EXCEPT ![e] = IF Alive(e) THEN status[e].pid ELSE NoOne]
    /\ UNCHANGED <<stage, control, status, slots, proc, procs, kills, askedOf, owed>>

TargetAlive(e) == target[e] # NoOne /\ proc[target[e]].pc \notin Exited

MutantNobody(e) == NoOne   \* the slot lock is taken in start_worker only
HeldBy(e) == e

RestartLocks(e) ==
    /\ op[e] = "restarting" /\ slots = NoOne
    /\ slots' = HeldBy(e)
    /\ op' = [op EXCEPT ![e] = IF TargetAlive(e) THEN "signalling" ELSE "starting"]
    /\ owed' = [owed EXCEPT ![e] = IF TargetAlive(e) /\ Workers(e) # {}
                                   THEN "slot" ELSE @]
    /\ UNCHANGED <<stage, control, status, target, proc, procs, asks, kills,
                   askedOf>>

\* A worker that exited since it was seen alive makes the signal raise, and
\* the restart ends there.
RestartSignals(e) ==
    /\ op[e] = "signalling"
    /\ IF TargetAlive(e)
       THEN /\ proc' = [proc EXCEPT ![target[e]].sig = TRUE]
            /\ op' = [op EXCEPT ![e] = "awaiting"] /\ UNCHANGED <<slots, owed>>
       ELSE /\ op' = [op EXCEPT ![e] = "idle"] /\ slots' = NoOne
            /\ owed' = [owed EXCEPT ![e] = IF @ = "slot" THEN "nothing" ELSE @]
            /\ UNCHANGED proc
    /\ UNCHANGED <<stage, control, status, target, procs, asks, kills, askedOf>>

RestartSeesExit(e) ==
    /\ op[e] = "awaiting" /\ ~Alive(e)
    /\ op' = [op EXCEPT ![e] = "starting"]
    /\ UNCHANGED <<stage, control, status, target, slots, proc, procs, asks,
                   kills, askedOf, owed>>

RestartForces(e) ==
    /\ op[e] = "awaiting" /\ Alive(e)
    /\ proc' = [proc EXCEPT ![target[e]] = Corpse(@)]
    /\ UNCHANGED <<stage, control, status, op, target, slots, procs, asks,
                   kills, askedOf, owed>>

\* delete refuses a live worker and one that may still come up.
Delete(e) ==
    /\ Ask(e) /\ ~Alive(e) /\ StatesOf(e) \ {"launching"} # {}
    /\ status' = [status EXCEPT ![e] = NoWorker("absent")]
    /\ UNCHANGED <<stage, control, op, target, slots, proc, procs, kills, askedOf, owed>>

-----------------------------------------------------------------------------
(* The worker. *)

\* A pending SIGTERM is handled before the main thread's next step.
At(p, pc) == proc[p].pc = pc /\ ~proc[p].sig

GoTo(p, pc)      == proc' = [proc EXCEPT ![p].pc = pc]
Dies(p)          == proc' = [proc EXCEPT ![p] = Corpse(@)]
Report(p, pc, s) ==   \* set a state through the reporter
    /\ proc' = [proc EXCEPT ![p].pc = pc, ![p].said = s]
    /\ status' = [status EXCEPT ![proc[p].exp] = StatusOf(s, p)]

console == <<op, target, slots, procs, asks, kills, askedOf, owed>>

\* The entrypoint installs its handler and starts reporting.
Boot(p) ==
    /\ At(p, "spawned") /\ Report(p, "preparing", "preparing")
    /\ UNCHANGED <<stage, control, console>>

\* Parameters load, and the entrypoint's reporter stops.
Load(p) ==
    /\ At(p, "preparing") /\ GoTo(p, "recovering")
    /\ UNCHANGED <<stage, control, status, console>>

\* Recovery, then the verdict, or the pipeline and the runner.
Recover(p) ==
    /\ At(p, "recovering")
    /\ IF stage[proc[p].exp] = "verdict"
       THEN /\ GoTo(p, "returning")
            /\ status' = [status EXCEPT ![proc[p].exp] = LastWord("completed", p)]
       ELSE Report(p, "gate", "initializing")
    /\ UNCHANGED <<stage, control, console>>

\* consume_restart_request
MutantConsumed(c) == c
Consumed(c) == [c EXCEPT !.restart = FALSE]

\* The runner looks for the next due session, and at the control file.
Gate(p) ==
    LET e == proc[p].exp IN
    /\ At(p, "gate")
    /\ \/ /\ stage[e] = "verdict"
          /\ GoTo(p, "returning")
          /\ status' = [status EXCEPT ![e] = LastWord("completed", p)]
          /\ UNCHANGED control
       \/ /\ stage[e] # "verdict" /\ control[e].request = "stop"
          /\ Report(p, "failing", "failed") /\ UNCHANGED control
       \/ /\ stage[e] # "verdict" /\ control[e].request # "stop"
          /\ control[e].restart
          /\ control' = [control EXCEPT ![e] = Consumed(@)]
          /\ Report(p, "exec", "launching")
       \/ /\ stage[e] # "verdict" /\ control[e].request # "stop"
          /\ ~control[e].restart
          /\ Report(p, "session", "running_session") /\ UNCHANGED control
    /\ UNCHANGED <<stage, console>>

\* The session is recorded: research registers or ends, forward reads.
SessionEnds(p) ==
    LET e == proc[p].exp IN
    /\ At(p, "session") /\ GoTo(p, "boundary")
    /\ \E s \in {"forward", "verdict"} :
         /\ stage[e] = "forward" => s = "verdict"
         /\ stage' = [stage EXCEPT ![e] = s]
    /\ UNCHANGED <<control, status, console>>

\* Pause and stop end the worker here, a deferred restart re-executes it.
Boundary(p) ==
    LET e == proc[p].exp IN
    /\ At(p, "boundary")
    /\ \/ /\ control[e].request = "pause"
          /\ Report(p, "returning", "paused") /\ UNCHANGED control
       \/ /\ control[e].request = "stop"
          /\ Report(p, "returning", "stopped") /\ UNCHANGED control
       \/ /\ control[e].request = "none" /\ control[e].restart
          /\ control' = [control EXCEPT ![e] = Consumed(@)]
          /\ Report(p, "exec", "launching")
       \/ /\ control[e].request = "none" /\ ~control[e].restart
          /\ GoTo(p, "gate") /\ UNCHANGED <<control, status>>
    /\ UNCHANGED <<stage, console>>

\* execv keeps the pid, its start ticks and the process group.
Exec(p) ==
    /\ At(p, "exec") /\ GoTo(p, "spawned")
    /\ UNCHANGED <<stage, control, status, console>>

\* Parameters, recovery, the pipeline or the exec fail; or the runner does,
\* which marks the state itself on its way out.
Fail(p) ==
    /\ \/ /\ \E pc \in {"preparing", "recovering", "exec"} : At(p, pc)
          /\ GoTo(p, "failing") /\ UNCHANGED status
       \/ /\ \E pc \in {"gate", "session", "boundary"} : At(p, pc)
          /\ Report(p, "failing", "failed")
    /\ UNCHANGED <<stage, control, console>>

ReportFailure(p) ==
    /\ At(p, "failing") /\ GoTo(p, "leaving")
    /\ status' = [status EXCEPT ![proc[p].exp] = LastWord("failed", p)]
    /\ UNCHANGED <<stage, control, console>>

\* The run returns to the entrypoint; a finished one drops its caches first.
Return(p) ==
    /\ At(p, "returning") /\ GoTo(p, "leaving")
    /\ UNCHANGED <<stage, control, status, console>>

Exit(p) ==
    /\ At(p, "leaving") /\ Dies(p)
    /\ UNCHANGED <<stage, control, status, console>>

\* SIGTERM unwinds the main thread, and the entrypoint merges a terminal state
\* into the status; before its handler, or while it already reports a failure
\* or leaves, the process just dies.
Handled == {"preparing", "recovering", "gate", "session", "boundary", "exec",
            "returning"}
MutantUnmarked(p) == UNCHANGED status
Merged(p) == status' = [status EXCEPT ![proc[p].exp].state = "terminated"]
Signalled(p) ==
    /\ proc[p].sig /\ proc[p].pc \notin Exited
    /\ IF proc[p].pc \in Handled
       THEN /\ proc' = [proc EXCEPT ![p].pc = "leaving", ![p].sig = FALSE]
            /\ Merged(p)
       ELSE Dies(p) /\ UNCHANGED status
    /\ UNCHANGED <<stage, control, console>>

\* The heartbeat thread writes the last state set, until its reporter stops.
Heartbeat(p) ==
    /\ proc[p].pc \in {"preparing", "gate", "session", "boundary"}
    /\ status' = [status EXCEPT ![proc[p].exp] = StatusOf(proc[p].said, p)]
    /\ UNCHANGED <<stage, control, proc, console>>

\* An OOM kill or a host's SIGKILL.
Kill(p) ==
    /\ proc[p].pc \notin Exited /\ kills < MaxKills
    /\ kills' = kills + 1 /\ Dies(p)
    /\ UNCHANGED <<stage, control, status, op, target, slots, procs, asks,
                   askedOf, owed>>

-----------------------------------------------------------------------------
Console(e) ==
    \/ ResumeLooks(e) \/ StartRefused(e) \/ Spawn(e) \/ Launched(e)
    \/ TerminateSeesExit(e) \/ TerminateForces(e)
    \/ RestartLocks(e) \/ RestartSignals(e) \/ RestartSeesExit(e)
    \/ RestartForces(e)

Operator(e) ==
    \/ Create(e) \/ Request(e) \/ Resume(e) \/ Terminate(e) \/ RestartDeferred(e)
    \/ Restart(e) \/ Delete(e)

Worker(p) ==
    \/ Boot(p) \/ Load(p) \/ Recover(p) \/ Gate(p) \/ SessionEnds(p)
    \/ Boundary(p) \/ Exec(p) \/ Fail(p) \/ ReportFailure(p) \/ Return(p)
    \/ Exit(p)

Next ==
    \/ \E e \in Experiments : Console(e) \/ Operator(e)
    \/ \E p \in Procs : Worker(p) \/ Signalled(p) \/ Heartbeat(p) \/ Kill(p)

Spec == Init /\ [][Next]_vars

\* Console operations end: their waits are bounded.  A worker's main thread
\* goes on: its calls time out and its sessions are bounded by their budgets.
\* Nobody need ask for anything, and a SIGTERM may be ignored for long.
FairSpec ==
    /\ Spec
    /\ \A e \in Experiments : WF_vars(Console(e))
    /\ \A p \in Procs : WF_vars(Worker(p))

-----------------------------------------------------------------------------
(* Properties. *)

NoProcess(e) == \A p \in Procs : proc[p].exp = e => proc[p].pc \in Exited

Written == {"absent", "created", "launching", "preparing", "initializing",
            "running_session", "paused", "stopped", "failed", "completed",
            "terminated"}

PCs == Working \cup {"none", "dead", "failing", "returning", "leaving"}
Ops == {"idle", "starting", "resuming", "launching", "terminating", "restarting",
        "signalling", "awaiting"}

\* Types.  "interrupted" is only ever a reading of the status, never written
\* (ExperimentState).
TypeOK ==
    /\ stage \in [Experiments -> {"research", "forward", "verdict"}]
    /\ control \in [Experiments -> [request : {"none", "pause", "stop"},
                                    restart : BOOLEAN]]
    /\ status \in [Experiments -> [state : Written, pid : Procs \cup {NoOne},
                                   ticks : BOOLEAN]]
    /\ op \in [Experiments -> Ops]
    /\ target \in [Experiments -> Procs \cup {NoOne}]
    /\ slots \in Experiments \cup {NoOne}
    /\ proc \in [Procs -> [exp : Experiments \cup {NoOne}, pc : PCs,
                           sig : BOOLEAN, said : Written \cup {"none"}]]
    /\ procs \in Nat /\ asks \in Nat /\ kills \in Nat
    /\ askedOf \in [Experiments -> Procs \cup {NoOne}]
    /\ owed \in [Experiments -> {"nothing", "slot", "broken"}]

\* Two workers never run one experiment: the ledger, the working copy and the
\* run markers have no lock between workers (start_worker, _restart).
OneWorker ==
    \A e \in Experiments : Cardinality(Workers(e)) <= 1

Occupied == { e \in Experiments : Workers(e) # {} }

\* The running-experiment limit counts every worker that can still work, those
\* being started and those being terminated included (_require_running_slot).
WithinSlots ==
    Cardinality(Occupied) <= Slots

\* A restart gives its worker's slot to nobody: when it comes to start the next
\* one, the old one is gone and fewer experiments than the limit have a worker
\* that can still work (_restart).
RestartKeepsSlot ==
    \A e \in Experiments :
        op[e] = "starting" /\ owed[e] = "slot" =>
            ~WorkerLive(e) /\ Cardinality(Occupied) < Slots

\* A worker that has reported is the live one the console sees, whoever wrote
\* the status last: the console's launch record, the worker's main thread, its
\* heartbeat, or an older worker on its way out (status_pid_alive).
LiveIsSeen ==
    \A p \in Procs :
        proc[p].pc \in Working \ {"spawned"} =>
            LET e == proc[p].exp
            IN  \/ Alive(e) /\ status[e].pid = p
                \/ op[e] = "launching"

\* A deferred restart is taken by the worker it was asked of, not by the next
\* one, which is on the new code already (start_worker).
RestartOfItsOwn ==
    [][\A e \in Experiments, p \in Procs :
          proc[p].exp = e /\ proc'[p].pc = "exec" /\ proc[p].pc # "exec"
              => askedOf[e] = p]_vars

\* A status says that a session runs only while there is a worker, unless one
\* was killed by nobody the console knows, or by a restart that was then refused
\* its slot (the entrypoint's SIGTERM branch, the console's own record of a
\* SIGKILL).  It does not hold of "preparing": a
\* SIGTERM while a failure is being reported ends the report.
NoGhostSession ==
    \A e \in Experiments :
        kills = 0 /\ op[e] = "idle" /\ NoProcess(e) /\ owed[e] # "broken"
            => status[e].state # "running_session"

\* A pause or a stop that stands brings the experiment to rest, whatever
\* restarts are pending (InteractiveExperimentRunner.run).
ComesToRest ==
    \A e \in Experiments :
        control[e].request # "none" ~> control[e].request = "none" \/ Workers(e) = {}

\* Stated by the source, and not so: a restart is never refused the slot its own
\* worker held (manager.py:938-947).  A SIGTERM that reaches a stopped worker on
\* its way out makes it count against the limit again.
RestartNeverRefused ==
    \A e \in Experiments : owed[e] # "broken"

\* Stated by the source, and not so: an active state whose worker died reads
\* interrupted and can be resumed (ExperimentState).
KilledIsResumable ==
    \A e \in Experiments :
        /\ op[e] = "idle" /\ status[e].state \notin {"absent", "completed"}
        /\ NoProcess(e)
        => StatesOf(e) \cap ResumableStates # {}

\* Stated by the source, and not so: a paused worker blocks at the next gate,
\* so that a resume lets it go on (interactive.py).
ResumeIsHeard ==
    \A e \in Experiments :
        status[e].state = "paused" /\ control[e].request = "none"
            => op[e] # "idle" \/ Alive(e)

=============================================================================
