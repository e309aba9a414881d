------------------------- MODULE WorkerLifecycleProofs -------------------------
(***************************************************************************)
(* Theorems about WorkerLifecycle, for any number of experiments, slots,   *)
(* processes, requests and kills: at most one worker per experiment, the   *)
(* limit on workers, the slot a restart keeps, and what a status may say.  *)
(***************************************************************************)
EXTENDS WorkerLifecycle, FiniteSetTheorems, TLAPS

-----------------------------------------------------------------------------
(* The inductive invariant.  OneWorker speaks of processes alone and is not *)
(* inductive: what keeps a second worker from starting is that the first is *)
(* seen through the status file, or is the one being launched, and that a   *)
(* start is only ever decided while nobody is seen.                         *)

\* A worker, or one that has yet to report that it failed: whoever may still
\* write its pid into the status.
Holding == Working \cup {"failing"}
Holds(e, p) == proc[p].exp = e /\ proc[p].pc \in Holding

\* Process ids are given out in order, and each process is an experiment's.
StartedInv ==
    /\ procs <= MaxProcs
    /\ \A p \in Procs :
        /\ proc[p].pc = "none" <=> p > procs
        /\ proc[p].pc = "none" <=> proc[p].exp = NoOne

\* The processes an experiment's files and operations name are its own.
NamedInv ==
    \A e \in Experiments :
        /\ target[e] # NoOne => proc[target[e]].exp = e
        /\ status[e].pid # NoOne => proc[status[e].pid].exp = e

\* Whoever may write its pid is the one the status names, or is being launched.
SeenInv ==
    \A e \in Experiments, p \in Procs : Holds(e, p) =>
        IF op[e] = "launching" THEN target[e] = p
        ELSE status[e].pid = p /\ status[e].ticks

\* A start is decided while nobody is seen, and what a restart waits for is the
\* process the status names.
DecidedInv ==
    \A e \in Experiments :
        /\ op[e] = "starting" => ~Alive(e)
        /\ op[e] = "restarting" =>
             IF target[e] = NoOne THEN ~Alive(e) ELSE status[e].pid = target[e]
        /\ op[e] \in {"terminating", "signalling", "awaiting", "launching"} =>
             target[e] # NoOne

\* The operations that wait for a worker or launch one hold the slot lock.
LockInv ==
    \A e \in Experiments :
        /\ op[e] \in {"signalling", "awaiting", "launching"} => slots = e
        /\ op[e] = "starting" /\ owed[e] = "slot" => slots = e

\* What a worker's heartbeat repeats is no end, and a session only once there is
\* a runner; and the console counts a worker by its state.
Reported == {"preparing", "initializing", "running_session", "launching"}
InSession == {"gate", "session", "boundary"}
SaidInv ==
    \A p \in Procs :
        /\ proc[p].pc \in Working \ {"spawned"} => proc[p].said \in Reported
        /\ proc[p].pc = "preparing" => proc[p].said = "preparing"
CountedInv ==
    \A p \in Procs :
        proc[p].pc \in Working /\ op[proc[p].exp] # "launching" =>
            status[proc[p].exp].state \notin Ended

\* An experiment that is not there has no worker.
AbsentInv ==
    \A e \in Experiments : status[e].state = "absent" => ~status[e].ticks

\* While a restart owes its worker a slot, the others leave one.
OwedInv ==
    \A e \in Experiments :
        /\ owed[e] = "slot" => op[e] \in {"signalling", "awaiting", "starting"}
        /\ owed[e] = "slot" => Cardinality(Occupied \ {e}) < Slots
        /\ op[e] \in {"signalling", "awaiting"} /\ Workers(e) # {} => owed[e] = "slot"

\* A restart that is pending was asked of the worker there is.
AskedInv ==
    \A p \in Procs :
        proc[p].pc \in Working /\ control[proc[p].exp].restart =>
            askedOf[proc[p].exp] = p

\* As long as nobody was killed from outside, a status that says a session runs
\* names its worker, or one that a restart killed and is about to replace, or
\* was refused the slot for.
GhostInv ==
    kills = 0 => \A e \in Experiments : status[e].state = "running_session" =>
        LET p == status[e].pid
        IN  /\ p # NoOne
            /\ \/ proc[p].pc \in InSession
               \/ op[e] \in {"awaiting", "starting"} /\ owed[e] = "slot"
               \/ op[e] = "launching"
               \/ owed[e] = "broken" /\ ~Alive(e)

IInv == /\ TypeOK /\ StartedInv /\ NamedInv /\ SeenInv /\ DecidedInv /\ LockInv
        /\ SaidInv /\ CountedInv /\ AbsentInv /\ WithinSlots /\ OwedInv /\ AskedInv
        /\ GhostInv

-----------------------------------------------------------------------------
(* Types. *)

WorkerStep(p) == Worker(p) \/ Signalled(p) \/ Heartbeat(p) \/ Kill(p)

\* The types hold before anything is created.
LEMMA TypeOnInit == Init => TypeOK
  BY LifecycleAssumption DEF Init, TypeOK, NoRequest, NoWorker, NoOne, Written, PCs, Ops, Procs

\* What the moves of a process leave in the process table and in its
\* experiment's status.
Process == [exp : Experiments \cup {NoOne}, pc : PCs, sig : BOOLEAN,
            said : Written \cup {"none"}]
Status == [state : Written, pid : Procs \cup {NoOne}, ticks : BOOLEAN]
OthersKept(p) == \A q \in Procs : q # p => proc'[q] = proc[q]
OtherFilesKept(e) == \A f \in Experiments : f # e => status'[f] = status[f]

LEMMA GoToWrites ==
    ASSUME TypeOK, NEW p \in Procs, NEW x \in PCs, GoTo(p, x)
    PROVE  /\ proc' \in [Procs -> Process] /\ OthersKept(p)
           /\ proc'[p].exp = proc[p].exp /\ proc'[p].pc = x
           /\ proc'[p].said = proc[p].said /\ proc'[p].sig = proc[p].sig
<1>1. proc \in [Procs -> Process]
  BY DEF TypeOK, Process
<1>2. proc' = [proc EXCEPT ![p] = [proc[p] EXCEPT !.pc = x]]
  BY DEF GoTo
<1>3. [proc[p] EXCEPT !.pc = x] \in Process
  BY <1>1 DEF Process
<1>4. proc'[p] = [proc[p] EXCEPT !.pc = x]
  BY <1>1, <1>2
<1> QED BY <1>1, <1>2, <1>3, <1>4 DEF Process, OthersKept

LEMMA DeathWrites ==
    ASSUME TypeOK, NEW p \in Procs, Dies(p)
    PROVE  /\ proc' \in [Procs -> Process] /\ OthersKept(p)
           /\ proc'[p].exp = proc[p].exp /\ proc'[p].pc = "dead"
           /\ proc'[p].said = "none" /\ proc'[p].sig = FALSE
<1>1. proc \in [Procs -> Process]
  BY DEF TypeOK, Process
<1>2. proc' = [proc EXCEPT ![p] = Corpse(proc[p])]
  BY DEF Dies
<1>3. Corpse(proc[p]) \in Process
  BY <1>1 DEF Process, Corpse, PCs
<1>4. proc'[p] = Corpse(proc[p])
  BY <1>1, <1>2
<1> QED BY <1>1, <1>2, <1>3, <1>4 DEF Process, OthersKept, Corpse

LEMMA ReportWrites ==
    ASSUME TypeOK, NEW p \in Procs, NEW x \in PCs, NEW s \in Written,
           Report(p, x, s), proc[p].exp \in Experiments
    PROVE  /\ proc' \in [Procs -> Process] /\ OthersKept(p)
           /\ proc'[p].exp = proc[p].exp /\ proc'[p].pc = x
           /\ proc'[p].said = s /\ proc'[p].sig = proc[p].sig
           /\ status' \in [Experiments -> Status] /\ OtherFilesKept(proc[p].exp)
           /\ status'[proc[p].exp] = StatusOf(s, p)
<1>1. proc \in [Procs -> Process] /\ status \in [Experiments -> Status]
  BY DEF TypeOK, Process, Status
<1>2. proc' = [proc EXCEPT ![p] = [proc[p] EXCEPT !.pc = x, !.said = s]]
  BY <1>1 DEF Report, Process
<1>3. [proc[p] EXCEPT !.pc = x, !.said = s] \in Process
  BY <1>1 DEF Process
<1>4. proc'[p] = [proc[p] EXCEPT !.pc = x, !.said = s]
  BY <1>1, <1>2
<1>5. StatusOf(s, p) \in Status
  BY DEF StatusOf, Status
<1>6. status' \in [Experiments -> Status] /\ OtherFilesKept(proc[p].exp)
           /\ status'[proc[p].exp] = StatusOf(s, p)
  BY <1>1, <1>5 DEF Report, OtherFilesKept
<1> QED BY <1>1, <1>2, <1>3, <1>4, <1>6 DEF Process, OthersKept

\* What a status may become by a step of process p: whoever writes its pid had
\* not reported its end, and as long as it has not, it records the start ticks.
StatusMoved(p) ==
    LET e == proc[p].exp IN
    \/ status'[e] = status[e]
    \/ /\ proc[p].pc \in Holding /\ status'[e].pid = p
       /\ status'[e].state # "absent"
       /\ proc'[p].pc \in Holding => status'[e].ticks
       /\ proc'[p].pc \in Working => status'[e].state \in Reported
    \/ status'[e] = [status[e] EXCEPT !.state = "terminated"]

\* Nobody but a session's own worker makes the status say that one runs, and it
\* leaves the session only with another status, unless it is killed.
RunningMoved(p) ==
    LET e == proc[p].exp IN
    kills' = kills /\ status'[e].state = "running_session" =>
        \/ status'[e] = status[e] /\ proc[p].pc \notin InSession
        \/ /\ proc'[p].pc \in InSession
           /\ status'[e] = status[e] \/ status'[e].pid = p

Moved(p) ==
    /\ proc' \in [Procs -> Process] /\ OthersKept(p)
    /\ proc'[p].exp = proc[p].exp /\ proc'[p].pc # "none"
    /\ proc'[p].pc \in Working => proc[p].pc \in Working
    /\ proc'[p].pc \in Holding => proc[p].pc \in Holding
    /\ proc'[p].pc \in Working \ {"spawned"} => proc'[p].said \in Reported
    /\ proc'[p].pc = "preparing" => proc'[p].said = "preparing"
    /\ status' \in [Experiments -> Status] /\ OtherFilesKept(proc[p].exp)
    /\ StatusMoved(p) /\ RunningMoved(p)

\* A process that was started and has not exited is an experiment's.
LEMMA LiveIsOwned ==
    ASSUME TypeOK, StartedInv, NEW p \in Procs, proc[p].pc # "none"
    PROVE  proc[p].exp \in Experiments
  BY DEF TypeOK, StartedInv

\* The four ways a process moves.
LEMMA GoToMoves ==
    ASSUME TypeOK, StartedInv, SaidInv, NEW p \in Procs, NEW x \in PCs, GoTo(p, x),
           UNCHANGED status, proc[p].pc # "none", x \notin {"none", "preparing"},
           x \in Working \ {"spawned"} => proc[p].pc \in Working \ {"spawned"},
           x \in Working => proc[p].pc \in Working,
           x \in Holding => proc[p].pc \in Holding,
           proc[p].pc \in InSession => x \in InSession
    PROVE  Moved(p)
<1>1. status \in [Experiments -> Status]
  BY DEF TypeOK, Status
<1>2. x \in Working \ {"spawned"} => proc[p].said \in Reported
  BY DEF SaidInv
<1> QED BY <1>1, <1>2, GoToWrites
       DEF Moved, StatusMoved, RunningMoved, OtherFilesKept

LEMMA DeathMoves ==
    ASSUME TypeOK, StartedInv, NEW p \in Procs, Dies(p), UNCHANGED status,
           kills' # kills \/ proc[p].pc \notin InSession
    PROVE  Moved(p)
<1>1. status \in [Experiments -> Status]
  BY DEF TypeOK, Status
<1> QED BY <1>1, DeathWrites
       DEF Moved, StatusMoved, RunningMoved, OtherFilesKept, Working, Holding

LEMMA ReportMoves ==
    ASSUME TypeOK, StartedInv, NEW p \in Procs, NEW x \in PCs, NEW s \in Written,
           Report(p, x, s), proc[p].pc \in Working, x # "none", s # "absent",
           x \in Working => s \in Reported,
           x = "preparing" => s = "preparing",
           s = "running_session" => x \in InSession
    PROVE  Moved(p)
<1>1. proc[p].exp \in Experiments
  BY LiveIsOwned DEF Working
<1>2. status'[proc[p].exp] = [state |-> s, pid |-> p, ticks |-> TRUE]
  BY <1>1, ReportWrites DEF StatusOf
<1>3. StatusMoved(p) /\ RunningMoved(p)
  BY <1>1, <1>2, ReportWrites DEF StatusMoved, RunningMoved, Holding
<1> QED BY <1>1, <1>3, ReportWrites DEF Moved, Holding

LEMMA LastWordMoves ==
    ASSUME TypeOK, StartedInv, NEW p \in Procs, NEW x \in {"returning", "leaving"},
           NEW s \in {"completed", "failed"}, GoTo(p, x), proc[p].pc \in Holding,
           status' = [status EXCEPT ![proc[p].exp] = LastWord(s, p)]
    PROVE  Moved(p)
<1>1. proc[p].exp \in Experiments
  BY LiveIsOwned DEF Working, Holding
<1>2. status \in [Experiments -> Status] /\ LastWord(s, p) \in Status
  BY DEF TypeOK, Status, LastWord, Written
<1>3. /\ status' \in [Experiments -> Status] /\ OtherFilesKept(proc[p].exp)
      /\ status'[proc[p].exp] = LastWord(s, p)
  BY <1>1, <1>2 DEF OtherFilesKept
<1>4. x \in PCs /\ x \notin Holding /\ x \notin Working /\ x \notin {"none", "preparing"}
  BY DEF PCs, Holding, Working
<1>5. StatusMoved(p) /\ RunningMoved(p)
  BY <1>3, <1>4, GoToWrites DEF StatusMoved, RunningMoved, LastWord
<1> QED BY <1>1, <1>3, <1>4, <1>5, GoToWrites DEF Moved

\* The steps of a process, one by one.
LEMMA WorkerMoves ==
    ASSUME TypeOK, StartedInv, SaidInv, NEW p \in Procs, WorkerStep(p)
    PROVE  proc[p].pc \notin Exited /\ Moved(p)
<1> DEFINE e == proc[p].exp
<1>1. /\ proc \in [Procs -> Process] /\ status \in [Experiments -> Status]
      /\ proc[p] \in Process
  BY DEF TypeOK, Process, Status
<1> USE DEF At, PCs, Working, Holding, Exited, Written, Reported, InSession
<1>2. CASE Boot(p)
  BY <1>2, ReportMoves DEF Boot
<1>3. CASE Load(p) \/ Exec(p)
  BY <1>3, GoToMoves DEF Load, Exec
<1>4. CASE Recover(p)
  <2>1. CASE stage[e] = "verdict"
    BY <1>4, <2>1, LastWordMoves DEF Recover
  <2>2. CASE stage[e] # "verdict"
    BY <1>4, <2>2, ReportMoves DEF Recover
  <2> QED BY <2>1, <2>2
<1>5. CASE Gate(p)
  <2>1. CASE GoTo(p, "returning") /\ status' = [status EXCEPT ![e] = LastWord("completed", p)]
    BY <1>5, <2>1, LastWordMoves DEF Gate
  <2>2. CASE \/ Report(p, "failing", "failed") \/ Report(p, "exec", "launching")
             \/ Report(p, "session", "running_session")
    BY <1>5, <2>2, ReportMoves DEF Gate
  <2> QED BY <1>5, <2>1, <2>2 DEF Gate
<1>6. CASE SessionEnds(p) \/ Return(p)
  BY <1>6, GoToMoves DEF SessionEnds, Return
<1>7. CASE Boundary(p)
  <2>1. CASE GoTo(p, "gate") /\ UNCHANGED status
    BY <1>7, <2>1, GoToMoves DEF Boundary
  <2>2. CASE \/ Report(p, "returning", "paused") \/ Report(p, "returning", "stopped")
             \/ Report(p, "exec", "launching")
    BY <1>7, <2>2, ReportMoves DEF Boundary
  <2> QED BY <1>7, <2>1, <2>2 DEF Boundary
<1>8. CASE Fail(p)
  <2>1. CASE /\ GoTo(p, "failing") /\ UNCHANGED status
             /\ proc[p].pc \in {"preparing", "recovering", "exec"}
    BY <1>8, <2>1, GoToMoves DEF Fail
  <2>2. CASE Report(p, "failing", "failed") /\ proc[p].pc \in {"gate", "session", "boundary"}
    BY <1>8, <2>2, ReportMoves DEF Fail
  <2> QED BY <1>8, <2>1, <2>2 DEF Fail
<1>9. CASE ReportFailure(p)
  BY <1>9, LastWordMoves DEF ReportFailure
<1>10. CASE Exit(p)
  BY <1>10, DeathMoves DEF Exit
<1>13. CASE Kill(p)
  <2>1. kills' # kills
    BY <1>13 DEF Kill, TypeOK
  <2> QED BY <1>13, <2>1, DeathMoves DEF Kill
<1>11. CASE Signalled(p)
  <2>1. CASE proc[p].pc \in Handled
    <3>1. /\ proc' = [proc EXCEPT ![p] = [proc[p] EXCEPT !.pc = "leaving", !.sig = FALSE]]
          /\ status' = [status EXCEPT ![e] = [status[e] EXCEPT !.state = "terminated"]]
      BY <1>1, <1>11, <2>1 DEF Signalled, Merged, Process
    <3>2. [proc[p] EXCEPT !.pc = "leaving", !.sig = FALSE] \in Process
      BY <1>1 DEF Process
    <3>3. /\ proc' \in [Procs -> Process] /\ OthersKept(p)
          /\ proc'[p].exp = e /\ proc'[p].pc = "leaving"
      BY <1>1, <3>1, <3>2 DEF OthersKept, Process
    <3>4. e \in Experiments
      BY <2>1, LiveIsOwned DEF Handled
    <3>5. [status[e] EXCEPT !.state = "terminated"] \in Status
      BY <1>1, <3>4 DEF Status
    <3>6. /\ status' \in [Experiments -> Status] /\ OtherFilesKept(e)
          /\ status'[e] = [status[e] EXCEPT !.state = "terminated"]
      BY <1>1, <3>1, <3>4, <3>5 DEF OtherFilesKept
    <3> QED BY <1>11, <2>1, <3>3, <3>6 DEF Signalled, Moved, StatusMoved, RunningMoved
  <2>2. CASE proc[p].pc \notin Handled
    BY <1>11, <2>2, DeathMoves DEF Signalled, Handled
  <2> QED BY <2>1, <2>2
<1>12. CASE Heartbeat(p)
  <2>1. e \in Experiments /\ proc[p].pc \in Working
    BY <1>12, LiveIsOwned DEF Heartbeat
  <2>2. StatusOf(proc[p].said, p) \in Status
    BY <1>12 DEF SaidInv, Heartbeat, StatusOf, Status
  <2>3. /\ status' \in [Experiments -> Status] /\ OtherFilesKept(e)
        /\ status'[e] = StatusOf(proc[p].said, p)
    BY <1>1, <1>12, <2>1, <2>2 DEF Heartbeat, OtherFilesKept
  <2>4. proc' = proc
    BY <1>12 DEF Heartbeat
  <2>5. proc[p].said \in Reported /\ (proc[p].pc = "preparing" => proc[p].said = "preparing")
    BY <1>12 DEF SaidInv, Heartbeat
  <2>6. StatusMoved(p) /\ RunningMoved(p)
    BY <1>12, <2>1, <2>3, <2>4, <2>5 DEF StatusMoved, RunningMoved, StatusOf, Heartbeat
  <2> QED BY <1>1, <2>1, <2>3, <2>4, <2>5, <2>6 DEF Moved, OthersKept, SaidInv
<1> QED BY <1>2, <1>3, <1>4, <1>5, <1>6, <1>7, <1>8, <1>9, <1>10, <1>11, <1>12,
          <1>13
       DEF WorkerStep, Worker

-----------------------------------------------------------------------------
(* What holds at a state. *)

\* Whoever may write its pid is seen, but for the one being launched.
LEMMA HolderIsSeen ==
    ASSUME TypeOK, SeenInv, NEW e \in Experiments, NEW p \in Procs, Holds(e, p),
           op[e] # "launching"
    PROVE  Alive(e) /\ status[e].pid = p /\ status[e].ticks
  BY DEF SeenInv, Holds, Alive, Holding, Working, Exited, NoOne, Procs

\* An experiment's processes, one with a worker, and one nobody is seen for.
LEMMA WorkerHolds ==
    ASSUME NEW e \in Experiments, NEW p \in Workers(e)
    PROVE  p \in Procs /\ Holds(e, p)
  BY DEF Workers, Holds, Holding

LEMMA NobodyWorks ==
    ASSUME TypeOK, SeenInv, NEW e \in Experiments, op[e] # "launching", ~Alive(e)
    PROVE  Workers(e) = {} /\ \A p \in Procs : ~Holds(e, p)
  BY HolderIsSeen, WorkerHolds

LEMMA OccupiedFinite ==
    /\ IsFiniteSet(Occupied) /\ Cardinality(Occupied) \in Nat
    /\ \A e : IsFiniteSet(Occupied \ {e}) /\ Cardinality(Occupied \ {e}) \in Nat
<1>1. IsFiniteSet(Experiments)
  BY LifecycleAssumption
<1>2. Occupied \subseteq Experiments
  BY DEF Occupied
<1>3. IsFiniteSet(Occupied)
  BY <1>1, <1>2, FS_Subset
<1> QED BY <1>3, FS_CardinalityType, FS_Difference

\* With no more workers, the counts are no larger.
LEMMA FewerWorkers ==
    ASSUME \A e \in Experiments : Workers(e)' \subseteq Workers(e)
    PROVE  /\ Cardinality(Occupied') <= Cardinality(Occupied)
           /\ \A e : Cardinality(Occupied' \ {e}) <= Cardinality(Occupied \ {e})
           /\ Cardinality(Occupied') \in Nat
           /\ \A e : Cardinality(Occupied' \ {e}) \in Nat
<1>1. Occupied' \subseteq Occupied
  BY DEF Occupied
<1>2. IsFiniteSet(Occupied) /\ \A e : IsFiniteSet(Occupied \ {e})
  BY OccupiedFinite
<1>3. IsFiniteSet(Occupied') /\ Cardinality(Occupied') <= Cardinality(Occupied)
  BY <1>1, <1>2, FS_Subset
<1>4. ASSUME NEW e
      PROVE  /\ IsFiniteSet(Occupied' \ {e})
             /\ Cardinality(Occupied' \ {e}) <= Cardinality(Occupied \ {e})
  <2>1. Occupied' \ {e} \subseteq Occupied \ {e}
    BY <1>1
  <2> QED BY <1>2, <2>1, FS_Subset
<1> QED BY <1>3, <1>4, FS_CardinalityType

-----------------------------------------------------------------------------
(* The steps of a process keep the invariant. *)

\* What they leave alone.
WorkerFrame ==
    /\ UNCHANGED <<op, target, slots, procs, askedOf, owed>>
    /\ asks' \in Nat /\ kills' \in Nat /\ (kills' = 0 => kills' = kills)
    /\ stage' \in [Experiments -> {"research", "forward", "verdict"}]
    /\ control' \in [Experiments -> [request : {"none", "pause", "stop"},
                                     restart : BOOLEAN]]
    /\ \A e \in Experiments : control'[e].restart => control[e].restart

LEMMA WorkerFrames ==
    ASSUME TypeOK, StartedInv, NEW p \in Procs, WorkerStep(p)
    PROVE  WorkerFrame
<1> DEFINE e == proc[p].exp
           C == [request : {"none", "pause", "stop"}, restart : BOOLEAN]
<1>1. /\ control \in [Experiments -> C] /\ kills \in Nat /\ asks \in Nat
      /\ stage \in [Experiments -> {"research", "forward", "verdict"}]
  BY DEF TypeOK
<1>2. CASE UNCHANGED <<stage, control, console>>
  BY <1>1, <1>2 DEF WorkerFrame, console
<1>3. CASE Gate(p) \/ Boundary(p)
  <2>1. UNCHANGED <<stage, console>>
    BY <1>3 DEF Gate, Boundary
  <2>2. e \in Experiments
    BY <1>3, LiveIsOwned DEF Gate, Boundary, At
  <2>3. control' = control \/ control' = [control EXCEPT ![e] = [control[e] EXCEPT !.restart = FALSE]]
    BY <1>3 DEF Gate, Boundary, Consumed
  <2> HIDE DEF e
  <2>4. /\ control' \in [Experiments -> C]
        /\ \A f \in Experiments : control'[f].restart => control[f].restart
    BY <1>1, <2>2, <2>3
  <2> QED BY <1>1, <2>1, <2>4 DEF WorkerFrame, console
<1>4. CASE SessionEnds(p)
  <2>1. UNCHANGED <<control, console>>
    BY <1>4 DEF SessionEnds
  <2>2. stage' \in [Experiments -> {"research", "forward", "verdict"}]
    BY <1>1, <1>4 DEF SessionEnds
  <2> QED BY <1>1, <2>1, <2>2 DEF WorkerFrame, console
<1>5. CASE Kill(p)
  BY <1>1, <1>5 DEF Kill, WorkerFrame
<1> QED BY <1>2, <1>3, <1>4, <1>5
       DEF WorkerStep, Worker, Boot, Load, Recover, Exec, Fail, ReportFailure, Return,
           Exit, Signalled, Heartbeat

\* A process that moves makes nobody else a worker, and brings nobody back.
LEMMA MovedTable ==
    ASSUME TypeOK, StartedInv, NEW p \in Procs, proc[p].pc \notin Exited, Moved(p)
    PROVE  /\ proc[p].exp \in Experiments
           /\ \A q \in Procs : /\ proc'[q].exp = proc[q].exp
                               /\ proc'[q].pc = "none" <=> proc[q].pc = "none"
                               /\ proc[q].pc \in Exited => proc'[q].pc \in Exited
           /\ \A f \in Experiments : Workers(f)' \subseteq Workers(f)
           /\ \A f \in Experiments, q \in Procs : Holds(f, q)' => Holds(f, q)
<1>1. proc[p].exp \in Experiments
  BY LiveIsOwned DEF Exited
<1>2. ASSUME NEW q \in Procs
      PROVE  /\ proc'[q].exp = proc[q].exp
             /\ proc'[q].pc = "none" <=> proc[q].pc = "none"
             /\ proc[q].pc \in Exited => proc'[q].pc \in Exited
             /\ proc'[q].pc \in Working => proc[q].pc \in Working
             /\ proc'[q].pc \in Holding => proc[q].pc \in Holding
  BY DEF Moved, OthersKept, Exited
<1> QED BY <1>1, <1>2 DEF Workers, Holds

\* It names itself in the status only where it was named, or is being launched,
\* and nobody unseen comes to be seen.
LEMMA MovedStatus ==
    ASSUME TypeOK, StartedInv, NamedInv, SeenInv, NEW p \in Procs,
           proc[p].pc \notin Exited, Moved(p), NEW f \in Experiments,
           op[f] # "launching"
    PROVE  /\ status'[f].pid = status[f].pid
           /\ ~Alive(f) => ~Alive(f)'
<1> DEFINE e == proc[p].exp
<1>1. status \in [Experiments -> Status] /\ e \in Experiments
  BY MovedTable DEF TypeOK, Status
<1>2. CASE status'[f] = status[f]
  BY <1>1, <1>2, MovedTable DEF Alive, NoOne, Status
<1>3. CASE status'[f] # status[f]
  <2>1. f = e
    BY <1>3 DEF Moved, OtherFilesKept
  <2>2. CASE status'[f] = [status[f] EXCEPT !.state = "terminated"]
    <3>1. status'[f].pid = status[f].pid /\ status'[f].ticks = status[f].ticks
      BY <1>1, <2>2 DEF Status
    <3> QED BY <1>1, <3>1, MovedTable DEF Alive, NoOne, Status
  <2>3. CASE proc[p].pc \in Holding /\ status'[f].pid = p
    BY <2>1, <2>3, HolderIsSeen DEF Holds
  <2> QED BY <1>3, <2>1, <2>2, <2>3 DEF Moved, StatusMoved
<1> QED BY <1>2, <1>3

LEMMA WorkerKeeps ==
    ASSUME IInv, NEW p \in Procs, WorkerStep(p)
    PROVE  IInv'
<1> DEFINE e == proc[p].exp
<1> USE DEF IInv
<1>1. proc[p].pc \notin Exited /\ Moved(p)
  BY WorkerMoves
<1>2. WorkerFrame
  BY WorkerFrames
<1>3. /\ e \in Experiments
      /\ \A q \in Procs : /\ proc'[q].exp = proc[q].exp
                          /\ proc'[q].pc = "none" <=> proc[q].pc = "none"
                          /\ proc[q].pc \in Exited => proc'[q].pc \in Exited
      /\ \A f \in Experiments : Workers(f)' \subseteq Workers(f)
      /\ \A f \in Experiments, q \in Procs : Holds(f, q)' => Holds(f, q)
  BY <1>1, MovedTable
<1>4. /\ proc' \in [Procs -> Process] /\ status' \in [Experiments -> Status]
      /\ status \in [Experiments -> Status]
  BY <1>1 DEF Moved, TypeOK, Status
<1>5. TypeOK'
  BY <1>2, <1>4 DEF TypeOK, WorkerFrame, Process, Status
<1>6. StartedInv'
  BY <1>2, <1>3 DEF StartedInv, WorkerFrame
<1>7. NamedInv'
  <2> SUFFICES ASSUME NEW f \in Experiments
               PROVE  /\ target'[f] # NoOne => proc'[target'[f]].exp = f
                      /\ status'[f].pid # NoOne => proc'[status'[f].pid].exp = f
    BY DEF NamedInv
  <2>1. target'[f] = target[f] /\ target[f] \in Procs \cup {NoOne}
    BY <1>2 DEF WorkerFrame, TypeOK
  <2>2. status'[f].pid \in Procs \cup {NoOne} /\ status[f].pid \in Procs \cup {NoOne}
    BY <1>4 DEF Status
  <2>3. status'[f].pid = status[f].pid \/ (status'[f].pid = p /\ f = e)
    BY <1>1, <1>4 DEF Moved, StatusMoved, OtherFilesKept, Status
  <2> QED BY <1>3, <2>1, <2>2, <2>3 DEF NamedInv
<1>8. SeenInv'
  <2> SUFFICES ASSUME NEW f \in Experiments, NEW q \in Procs, Holds(f, q)'
               PROVE  IF op'[f] = "launching" THEN target'[f] = q
                      ELSE status'[f].pid = q /\ status'[f].ticks
    BY DEF SeenInv
  <2>1. Holds(f, q) /\ op'[f] = op[f] /\ target'[f] = target[f]
    BY <1>2, <1>3 DEF WorkerFrame
  <2>2. CASE op[f] = "launching"
    BY <2>1, <2>2 DEF SeenInv
  <2>3. CASE op[f] # "launching"
    <3>1. Alive(f) /\ status[f].pid = q /\ status[f].ticks
      BY <2>1, <2>3, HolderIsSeen
    <3>2. status'[f].pid = q
      BY <1>1, <2>3, <3>1, MovedStatus
    <3>3. status'[f].ticks
      <4>1. CASE status'[f] = status[f] \/ status'[f] = [status[f] EXCEPT !.state = "terminated"]
        BY <1>4, <3>1, <4>1 DEF Status
      <4>2. CASE f = e /\ proc[p].pc \in Holding /\ (proc'[p].pc \in Holding => status'[f].ticks)
        <5>1. q = p
          BY <2>3, <3>1, <4>2, HolderIsSeen DEF Holds
        <5> QED BY <4>2, <5>1 DEF Holds
      <4> QED BY <1>1, <4>1, <4>2 DEF Moved, StatusMoved, OtherFilesKept
    <3> QED BY <2>1, <2>3, <3>2, <3>3
  <2> QED BY <2>2, <2>3
<1>9. DecidedInv'
  <2> SUFFICES ASSUME NEW f \in Experiments
               PROVE  /\ op'[f] = "starting" => ~Alive(f)'
                      /\ op'[f] = "restarting" =>
                           IF target'[f] = NoOne THEN ~Alive(f)'
                           ELSE status'[f].pid = target'[f]
                      /\ op'[f] \in {"terminating", "signalling", "awaiting", "launching"} =>
                           target'[f] # NoOne
    BY DEF DecidedInv
  <2>1. op'[f] = op[f] /\ target'[f] = target[f]
    BY <1>2 DEF WorkerFrame
  <2>2. op[f] # "launching" => status'[f].pid = status[f].pid /\ (~Alive(f) => ~Alive(f)')
    BY <1>1, MovedStatus
  <2> QED BY <2>1, <2>2 DEF DecidedInv
<1>10. LockInv'
  BY <1>2 DEF LockInv, WorkerFrame
<1>11. SaidInv'
  BY <1>1 DEF SaidInv, Moved, OthersKept
<1>12. CountedInv'
  <2> SUFFICES ASSUME NEW q \in Procs, proc'[q].pc \in Working,
                      op'[proc'[q].exp] # "launching"
               PROVE  status'[proc'[q].exp].state \notin Ended
    BY DEF CountedInv
  <2> DEFINE f == proc[q].exp
  <2>1. proc'[q].exp = f /\ proc[q].pc \in Working /\ op[f] # "launching"
    BY <1>1, <1>2, <1>3 DEF WorkerFrame, Moved, OthersKept
  <2>2. f \in Experiments /\ Holds(f, q)
    BY <2>1, LiveIsOwned DEF Holds, Holding, Working
  <2>3. status[f].state \notin Ended
    BY <2>1 DEF CountedInv
  <2>4. CASE status'[f] = status[f] \/ status'[f] = [status[f] EXCEPT !.state = "terminated"]
    BY <1>4, <2>1, <2>2, <2>3, <2>4 DEF Status, Ended
  <2>5. CASE /\ f = e /\ proc[p].pc \in Holding
             /\ proc'[p].pc \in Working => status'[f].state \in Reported
    <3>1. q = p
      BY <2>1, <2>2, <2>5, HolderIsSeen DEF Holds
    <3> QED BY <2>1, <2>5, <3>1 DEF Reported, Ended
  <2> QED BY <1>1, <2>2, <2>4, <2>5 DEF Moved, StatusMoved, OtherFilesKept
<1>13. AbsentInv'
  <2> SUFFICES ASSUME NEW f \in Experiments, status'[f].state = "absent"
               PROVE  ~status'[f].ticks
    BY DEF AbsentInv
  <2>1. status'[f] # [status[f] EXCEPT !.state = "terminated"]
    BY <1>4 DEF Status
  <2>2. status'[f] = status[f]
    BY <1>1, <2>1 DEF Moved, StatusMoved, OtherFilesKept
  <2> QED BY <2>2 DEF AbsentInv
<1>14. WithinSlots'
  <2>1. /\ Cardinality(Occupied') <= Cardinality(Occupied)
        /\ Cardinality(Occupied') \in Nat /\ Cardinality(Occupied) \in Nat
    BY <1>3, FewerWorkers, OccupiedFinite
  <2> QED BY <2>1, LifecycleAssumption DEF WithinSlots
<1>15. OwedInv'
  <2> SUFFICES ASSUME NEW f \in Experiments
               PROVE  /\ owed'[f] = "slot" => op'[f] \in {"signalling", "awaiting", "starting"}
                      /\ owed'[f] = "slot" => Cardinality(Occupied' \ {f}) < Slots
                      /\ op'[f] \in {"signalling", "awaiting"} /\ Workers(f)' # {} =>
                           owed'[f] = "slot"
    BY DEF OwedInv
  <2>1. /\ Cardinality(Occupied' \ {f}) <= Cardinality(Occupied \ {f})
        /\ Cardinality(Occupied' \ {f}) \in Nat /\ Cardinality(Occupied \ {f}) \in Nat
    BY <1>3, FewerWorkers, OccupiedFinite
  <2>2. op'[f] = op[f] /\ owed'[f] = owed[f] /\ (Workers(f)' # {} => Workers(f) # {})
    BY <1>2, <1>3 DEF WorkerFrame
  <2>3. owed[f] = "slot" => Cardinality(Occupied' \ {f}) < Slots
    BY <2>1, LifecycleAssumption DEF OwedInv
  <2> QED BY <2>2, <2>3 DEF OwedInv
<1>16. AskedInv'
  <2> SUFFICES ASSUME NEW q \in Procs, proc'[q].pc \in Working,
                      control'[proc'[q].exp].restart
               PROVE  askedOf'[proc'[q].exp] = q
    BY DEF AskedInv
  <2>1. proc'[q].exp = proc[q].exp /\ proc[q].pc \in Working
    BY <1>1, <1>3 DEF Moved, OthersKept
  <2>2. proc[q].exp \in Experiments
    BY <2>1, LiveIsOwned DEF Working
  <2> QED BY <1>2, <2>1, <2>2 DEF AskedInv, WorkerFrame
<1>17. GhostInv'
  <2> SUFFICES ASSUME kills' = 0, NEW f \in Experiments,
                      status'[f].state = "running_session", NEW q, q = status'[f].pid
               PROVE  /\ q # NoOne
                      /\ \/ proc'[q].pc \in InSession
                         \/ op'[f] \in {"awaiting", "starting"} /\ owed'[f] = "slot"
                         \/ op'[f] = "launching"
                         \/ owed'[f] = "broken" /\ ~Alive(f)'
    BY DEF GhostInv
  <2>1. kills = 0 /\ kills' = kills /\ op'[f] = op[f] /\ owed'[f] = owed[f]
    BY <1>2 DEF WorkerFrame
  <2>2. op[f] = "launching" \/ (~Alive(f) => ~Alive(f)')
    BY <1>1, MovedStatus
  <2>3. CASE status'[f] = status[f] /\ (f # e \/ proc[p].pc \notin InSession)
    <3>1. q # NoOne /\ q \in Procs /\ proc[q].exp = f
      BY <1>4, <2>1, <2>3 DEF GhostInv, NamedInv, Status
    <3>2. proc[q].pc \in InSession => proc'[q].pc = proc[q].pc
      BY <1>1, <2>3, <3>1 DEF Moved, OthersKept
    <3> QED BY <2>1, <2>2, <2>3, <3>1, <3>2 DEF GhostInv
  <2>4. CASE f = e /\ proc'[p].pc \in InSession /\ status'[f] = status[f]
    <3>1. q # NoOne /\ q \in Procs
      BY <1>4, <2>1, <2>4 DEF GhostInv, Status
    <3>2. proc[q].pc \in InSession => proc'[q].pc \in InSession
      BY <1>1, <2>4, <3>1 DEF Moved, OthersKept
    <3> QED BY <2>1, <2>2, <2>4, <3>1, <3>2 DEF GhostInv
  <2>5. CASE f = e /\ proc'[p].pc \in InSession /\ status'[f].pid = p
    BY <2>5 DEF Procs, NoOne
  <2> QED BY <1>1, <2>1, <2>3, <2>4, <2>5 DEF Moved, RunningMoved, OtherFilesKept
<1> QED BY <1>5, <1>6, <1>7, <1>8, <1>9, <1>10, <1>11, <1>12, <1>13, <1>14, <1>15, <1>16, <1>17

-----------------------------------------------------------------------------
(* The steps of the console keep the invariant.  An operation touches its own *)
(* experiment's files and processes, and the slot lock.                       *)

\* The invariant, as far as one experiment goes.
NamedAt(e) ==
    /\ target[e] # NoOne => proc[target[e]].exp = e
    /\ status[e].pid # NoOne => proc[status[e].pid].exp = e
SeenAt(e) ==
    \A p \in Procs : Holds(e, p) =>
        IF op[e] = "launching" THEN target[e] = p
        ELSE status[e].pid = p /\ status[e].ticks
DecidedAt(e) ==
    /\ op[e] = "starting" => ~Alive(e)
    /\ op[e] = "restarting" =>
         IF target[e] = NoOne THEN ~Alive(e) ELSE status[e].pid = target[e]
    /\ op[e] \in {"terminating", "signalling", "awaiting", "launching"} =>
         target[e] # NoOne
CountedAt(e) ==
    \A p \in Procs :
        proc[p].exp = e /\ proc[p].pc \in Working /\ op[e] # "launching" =>
            status[e].state \notin Ended
AbsentAt(e) == status[e].state = "absent" => ~status[e].ticks
OwedAt(e) ==
    /\ owed[e] = "slot" => op[e] \in {"signalling", "awaiting", "starting"}
    /\ owed[e] = "slot" => Cardinality(Occupied \ {e}) < Slots
    /\ op[e] \in {"signalling", "awaiting"} /\ Workers(e) # {} => owed[e] = "slot"
AskedAt(e) ==
    \A p \in Procs :
        proc[p].exp = e /\ proc[p].pc \in Working /\ control[e].restart =>
            askedOf[e] = p
GhostAt(e) ==
    kills = 0 /\ status[e].state = "running_session" =>
        LET p == status[e].pid
        IN  /\ p # NoOne
            /\ \/ proc[p].pc \in InSession
               \/ op[e] \in {"awaiting", "starting"} /\ owed[e] = "slot"
               \/ op[e] = "launching"
               \/ owed[e] = "broken" /\ ~Alive(e)
SelfAt(e)  == NamedAt(e) /\ SeenAt(e) /\ DecidedAt(e) /\ CountedAt(e) /\ AbsentAt(e)
Local(e)   == SelfAt(e) /\ OwedAt(e) /\ AskedAt(e) /\ GhostAt(e)
AllLocal   == \A e \in Experiments : Local(e)

LocalInv == /\ NamedInv /\ SeenInv /\ DecidedInv /\ CountedInv /\ AbsentInv
            /\ OwedInv /\ AskedInv /\ GhostInv

LEMMA IsLocal == LocalInv => \A e \in Experiments : Local(e)
<1> SUFFICES ASSUME LocalInv, NEW e \in Experiments
             PROVE  Local(e)
  OBVIOUS
<1> USE DEF LocalInv
<1>1. NamedAt(e) /\ SeenAt(e) /\ DecidedAt(e) /\ AbsentAt(e)
  BY DEF NamedInv, SeenInv, DecidedInv, AbsentInv, NamedAt, SeenAt, DecidedAt, AbsentAt
<1>2. CountedAt(e) /\ AskedAt(e)
  BY DEF CountedInv, AskedInv, CountedAt, AskedAt
<1>3. OwedAt(e) /\ GhostAt(e)
  BY DEF OwedInv, GhostInv, OwedAt, GhostAt
<1> QED BY <1>1, <1>2, <1>3 DEF Local, SelfAt

LEMMA FromLocal == TypeOK /\ StartedInv /\ AllLocal => LocalInv
<1> SUFFICES ASSUME TypeOK, StartedInv, AllLocal PROVE LocalInv
  OBVIOUS
<1> USE DEF AllLocal, Local, SelfAt
<1>1. NamedInv /\ SeenInv /\ DecidedInv /\ AbsentInv
  BY DEF NamedInv, SeenInv, DecidedInv, AbsentInv, NamedAt, SeenAt, DecidedAt, AbsentAt
<1>2. \A p \in Procs : proc[p].pc \in Working => proc[p].exp \in Experiments
  BY LiveIsOwned DEF Working
<1>3. CountedInv /\ AskedInv
  BY <1>2 DEF CountedInv, AskedInv, CountedAt, AskedAt
<1>4. OwedInv /\ GhostInv
  BY DEF OwedInv, GhostInv, OwedAt, GhostAt
<1> QED BY <1>1, <1>3, <1>4 DEF LocalInv

\* What an operation on e leaves alone elsewhere ...
Elsewhere(e) ==
    /\ \A f \in Experiments : f # e =>
         /\ op'[f] = op[f] /\ target'[f] = target[f] /\ status'[f] = status[f]
         /\ control'[f] = control[f] /\ askedOf'[f] = askedOf[f]
         /\ owed'[f] = owed[f]
    /\ kills' = kills
\* ... and in the process table: nothing, but for signals and for deaths at e.
TableKept(e) ==
    \A q \in Procs :
        /\ proc'[q].exp = proc[q].exp
        /\ proc[q].exp # e => proc'[q] = proc[q]
        /\ \/ proc'[q].pc = proc[q].pc /\ proc'[q].said = proc[q].said
           \/ proc'[q].pc = "dead" /\ proc[q].pc # "none"

LEMMA TableKeeps ==
    ASSUME TypeOK, StartedInv, SaidInv, NEW e \in Experiments, TableKept(e),
           procs' = procs
    PROVE  /\ StartedInv' /\ SaidInv'
           /\ \A f \in Experiments : Workers(f)' \subseteq Workers(f)
           /\ \A f \in Experiments, q \in Procs : Holds(f, q)' => Holds(f, q)
<1>1. ASSUME NEW q \in Procs
      PROVE  /\ proc'[q].exp = proc[q].exp
             /\ proc'[q].pc = "none" <=> proc[q].pc = "none"
             /\ proc'[q].pc \in Working => proc[q].pc \in Working
             /\ proc'[q].pc \in Holding => proc[q].pc \in Holding
             /\ proc'[q].pc \in Holding =>
                  proc'[q].pc = proc[q].pc /\ proc'[q].said = proc[q].said
  BY DEF TableKept, Holding, Working
<1>2. StartedInv'
  BY <1>1 DEF StartedInv
<1>3. SaidInv'
  BY <1>1 DEF SaidInv, Working, Holding
<1> QED BY <1>1, <1>2, <1>3 DEF Workers, Holds

LEMMA OtherStays ==
    ASSUME IInv, NEW e \in Experiments, Elsewhere(e), NEW f \in Experiments, f # e,
           \A q \in Procs : proc[q].exp = f \/ proc'[q].exp = f => proc'[q] = proc[q],
           OwedAt(f)'
    PROVE  Local(f)'
<1> USE DEF IInv
<1>1. Local(f)
  BY IsLocal DEF LocalInv
<1>2. /\ op'[f] = op[f] /\ target'[f] = target[f] /\ status'[f] = status[f]
      /\ control'[f] = control[f] /\ askedOf'[f] = askedOf[f] /\ owed'[f] = owed[f]
      /\ kills' = kills
  BY DEF Elsewhere
<1>3. /\ target[f] \in Procs \cup {NoOne} /\ status[f].pid \in Procs \cup {NoOne}
  BY DEF TypeOK
<1>4. /\ status[f].pid # NoOne => proc'[status[f].pid] = proc[status[f].pid]
      /\ target[f] # NoOne => proc'[target[f]] = proc[target[f]]
  BY <1>1, <1>3 DEF Local, SelfAt, NamedAt
<1>5. Alive(f)' <=> Alive(f)
  BY <1>2, <1>4 DEF Alive
<1>6. \A q \in Procs : proc'[q].exp = f => proc'[q] = proc[q]
  OBVIOUS
<1>7. NamedAt(f)' /\ DecidedAt(f)' /\ AbsentAt(f)'
  BY <1>1, <1>2, <1>4, <1>5 DEF Local, SelfAt, NamedAt, DecidedAt, AbsentAt
<1>8. SeenAt(f)' /\ CountedAt(f)' /\ AskedAt(f)'
  BY <1>1, <1>2, <1>6 DEF Local, SelfAt, SeenAt, CountedAt, AskedAt, Holds
<1>9. GhostAt(f)'
  BY <1>1, <1>2, <1>4, <1>5 DEF Local, GhostAt
<1> QED BY <1>7, <1>8, <1>9 DEF Local, SelfAt

LEMMA OthersStay ==
    ASSUME IInv, NEW e \in Experiments, Elsewhere(e), TableKept(e), procs' = procs,
           NEW f \in Experiments, f # e
    PROVE  Local(f)'
<1> USE DEF IInv
<1>1. OwedAt(f) /\ op'[f] = op[f] /\ owed'[f] = owed[f]
  BY IsLocal DEF LocalInv, Local, Elsewhere
<1>2. /\ Workers(f)' \subseteq Workers(f)
      /\ Cardinality(Occupied' \ {f}) <= Cardinality(Occupied \ {f})
      /\ Cardinality(Occupied' \ {f}) \in Nat /\ Cardinality(Occupied \ {f}) \in Nat
  BY TableKeeps, FewerWorkers, OccupiedFinite
<1>3. owed[f] = "slot" => Cardinality(Occupied' \ {f}) < Slots
  BY <1>1, <1>2, LifecycleAssumption DEF OwedAt
<1>4. OwedAt(f)'
  BY <1>1, <1>2, <1>3 DEF OwedAt
<1> QED BY <1>4, OtherStays DEF TableKept

\* What is left to show of an operation.
LEMMA OperationKeeps ==
    ASSUME IInv, NEW e \in Experiments, Elsewhere(e), TableKept(e), procs' = procs,
           TypeOK', LockInv', Local(e)'
    PROVE  IInv'
<1> USE DEF IInv
<1>1. StartedInv' /\ SaidInv'
  BY TableKeeps
<1>2. AllLocal'
  BY OthersStay DEF AllLocal
<1>3. LocalInv'
  BY <1>1, <1>2, FromLocal, PTL
<1>4. WithinSlots'
  <2>1. /\ Cardinality(Occupied') <= Cardinality(Occupied)
        /\ Cardinality(Occupied') \in Nat /\ Cardinality(Occupied) \in Nat
    BY TableKeeps, FewerWorkers, OccupiedFinite
  <2> QED BY <2>1, LifecycleAssumption DEF WithinSlots
<1> QED BY <1>1, <1>3, <1>4 DEF LocalInv

\* An operation that writes neither a status nor the process table: what it may
\* decide and what it may owe.
Quiet(e) ==
    /\ op[e] # "launching" /\ op'[e] # "launching"
    /\ op'[e] = "starting" => ~Alive(e)
    /\ op'[e] = "restarting" =>
         IF target'[e] = NoOne THEN ~Alive(e) ELSE status[e].pid = target'[e]
    /\ op'[e] \in {"terminating", "signalling", "awaiting"} => target'[e] # NoOne
    /\ owed'[e] = "slot" => op'[e] \in {"signalling", "awaiting", "starting"}
    /\ owed'[e] = "slot" => owed[e] = "slot" \/ Workers(e) # {}
    /\ op'[e] \in {"signalling", "awaiting"} /\ Workers(e) # {} => owed'[e] = "slot"
    /\ owed[e] = "slot" /\ op[e] \in {"awaiting", "starting"} =>
         \/ owed'[e] = "slot" /\ op'[e] \in {"awaiting", "starting"}
         \/ owed'[e] = "broken"
    /\ owed[e] = "broken" => owed'[e] = "broken" \/ Alive(e)
    /\ owed'[e] = "broken" => owed[e] = "broken" \/ ~Alive(e)

LEMMA QuietKeeps ==
    ASSUME IInv, NEW e \in Experiments, Elsewhere(e),
           UNCHANGED <<status, proc, procs, kills>>,
           TypeOK', LockInv', NamedAt(e)', AskedAt(e)', Quiet(e)
    PROVE  IInv'
<1> USE DEF IInv
<1>1. Local(e)
  BY IsLocal DEF LocalInv
<1>2. TableKept(e)
  BY DEF TableKept
<1>3. /\ Alive(e)' <=> Alive(e)
      /\ Workers(e)' = Workers(e) /\ Occupied' = Occupied
      /\ \A p \in Procs : Holds(e, p)' <=> Holds(e, p)
  BY DEF Alive, Workers, Occupied, Holds
<1>4. SeenAt(e)' /\ CountedAt(e)' /\ AbsentAt(e)'
  BY <1>1, <1>3 DEF Quiet, Local, SelfAt, SeenAt, CountedAt, AbsentAt
<1>5. DecidedAt(e)'
  BY <1>3 DEF Quiet, DecidedAt
<1>6. OwedAt(e)'
  <2>1. CASE owed[e] = "slot"
    BY <1>1, <1>3, <2>1 DEF Quiet, Local, OwedAt
  <2>2. CASE Workers(e) # {}
    <3>1. e \in Occupied
      BY <2>2 DEF Occupied
    <3>2. Cardinality(Occupied \ {e}) = Cardinality(Occupied) - 1
      BY <3>1, OccupiedFinite, FS_RemoveElement
    <3>3. Cardinality(Occupied \ {e}) < Slots
      BY <3>2, OccupiedFinite, LifecycleAssumption DEF WithinSlots
    <3> QED BY <1>3, <3>3 DEF Quiet, OwedAt
  <2> QED BY <1>3, <2>1, <2>2 DEF Quiet, OwedAt
<1>7. GhostAt(e)'
  <2>1. /\ owed'[e] = "broken" => owed[e] = "broken" \/ ~Alive(e)
        /\ owed[e] = "slot" /\ op[e] \in {"awaiting", "starting"} =>
               \/ owed'[e] = "slot" /\ op'[e] \in {"awaiting", "starting"}
               \/ owed'[e] = "broken"
        /\ owed[e] = "broken" /\ ~Alive(e) => owed'[e] = "broken"
        /\ op[e] # "launching"
    BY DEF Quiet
  <2> QED BY <1>1, <1>3, <2>1 DEF Local, GhostAt
<1>8. Local(e)'
  BY <1>4, <1>5, <1>6, <1>7, Zenon DEF Local, SelfAt
<1> QED BY <1>2, <1>8, OperationKeeps

LEMMA RequestKeeps ==
    ASSUME IInv, NEW e \in Experiments, Request(e)
    PROVE  IInv'
<1> USE DEF IInv
<1>1. Local(e)
  BY IsLocal DEF LocalInv
<1>2. TypeOK'
  <2> DEFINE C == [request : {"none", "pause", "stop"}, restart : BOOLEAN]
  <2>1. PICK r \in {"pause", "stop"} :
          control' = [control EXCEPT ![e] = [control[e] EXCEPT !.request = r]]
    BY DEF Request
  <2>2. control \in [Experiments -> C]
    BY DEF TypeOK
  <2>3. [control[e] EXCEPT !.request = r] \in C
    BY <2>2
  <2>4. control' \in [Experiments -> C]
    <3> HIDE DEF C
    <3> QED BY <2>1, <2>2, <2>3
  <2> QED BY <2>4 DEF TypeOK, Ops, Request, Ask
<1>3. Elsewhere(e) /\ UNCHANGED <<status, proc, procs, kills>>
  BY DEF TypeOK, Elsewhere, Request, Ask
<1>4. LockInv'
  BY <1>1 DEF TypeOK, LockInv, Local, OwedAt, NoOne, Request, Ask
<1>5. NamedAt(e)' /\ AskedAt(e)'
  BY <1>1 DEF TypeOK, Local, SelfAt, NamedAt, AskedAt, Request, Ask
<1>6. Quiet(e)
  BY <1>1 DEF TypeOK, Ops, Local, SelfAt, DecidedAt, OwedAt, Quiet, Request, Ask
<1> QED BY <1>2, <1>3, <1>4, <1>5, <1>6, QuietKeeps

LEMMA ResumeKeeps ==
    ASSUME IInv, NEW e \in Experiments, Resume(e)
    PROVE  IInv'
<1> USE DEF IInv
<1>1. Local(e)
  BY IsLocal DEF LocalInv
<1>2. TypeOK'
  <2>1. control' = [control EXCEPT ![e] = [control[e] EXCEPT !.request = "none"]]
    BY DEF Resume
  <2> DEFINE C == [request : {"none", "pause", "stop"}, restart : BOOLEAN]
  <2>2. control \in [Experiments -> C]
    BY DEF TypeOK
  <2>3. [control[e] EXCEPT !.request = "none"] \in C
    BY <2>2
  <2>4. control' \in [Experiments -> C]
    <3> HIDE DEF C
    <3> QED BY <2>1, <2>2, <2>3
  <2> QED BY <2>4 DEF TypeOK, Ops, Resume, Ask
<1>3. Elsewhere(e) /\ UNCHANGED <<status, proc, procs, kills>>
  BY DEF TypeOK, Elsewhere, Resume, Ask
<1>4. LockInv'
  BY <1>1 DEF TypeOK, LockInv, Local, OwedAt, NoOne, Resume, Ask
<1>5. NamedAt(e)' /\ AskedAt(e)'
  BY <1>1 DEF TypeOK, Local, SelfAt, NamedAt, AskedAt, Resume, Ask
<1>6. Quiet(e)
  BY <1>1 DEF TypeOK, Ops, Local, SelfAt, DecidedAt, OwedAt, Quiet, Resume, Ask
<1> QED BY <1>2, <1>3, <1>4, <1>5, <1>6, QuietKeeps

LEMMA ResumeLooksKeeps ==
    ASSUME IInv, NEW e \in Experiments, ResumeLooks(e)
    PROVE  IInv'
<1> USE DEF IInv
<1>1. Local(e)
  BY IsLocal DEF LocalInv
<1>2. TypeOK'
  BY DEF TypeOK, Ops, ResumeLooks
<1>3. Elsewhere(e) /\ UNCHANGED <<status, proc, procs, kills>>
  BY DEF TypeOK, Elsewhere, ResumeLooks
<1>4. LockInv'
  BY <1>1 DEF TypeOK, LockInv, Local, OwedAt, NoOne, ResumeLooks
<1>5. NamedAt(e)' /\ AskedAt(e)'
  BY <1>1 DEF TypeOK, Local, SelfAt, NamedAt, AskedAt, ResumeLooks
<1>6. Quiet(e)
  BY <1>1 DEF TypeOK, Ops, Local, SelfAt, DecidedAt, OwedAt, Quiet, ResumeLooks
<1> QED BY <1>2, <1>3, <1>4, <1>5, <1>6, QuietKeeps

LEMMA StartRefusedKeeps ==
    ASSUME IInv, NEW e \in Experiments, StartRefused(e)
    PROVE  IInv'
<1> USE DEF IInv
<1>1. Local(e)
  BY IsLocal DEF LocalInv
<1>2. TypeOK'
  BY DEF TypeOK, Ops, StartRefused
<1>3. Elsewhere(e) /\ UNCHANGED <<status, proc, procs, kills>>
  BY DEF TypeOK, Elsewhere, StartRefused
<1>4. LockInv'
  BY <1>1 DEF TypeOK, LockInv, Local, OwedAt, NoOne, StartRefused
<1>5. NamedAt(e)' /\ AskedAt(e)'
  BY <1>1 DEF TypeOK, Local, SelfAt, NamedAt, AskedAt, StartRefused
<1>6. Quiet(e)
  BY <1>1 DEF TypeOK, Ops, Local, SelfAt, DecidedAt, OwedAt, Quiet, StartRefused
<1> QED BY <1>2, <1>3, <1>4, <1>5, <1>6, QuietKeeps

LEMMA TerminateSeesExitKeeps ==
    ASSUME IInv, NEW e \in Experiments, TerminateSeesExit(e)
    PROVE  IInv'
<1> USE DEF IInv
<1>1. Local(e)
  BY IsLocal DEF LocalInv
<1>2. TypeOK'
  BY DEF TypeOK, Ops, TerminateSeesExit
<1>3. Elsewhere(e) /\ UNCHANGED <<status, proc, procs, kills>>
  BY DEF TypeOK, Elsewhere, TerminateSeesExit
<1>4. LockInv'
  BY <1>1 DEF TypeOK, LockInv, Local, OwedAt, NoOne, TerminateSeesExit
<1>5. NamedAt(e)' /\ AskedAt(e)'
  BY <1>1 DEF TypeOK, Local, SelfAt, NamedAt, AskedAt, TerminateSeesExit
<1>6. Quiet(e)
  BY <1>1 DEF TypeOK, Ops, Local, SelfAt, DecidedAt, OwedAt, Quiet, TerminateSeesExit
<1> QED BY <1>2, <1>3, <1>4, <1>5, <1>6, QuietKeeps

LEMMA RestartDeferredKeeps ==
    ASSUME IInv, NEW e \in Experiments, RestartDeferred(e)
    PROVE  IInv'
<1> USE DEF IInv
<1>1. Local(e)
  BY IsLocal DEF LocalInv
<1>2. TypeOK'
  <2>1. control' = [control EXCEPT ![e] = [control[e] EXCEPT !.restart = TRUE]]
    BY DEF RestartDeferred
  <2> DEFINE C == [request : {"none", "pause", "stop"}, restart : BOOLEAN]
  <2>2. control \in [Experiments -> C]
    BY DEF TypeOK
  <2>3. [control[e] EXCEPT !.restart = TRUE] \in C
    BY <2>2
  <2>4. control' \in [Experiments -> C]
    <3> HIDE DEF C
    <3> QED BY <2>1, <2>2, <2>3
  <2> QED BY <2>4 DEF TypeOK, Ops, RestartDeferred, Ask
<1>3. Elsewhere(e) /\ UNCHANGED <<status, proc, procs, kills>>
  BY DEF TypeOK, Elsewhere, RestartDeferred, Ask
<1>4. LockInv'
  BY <1>1 DEF TypeOK, LockInv, Local, OwedAt, NoOne, RestartDeferred, Ask
<1>5. NamedAt(e)' /\ AskedAt(e)'
  <2>1. \A p \in Procs : proc[p].exp = e /\ proc[p].pc \in Working => status[e].pid = p
    BY <1>1 DEF RestartDeferred, Ask, Local, SelfAt, SeenAt, Holds, Holding
  <2>2. askedOf'[e] = status[e].pid /\ UNCHANGED <<target, status, proc>>
    BY DEF RestartDeferred, TypeOK
  <2> QED BY <1>1, <2>1, <2>2 DEF Local, SelfAt, NamedAt, AskedAt
<1>6. Quiet(e)
  BY <1>1 DEF TypeOK, Ops, Local, SelfAt, DecidedAt, OwedAt, Quiet, RestartDeferred, Ask
<1> QED BY <1>2, <1>3, <1>4, <1>5, <1>6, QuietKeeps

LEMMA RestartKeeps ==
    ASSUME IInv, NEW e \in Experiments, Restart(e)
    PROVE  IInv'
<1> USE DEF IInv
<1>1. Local(e)
  BY IsLocal DEF LocalInv
<1>2. TypeOK'
  BY DEF TypeOK, Ops, Restart, Ask
<1>3. Elsewhere(e) /\ UNCHANGED <<status, proc, procs, kills>>
  BY DEF TypeOK, Elsewhere, Restart, Ask
<1>4. LockInv'
  BY <1>1 DEF TypeOK, LockInv, Local, OwedAt, NoOne, Restart, Ask
<1>5. NamedAt(e)' /\ AskedAt(e)'
  BY <1>1 DEF TypeOK, Local, SelfAt, NamedAt, AskedAt, Restart, Ask
<1>6. IF target'[e] = NoOne THEN ~Alive(e) ELSE status[e].pid = target'[e]
  BY DEF Restart, TypeOK, Alive
<1>7. Quiet(e)
  BY <1>1, <1>6 DEF TypeOK, Ops, Local, SelfAt, OwedAt, Quiet, Restart, Ask
<1> QED BY <1>2, <1>3, <1>4, <1>5, <1>7, QuietKeeps

LEMMA RestartLocksKeeps ==
    ASSUME IInv, NEW e \in Experiments, RestartLocks(e)
    PROVE  IInv'
<1> USE DEF IInv
<1>1. Local(e)
  BY IsLocal DEF LocalInv
<1>2. TypeOK'
  BY DEF TypeOK, Ops, RestartLocks, HeldBy
<1>3. Elsewhere(e) /\ UNCHANGED <<status, proc, procs, kills>>
  BY DEF TypeOK, Elsewhere, RestartLocks, HeldBy
<1>4. LockInv'
  BY <1>1, LifecycleAssumption
     DEF TypeOK, LockInv, Local, OwedAt, NoOne, RestartLocks, HeldBy
<1>5. NamedAt(e)' /\ AskedAt(e)'
  BY <1>1 DEF TypeOK, Local, SelfAt, NamedAt, AskedAt, RestartLocks, HeldBy
<1>6. ~TargetAlive(e) => ~Alive(e)
  BY <1>1 DEF RestartLocks, TargetAlive, Local, SelfAt, DecidedAt, Alive
<1>7. Workers(e) # {} => Alive(e)
  BY NobodyWorks DEF RestartLocks
<1>8. /\ op'[e] = IF TargetAlive(e) THEN "signalling" ELSE "starting"
      /\ owed'[e] = IF TargetAlive(e) /\ Workers(e) # {} THEN "slot" ELSE owed[e]
      /\ target'[e] = target[e] /\ op[e] = "restarting"
  BY DEF RestartLocks, TypeOK
<1>9. owed[e] # "slot" /\ (TargetAlive(e) => target[e] # NoOne)
  BY <1>1, <1>8 DEF Local, OwedAt, TargetAlive
<1>10. Quiet(e)
  BY <1>6, <1>7, <1>8, <1>9 DEF Quiet
<1> QED BY <1>2, <1>3, <1>4, <1>5, <1>10, QuietKeeps

LEMMA RestartSeesExitKeeps ==
    ASSUME IInv, NEW e \in Experiments, RestartSeesExit(e)
    PROVE  IInv'
<1> USE DEF IInv
<1>1. Local(e)
  BY IsLocal DEF LocalInv
<1>2. TypeOK'
  BY DEF TypeOK, Ops, RestartSeesExit
<1>3. Elsewhere(e) /\ UNCHANGED <<status, proc, procs, kills>>
  BY DEF TypeOK, Elsewhere, RestartSeesExit
<1>4. LockInv'
  BY <1>1 DEF TypeOK, LockInv, Local, OwedAt, NoOne, RestartSeesExit
<1>5. NamedAt(e)' /\ AskedAt(e)'
  BY <1>1 DEF TypeOK, Local, SelfAt, NamedAt, AskedAt, RestartSeesExit
<1>6. Quiet(e)
  BY <1>1 DEF TypeOK, Ops, Local, SelfAt, DecidedAt, OwedAt, Quiet, RestartSeesExit
<1> QED BY <1>2, <1>3, <1>4, <1>5, <1>6, QuietKeeps

LEMMA CreateKeeps ==
    ASSUME IInv, NEW e \in Experiments, Create(e)
    PROVE  IInv'
<1> USE DEF IInv
<1>1. Local(e)
  BY IsLocal DEF LocalInv
<1>2. NoWorker("created") \in Status /\ NoRequest \in [request : {"none", "pause", "stop"},
                                                       restart : BOOLEAN]
  BY DEF NoWorker, NoRequest, Status, Written
<1>3. TypeOK'
  BY <1>2 DEF TypeOK, Status, Ops, Create
<1>4. Elsewhere(e) /\ TableKept(e) /\ procs' = procs
  BY DEF TypeOK, Elsewhere, TableKept, Create
<1>5. LockInv'
  BY <1>1, LifecycleAssumption DEF TypeOK, LockInv, NoOne, Create
<1>6. /\ op'[e] = "starting" /\ control'[e] = NoRequest /\ owed'[e] = "nothing"
      /\ status'[e] = NoWorker("created") /\ target'[e] = target[e] /\ proc' = proc
  BY DEF Create, TypeOK
<1>7. \A p \in Procs : ~Holds(e, p)
  BY <1>1 DEF Create, Local, SelfAt, AbsentAt, SeenAt
<1>8. \A p \in Procs : ~Holds(e, p)' /\ (proc'[p].exp = e => proc'[p].pc \notin Working)
  BY <1>6, <1>7 DEF Holds, Holding
<1>9. NamedAt(e)' /\ SeenAt(e)' /\ DecidedAt(e)' /\ CountedAt(e)' /\ AbsentAt(e)'
  BY <1>1, <1>6, <1>8
     DEF NoWorker, Local, SelfAt, NamedAt, SeenAt, DecidedAt, CountedAt, AbsentAt, Alive
<1>10. OwedAt(e)' /\ AskedAt(e)' /\ GhostAt(e)'
  BY <1>6, <1>8 DEF NoWorker, OwedAt, AskedAt, GhostAt
<1> QED BY <1>3, <1>4, <1>5, <1>9, <1>10, OperationKeeps DEF Local, SelfAt

LEMMA DeleteKeeps ==
    ASSUME IInv, NEW e \in Experiments, Delete(e)
    PROVE  IInv'
<1> USE DEF IInv
<1>1. Local(e)
  BY IsLocal DEF LocalInv
<1>2. NoWorker("absent") \in Status
  BY DEF NoWorker, Status, Written
<1>3. TypeOK'
  BY <1>2 DEF TypeOK, Status, Delete, Ask
<1>4. Elsewhere(e) /\ TableKept(e) /\ procs' = procs
  BY DEF TypeOK, Elsewhere, TableKept, Delete, Ask
<1>5. LockInv'
  BY DEF LockInv, Delete, Ask
<1>6. /\ op'[e] = "idle" /\ control' = control /\ owed' = owed /\ askedOf' = askedOf
      /\ status'[e] = NoWorker("absent") /\ target'[e] = target[e] /\ proc' = proc
      /\ op[e] = "idle"
  BY DEF Delete, Ask, TypeOK
<1>7. \A p \in Procs : ~Holds(e, p)
  BY <1>6, NobodyWorks DEF Delete
<1>8. \A p \in Procs : ~Holds(e, p)' /\ (proc'[p].exp = e => proc'[p].pc \notin Working)
  BY <1>6, <1>7 DEF Holds, Holding
<1>9. NamedAt(e)' /\ SeenAt(e)' /\ DecidedAt(e)' /\ CountedAt(e)' /\ AbsentAt(e)'
  BY <1>1, <1>6, <1>8
     DEF NoWorker, Local, SelfAt, NamedAt, SeenAt, DecidedAt, CountedAt, AbsentAt, Alive
<1>10. OwedAt(e)' /\ AskedAt(e)' /\ GhostAt(e)'
  BY <1>1, <1>6, <1>8 DEF Local, NoWorker, OwedAt, AskedAt, GhostAt
<1> QED BY <1>3, <1>4, <1>5, <1>9, <1>10, OperationKeeps DEF Local, SelfAt

LEMMA LaunchedKeeps ==
    ASSUME IInv, NEW e \in Experiments, Launched(e)
    PROVE  IInv'
<1> USE DEF IInv
<1>1. Local(e)
  BY IsLocal DEF LocalInv
<1> DEFINE s == [state |-> "launching", pid |-> target[e],
                 ticks |-> proc[target[e]].pc # "dead"]
<1>2. s \in Status
  BY DEF TypeOK, Status, Written
<1>3. TypeOK'
  BY <1>2 DEF TypeOK, Status, Ops, Launched
<1>4. Elsewhere(e) /\ TableKept(e) /\ procs' = procs
  BY DEF TypeOK, Elsewhere, TableKept, Launched
<1>5. /\ op'[e] = "idle" /\ control' = control /\ owed' = owed /\ askedOf' = askedOf
      /\ status'[e] = s /\ target'[e] = target[e] /\ proc' = proc
      /\ op[e] = "launching"
  BY DEF Launched, TypeOK
<1>6. LockInv'
  BY <1>1, <1>5, LifecycleAssumption DEF TypeOK, LockInv, NoOne, Launched
<1>7. \A p \in Procs : Holds(e, p) => target[e] = p /\ s.pid = p /\ s.ticks
  BY <1>1, <1>5 DEF Local, SelfAt, SeenAt, Holds, Holding, Working
<1>8. SeenAt(e)'
  BY <1>5, <1>7 DEF SeenAt, Holds
<1>9. NamedAt(e)' /\ DecidedAt(e)' /\ CountedAt(e)' /\ AbsentAt(e)'
  BY <1>1, <1>5 DEF Local, SelfAt, NamedAt, DecidedAt, CountedAt, AbsentAt, Ended
<1>10. OwedAt(e)' /\ AskedAt(e)' /\ GhostAt(e)'
  BY <1>1, <1>5 DEF Local, OwedAt, AskedAt, GhostAt
<1> QED BY <1>3, <1>4, <1>6, <1>8, <1>9, <1>10, OperationKeeps DEF Local, SelfAt

\* A SIGTERM: it leaves a mark on its process, and nothing else.
LEMMA MarkWrites ==
    ASSUME TypeOK, NEW e \in Experiments, NEW p \in Procs, proc[p].exp = e,
           proc' = [proc EXCEPT ![p].sig = TRUE], UNCHANGED status
    PROVE  /\ proc' \in [Procs -> Process] /\ TableKept(e)
           /\ \A q \in Procs : proc'[q].exp = proc[q].exp /\ proc'[q].pc = proc[q].pc
           /\ Alive(e)' <=> Alive(e)
           /\ Workers(e)' = Workers(e) /\ Occupied' = Occupied
           /\ \A q \in Procs : Holds(e, q)' <=> Holds(e, q)
<1>1. proc \in [Procs -> Process]
  BY DEF TypeOK, Process
<1>2. proc' = [proc EXCEPT ![p] = [proc[p] EXCEPT !.sig = TRUE]]
  OBVIOUS
<1>3. [proc[p] EXCEPT !.sig = TRUE] \in Process
  BY <1>1 DEF Process
<1>4. proc'[p] = [proc[p] EXCEPT !.sig = TRUE]
  BY <1>1, <1>2
<1>5. /\ proc' \in [Procs -> Process]
      /\ \A q \in Procs : q # p => proc'[q] = proc[q]
      /\ proc'[p].exp = proc[p].exp /\ proc'[p].pc = proc[p].pc
      /\ proc'[p].said = proc[p].said
  BY <1>1, <1>2, <1>3, <1>4 DEF Process
<1>6. TableKept(e)
  BY <1>5 DEF TableKept
<1>7. \A q \in Procs : proc'[q].exp = proc[q].exp /\ proc'[q].pc = proc[q].pc
  BY <1>5
<1>8. status[e].pid \in Procs \cup {NoOne}
  BY DEF TypeOK
<1>9. \A f : Workers(f)' = Workers(f)
  BY <1>7 DEF Workers
<1>10. Occupied' = Occupied
  BY <1>9 DEF Occupied
<1> QED BY <1>5, <1>6, <1>7, <1>8, <1>9, <1>10 DEF Alive, Holds

LEMMA TerminateKeeps ==
    ASSUME IInv, NEW e \in Experiments, Terminate(e)
    PROVE  IInv'
<1> USE DEF IInv
<1> DEFINE p == status[e].pid
<1>1. Local(e)
  BY IsLocal DEF LocalInv
<1>2. p \in Procs /\ p # NoOne /\ proc[p].exp = e
  BY <1>1 DEF Terminate, Alive, TypeOK, Local, SelfAt, NamedAt
<1>3. /\ op[e] = "idle" /\ op'[e] = "terminating" /\ target'[e] = p
      /\ proc' = [proc EXCEPT ![p].sig = TRUE]
      /\ UNCHANGED <<stage, control, status, slots, procs, kills, askedOf, owed>>
  BY DEF Terminate, Ask, TypeOK
<1>4. /\ proc' \in [Procs -> Process] /\ TableKept(e)
      /\ \A q \in Procs : proc'[q].exp = proc[q].exp /\ proc'[q].pc = proc[q].pc
      /\ Alive(e)' <=> Alive(e)
      /\ Workers(e)' = Workers(e) /\ Occupied' = Occupied
      /\ \A q \in Procs : Holds(e, q)' <=> Holds(e, q)
  BY <1>2, <1>3, MarkWrites
<1>5. TypeOK'
  BY <1>2, <1>4 DEF TypeOK, Process, Ops, Terminate, Ask
<1>6. Elsewhere(e) /\ procs' = procs
  BY DEF TypeOK, Elsewhere, Terminate, Ask
<1>7. LockInv'
  BY <1>1 DEF TypeOK, LockInv, Local, OwedAt, Terminate, Ask
<1>8. NamedAt(e)' /\ DecidedAt(e)' /\ AbsentAt(e)'
  BY <1>1, <1>2, <1>3, <1>4 DEF Local, SelfAt, NamedAt, DecidedAt, AbsentAt
<1>9. SeenAt(e)' /\ CountedAt(e)' /\ AskedAt(e)'
  BY <1>1, <1>3, <1>4 DEF Local, SelfAt, SeenAt, CountedAt, AskedAt
<1>10. OwedAt(e)' /\ GhostAt(e)'
  BY <1>1, <1>2, <1>3, <1>4 DEF Local, OwedAt, GhostAt
<1> QED BY <1>4, <1>5, <1>6, <1>7, <1>8, <1>9, <1>10, OperationKeeps DEF Local, SelfAt

LEMMA RestartSignalsKeeps ==
    ASSUME IInv, NEW e \in Experiments, RestartSignals(e)
    PROVE  IInv'
<1> USE DEF IInv
<1> DEFINE p == target[e]
<1>1. Local(e)
  BY IsLocal DEF LocalInv
<1>2. op[e] = "signalling" /\ p \in Procs /\ p # NoOne /\ proc[p].exp = e
  BY <1>1 DEF RestartSignals, TypeOK, Local, SelfAt, NamedAt, DecidedAt
<1>3. Elsewhere(e)
  BY DEF TypeOK, Elsewhere, RestartSignals
<1>4. CASE TargetAlive(e)
  <2>1. /\ op'[e] = "awaiting" /\ target'[e] = p
        /\ proc' = [proc EXCEPT ![p].sig = TRUE]
        /\ UNCHANGED <<stage, control, status, target, slots, procs, kills, askedOf, owed>>
    BY <1>4 DEF RestartSignals, TypeOK
  <2>2. /\ proc' \in [Procs -> Process] /\ TableKept(e)
        /\ \A q \in Procs : proc'[q].exp = proc[q].exp /\ proc'[q].pc = proc[q].pc
        /\ Alive(e)' <=> Alive(e)
        /\ Workers(e)' = Workers(e) /\ Occupied' = Occupied
        /\ \A q \in Procs : Holds(e, q)' <=> Holds(e, q)
    BY <1>2, <2>1, MarkWrites
  <2>3. TypeOK'
    <3>1. op' = [op EXCEPT ![e] = "awaiting"] /\ procs' = procs /\ asks' = asks
      BY <1>4 DEF RestartSignals
    <3>2. op' \in [Experiments -> Ops]
      BY <3>1 DEF TypeOK, Ops
    <3> QED BY <2>1, <2>2, <3>1, <3>2 DEF TypeOK, Process
  <2>4. LockInv'
    BY <1>2, <1>4 DEF TypeOK, LockInv, RestartSignals
  <2>5. NamedAt(e)' /\ DecidedAt(e)' /\ AbsentAt(e)'
    BY <1>1, <1>2, <2>1, <2>2 DEF Local, SelfAt, NamedAt, DecidedAt, AbsentAt
  <2>6. SeenAt(e)' /\ CountedAt(e)' /\ AskedAt(e)'
    BY <1>1, <1>2, <2>1, <2>2 DEF Local, SelfAt, SeenAt, CountedAt, AskedAt
  <2>7. status[e].pid \in Procs \cup {NoOne}
    BY DEF TypeOK
  <2>8. OwedAt(e)' /\ GhostAt(e)'
    BY <1>1, <1>2, <2>1, <2>2, <2>7 DEF Local, OwedAt, GhostAt
  <2> QED BY <1>3, <2>1, <2>2, <2>3, <2>4, <2>5, <2>6, <2>8, OperationKeeps
          DEF Local, SelfAt
<1>5. CASE ~TargetAlive(e)
  <2>1. /\ op'[e] = "idle" /\ owed'[e] = IF owed[e] = "slot" THEN "nothing" ELSE owed[e]
        /\ slots' = NoOne
        /\ UNCHANGED <<stage, control, status, target, proc, procs, kills, askedOf>>
    BY <1>5 DEF RestartSignals, TypeOK
  <2>2. TypeOK'
    <3>1. op' = [op EXCEPT ![e] = "idle"] /\ procs' = procs /\ asks' = asks
      BY <1>5 DEF RestartSignals
    <3>2. owed' \in [Experiments -> {"nothing", "slot", "broken"}]
      BY <1>5 DEF RestartSignals, TypeOK
    <3> QED BY <2>1, <3>1, <3>2 DEF TypeOK, Ops
  <2>3. LockInv'
    BY <1>2, <1>3, <2>1, LifecycleAssumption DEF LockInv, Elsewhere
  <2>4. NamedAt(e)' /\ AskedAt(e)'
    BY <1>1, <2>1 DEF Local, SelfAt, NamedAt, AskedAt
  <2>5. Quiet(e)
    BY <1>1, <1>2, <2>1 DEF Quiet, Local, OwedAt
  <2> QED BY <1>2, <1>3, <2>1, <2>2, <2>3, <2>4, <2>5, QuietKeeps
<1> QED BY <1>4, <1>5

\* A SIGKILL.
LEMMA KillWrites ==
    ASSUME TypeOK, StartedInv, SeenInv, NEW e \in Experiments, NEW p \in Procs,
           proc[p].exp = e, proc' = [proc EXCEPT ![p] = Corpse(@)]
    PROVE  /\ proc' \in [Procs -> Process] /\ TableKept(e)
           /\ \A q \in Procs : /\ proc'[q].exp = proc[q].exp
                               /\ q # p => proc'[q] = proc[q]
           /\ proc'[p].pc = "dead"
           /\ Workers(e)' \subseteq Workers(e)
           /\ Cardinality(Occupied' \ {e}) <= Cardinality(Occupied \ {e})
           /\ Cardinality(Occupied' \ {e}) \in Nat /\ Cardinality(Occupied \ {e}) \in Nat
           /\ \A q \in Procs : Holds(e, q)' => Holds(e, q)
<1>1. proc \in [Procs -> Process]
  BY DEF TypeOK, Process
<1>2. proc' = [proc EXCEPT ![p] = Corpse(proc[p])]
  OBVIOUS
<1>3. Corpse(proc[p]) \in Process
  BY <1>1 DEF Process, Corpse, PCs
<1>4. proc'[p] = Corpse(proc[p])
  BY <1>1, <1>2
<1>5. /\ proc' \in [Procs -> Process]
      /\ \A q \in Procs : q # p => proc'[q] = proc[q]
      /\ proc'[p].exp = proc[p].exp /\ proc'[p].pc = "dead"
  BY <1>1, <1>2, <1>3, <1>4 DEF Process, Corpse
<1>6. proc[p].pc # "none"
  BY LifecycleAssumption DEF StartedInv, NoOne
<1>7. TableKept(e)
  BY <1>5, <1>6 DEF TableKept
<1>8. \A f \in Experiments : Workers(f)' \subseteq Workers(f)
  BY <1>5 DEF Workers, Working
<1>9. \A q \in Procs : Holds(e, q)' => Holds(e, q)
  BY <1>5 DEF Holds, Holding, Working
<1> QED BY <1>5, <1>7, <1>8, <1>9, FewerWorkers, OccupiedFinite

LEMMA TerminateForcesKeeps ==
    ASSUME IInv, NEW e \in Experiments, TerminateForces(e)
    PROVE  IInv'
<1> USE DEF IInv
<1> DEFINE p == target[e]
<1>1. Local(e)
  BY IsLocal DEF LocalInv
<1>2. op[e] = "terminating" /\ p \in Procs /\ p # NoOne /\ proc[p].exp = e
  BY <1>1 DEF TerminateForces, TypeOK, Local, SelfAt, NamedAt, DecidedAt
<1>3. proc' = [proc EXCEPT ![p] = Corpse(@)]
  BY DEF TerminateForces
<1>4. /\ proc' \in [Procs -> Process] /\ TableKept(e)
      /\ \A q \in Procs : /\ proc'[q].exp = proc[q].exp
                          /\ q # p => proc'[q] = proc[q]
      /\ proc'[p].pc = "dead"
      /\ Workers(e)' \subseteq Workers(e)
      /\ \A q \in Procs : Holds(e, q)' => Holds(e, q)
  BY <1>2, <1>3, KillWrites
<1>5. status' = [status EXCEPT ![e] = [status[e] EXCEPT !.state = "terminated"]]
  BY DEF TerminateForces
<1>6. status \in [Experiments -> Status]
  BY DEF TypeOK, Status
<1>7. [status[e] EXCEPT !.state = "terminated"] \in Status
  BY <1>6 DEF Status, Written
<1>8. /\ status' \in [Experiments -> Status]
      /\ status'[e] = [status[e] EXCEPT !.state = "terminated"]
  BY <1>5, <1>6, <1>7
<1>9. /\ status'[e].state = "terminated" /\ status'[e].pid = status[e].pid
      /\ status'[e].ticks = status[e].ticks /\ status[e].pid \in Procs \cup {NoOne}
  BY <1>6, <1>8 DEF Status
<1>10. /\ op'[e] = "idle" /\ target'[e] = p
       /\ UNCHANGED <<stage, control, slots, procs, kills, askedOf, owed>>
  BY DEF TerminateForces, TypeOK
<1>11. TypeOK'
  BY <1>4, <1>8 DEF TypeOK, Process, Status, Ops, TerminateForces
<1>12. Elsewhere(e)
  BY DEF TypeOK, Elsewhere, TerminateForces
<1>13. LockInv'
  BY DEF TypeOK, LockInv, TerminateForces
<1>14. NamedAt(e)' /\ DecidedAt(e)' /\ AbsentAt(e)'
  BY <1>1, <1>2, <1>4, <1>9, <1>10 DEF Local, SelfAt, NamedAt, DecidedAt, AbsentAt
<1>15. SeenAt(e)' /\ CountedAt(e)'
  BY <1>1, <1>2, <1>4, <1>9, <1>10 DEF Local, SelfAt, SeenAt, CountedAt, Ended
<1>16. AskedAt(e)'
  <2>1. \A q \in Procs : proc'[q].pc \in Working => proc[q].pc \in Working
    BY <1>2, <1>4 DEF Working
  <2> QED BY <1>1, <1>4, <1>10, <2>1 DEF Local, AskedAt
<1>17. OwedAt(e)' /\ GhostAt(e)'
  BY <1>1, <1>2, <1>9, <1>10 DEF Local, OwedAt, GhostAt
<1> QED BY <1>4, <1>10, <1>11, <1>12, <1>13, <1>14, <1>15, <1>16, <1>17, OperationKeeps
       DEF Local, SelfAt

LEMMA RestartForcesKeeps ==
    ASSUME IInv, NEW e \in Experiments, RestartForces(e)
    PROVE  IInv'
<1> USE DEF IInv
<1> DEFINE p == target[e]
<1>1. Local(e)
  BY IsLocal DEF LocalInv
<1>2. op[e] = "awaiting" /\ p \in Procs /\ p # NoOne /\ proc[p].exp = e
  BY <1>1 DEF RestartForces, TypeOK, Local, SelfAt, NamedAt, DecidedAt
<1>3. proc' = [proc EXCEPT ![p] = Corpse(@)]
  BY DEF RestartForces
<1>4. /\ proc' \in [Procs -> Process] /\ TableKept(e)
      /\ \A q \in Procs : /\ proc'[q].exp = proc[q].exp
                          /\ q # p => proc'[q] = proc[q]
      /\ proc'[p].pc = "dead"
      /\ Workers(e)' \subseteq Workers(e)
      /\ Cardinality(Occupied' \ {e}) <= Cardinality(Occupied \ {e})
      /\ Cardinality(Occupied' \ {e}) \in Nat /\ Cardinality(Occupied \ {e}) \in Nat
      /\ \A q \in Procs : Holds(e, q)' => Holds(e, q)
  BY <1>2, <1>3, KillWrites
<1>5. UNCHANGED <<stage, control, status, op, target, slots, procs, kills, askedOf, owed>>
  BY DEF RestartForces
<1>6. status[e].pid \in Procs \cup {NoOne}
  BY DEF TypeOK
<1>7. TypeOK'
  BY <1>4 DEF TypeOK, Process, RestartForces
<1>8. Elsewhere(e) /\ LockInv'
  BY <1>5 DEF Elsewhere, LockInv
<1>9. NamedAt(e)' /\ DecidedAt(e)' /\ AbsentAt(e)'
  BY <1>1, <1>2, <1>4, <1>5, <1>6 DEF Local, SelfAt, NamedAt, DecidedAt, AbsentAt
<1>10. \A q \in Procs : proc'[q].pc \in Working => proc[q].pc \in Working
  BY <1>2, <1>4 DEF Working
<1>11. SeenAt(e)' /\ CountedAt(e)' /\ AskedAt(e)'
  BY <1>1, <1>4, <1>5, <1>10 DEF Local, SelfAt, SeenAt, CountedAt, AskedAt
<1>12. OwedAt(e)'
  <2>1. owed[e] = "slot" => Cardinality(Occupied' \ {e}) < Slots
    BY <1>1, <1>4, LifecycleAssumption DEF Local, OwedAt
  <2> QED BY <1>1, <1>2, <1>4, <1>5, <2>1 DEF Local, OwedAt
<1>13. GhostAt(e)'
  <2> SUFFICES ASSUME kills = 0, status[e].state = "running_session",
                      NEW q, q = status[e].pid
               PROVE  /\ q # NoOne
                      /\ \/ proc'[q].pc \in InSession
                         \/ owed[e] = "slot"
                         \/ owed[e] = "broken" /\ ~Alive(e)'
    BY <1>2, <1>5 DEF GhostAt
  <2>1. q \in Procs /\ proc[q].exp = e
    BY <1>1, <1>6 DEF Local, SelfAt, GhostAt, NamedAt
  <2>2. CASE proc[q].pc \in InSession
    <3>1. q \in Workers(e)
      BY <2>1, <2>2 DEF Workers, InSession, Working
    <3> QED BY <1>1, <1>2, <2>1, <3>1 DEF Local, OwedAt, Procs, NoOne
  <2>3. CASE owed[e] = "broken" /\ ~Alive(e)
    <3>1. ~Alive(e)'
      BY <1>2, <1>4, <1>5, <1>6, <2>3 DEF Alive, Exited
    <3> QED BY <2>1, <2>3, <3>1 DEF Procs, NoOne
  <2> QED BY <1>1, <1>2, <2>2, <2>3 DEF Local, GhostAt
<1> QED BY <1>4, <1>5, <1>7, <1>8, <1>9, <1>11, <1>12, <1>13, OperationKeeps
       DEF Local, SelfAt

\* The limit: nobody else is being launched, so every worker is counted.
LEMMA WorkersAreCounted ==
    ASSUME IInv, \A f \in Experiments : op[f] # "launching"
    PROVE  Occupied \subseteq Running
<1> USE DEF IInv
<1> SUFFICES ASSUME NEW f \in Occupied
             PROVE  f \in Running
  OBVIOUS
<1>1. f \in Experiments /\ Workers(f) # {}
  BY DEF Occupied
<1>2. PICK p \in Workers(f) : TRUE
  BY <1>1
<1>3. p \in Procs /\ proc[p].exp = f /\ proc[p].pc \in Working /\ Holds(f, p)
  BY <1>1, <1>2, WorkerHolds DEF Workers
<1>4. Alive(f)
  BY <1>1, <1>3, HolderIsSeen
<1>5. status[f].state \notin Ended
  BY <1>1, <1>3 DEF CountedInv
<1> QED BY <1>1, <1>4, <1>5 DEF Running

LEMMA SpawnKeeps ==
    ASSUME IInv, NEW e \in Experiments, Spawn(e)
    PROVE  IInv'
<1> USE DEF IInv
<1> DEFINE n == procs + 1
           w == [exp |-> e, pc |-> "spawned", sig |-> FALSE, said |-> "none"]
<1>1. \A f \in Experiments : Local(f)
  BY IsLocal DEF LocalInv
<1>2. n \in Procs /\ proc[n].pc = "none" /\ proc[n].exp = NoOne
  BY LifecycleAssumption DEF Spawn, TypeOK, StartedInv, Procs
<1>3. e # NoOne
  BY LifecycleAssumption DEF NoOne
<1>4. proc \in [Procs -> Process] /\ w \in Process
  BY DEF TypeOK, Process, PCs, Working
<1>5. /\ proc' \in [Procs -> Process] /\ proc'[n] = w
      /\ \A q \in Procs : q # n => proc'[q] = proc[q]
  BY <1>2, <1>4 DEF Spawn
<1>6. /\ op[e] = "starting" /\ op'[e] = "launching" /\ target'[e] = n
      /\ control'[e] = Cleared(control[e]) /\ owed'[e] = "nothing"
      /\ slots \in {NoOne, e} /\ slots' = e /\ procs' = n
      /\ UNCHANGED <<stage, status, kills, askedOf>>
  BY DEF Spawn, TypeOK
<1>7. Elsewhere(e)
  BY DEF Elsewhere, Spawn, TypeOK
<1>8. ~Alive(e) /\ Workers(e) = {} /\ \A p \in Procs : ~Holds(e, p)
  BY <1>1, <1>6, NobodyWorks DEF Local, SelfAt, DecidedAt
<1>9. TypeOK'
  <2>1. control' \in [Experiments -> [request : {"none", "pause", "stop"},
                                      restart : BOOLEAN]]
    BY DEF Spawn, TypeOK, Cleared, NoRequest
  <2> QED BY <1>2, <1>5, <2>1 DEF Spawn, TypeOK, Process, Ops
<1>10. StartedInv'
  BY <1>2, <1>3, <1>5 DEF StartedInv, Spawn, TypeOK, Procs
<1>11. SaidInv'
  BY <1>5 DEF SaidInv
<1>12. LockInv'
  BY <1>6, <1>7, LifecycleAssumption DEF LockInv, Elsewhere, NoOne
<1>13. ASSUME NEW f \in Experiments, f # e
       PROVE  Local(f)' /\ op[f] # "launching"
  <2>1. op[f] \notin {"signalling", "awaiting", "launching"} /\ owed[f] # "slot"
    <3>1. slots # f
      BY <1>6, <1>13, LifecycleAssumption DEF NoOne
    <3> QED BY <1>1, <3>1 DEF LockInv, Local, OwedAt
  <2>2. OwedAt(f)'
    BY <1>7, <1>13, <2>1 DEF Elsewhere, OwedAt
  <2>3. f # NoOne
    BY LifecycleAssumption DEF NoOne
  <2>4. \A q \in Procs : proc[q].exp = f \/ proc'[q].exp = f => proc'[q] = proc[q]
    BY <1>2, <1>5, <1>13, <2>3
  <2> QED BY <1>7, <1>13, <2>1, <2>2, <2>4, OtherStays
<1>14. Local(e)'
  <2>1. \A q \in Procs : Holds(e, q)' => q = n
    BY <1>5, <1>8 DEF Holds
  <2>2. status'[e].pid = status[e].pid /\ status[e].pid \in Procs \cup {NoOne}
    BY <1>6 DEF TypeOK
  <2>3. NamedAt(e)'
    BY <1>1, <1>2, <1>3, <1>5, <1>6, <2>2 DEF Local, SelfAt, NamedAt
  <2>4. SeenAt(e)' /\ DecidedAt(e)' /\ CountedAt(e)' /\ AbsentAt(e)'
    BY <1>1, <1>2, <1>6, <2>1
       DEF Local, SelfAt, SeenAt, DecidedAt, CountedAt, AbsentAt, NoOne, Procs
  <2>5. ~control'[e].restart
    BY <1>6 DEF Cleared, NoRequest
  <2>6. OwedAt(e)' /\ AskedAt(e)' /\ GhostAt(e)'
    BY <1>1, <1>6, <2>2, <2>5 DEF Local, OwedAt, AskedAt, GhostAt
  <2> QED BY <2>3, <2>4, <2>6 DEF Local, SelfAt
<1>15. LocalInv'
  <2>1. AllLocal'
    BY <1>13, <1>14 DEF AllLocal
  <2> QED BY <1>9, <1>10, <2>1, FromLocal, PTL
<1>16. WithinSlots'
  <2>1. Occupied \subseteq Running
    BY <1>6, <1>13, WorkersAreCounted
  <2>2. Running \subseteq Experiments /\ IsFiniteSet(Running)
    BY LifecycleAssumption, FS_Subset DEF Running
  <2>3. Cardinality(Occupied) <= Cardinality(Running) /\ Cardinality(Running) < Slots
    BY <2>1, <2>2, FS_Subset DEF Spawn, SlotFree
  <2>4. \A f \in Experiments : f # e => Workers(f)' = Workers(f)
    BY <1>2, <1>5, LifecycleAssumption DEF Workers, NoOne
  <2>5. Occupied' \subseteq Occupied \cup {e}
    BY <2>4 DEF Occupied
  <2>6. e \notin Occupied
    BY <1>8 DEF Occupied
  <2>7. /\ IsFiniteSet(Occupied \cup {e})
        /\ Cardinality(Occupied \cup {e}) = Cardinality(Occupied) + 1
    BY <2>6, OccupiedFinite, FS_AddElement
  <2>8. Cardinality(Occupied') <= Cardinality(Occupied) + 1 /\ Cardinality(Occupied') \in Nat
    BY <2>5, <2>7, FS_Subset, FS_CardinalityType
  <2> QED BY <2>2, <2>3, <2>8, OccupiedFinite, FS_CardinalityType, LifecycleAssumption
          DEF WithinSlots
<1> QED BY <1>9, <1>10, <1>11, <1>12, <1>15, <1>16 DEF LocalInv

-----------------------------------------------------------------------------
(* The theorems. *)

LEMMA InitHolds == Init => IInv
<1> SUFFICES ASSUME Init PROVE IInv
  OBVIOUS
<1>1. TypeOK
  BY TypeOnInit
<1>2. \A p \in Procs : proc[p].exp = NoOne /\ proc[p].pc = "none"
  BY DEF Init
<1>3. \A e \in Experiments :
         /\ status[e] = NoWorker("absent") /\ op[e] = "idle" /\ target[e] = NoOne
         /\ owed[e] = "nothing"
  BY DEF Init
<1>4. \A e \in Experiments : Workers(e) = {}
  BY <1>2 DEF Workers, Working
<1>5. StartedInv
  BY <1>2, LifecycleAssumption DEF StartedInv, Init, Procs
<1>6. NamedInv /\ SeenInv /\ DecidedInv /\ LockInv
  BY <1>2, <1>3
     DEF NoWorker, NamedInv, SeenInv, DecidedInv, LockInv, Holds, Holding, Working
<1>7. SaidInv /\ CountedInv /\ AbsentInv /\ OwedInv /\ AskedInv /\ GhostInv
  BY <1>2, <1>3
     DEF NoWorker, SaidInv, CountedInv, AbsentInv, OwedInv, AskedInv, GhostInv, Working
<1>8. WithinSlots
  <2>1. Occupied = {}
    BY <1>4 DEF Occupied
  <2> QED BY <2>1, FS_EmptySet, LifecycleAssumption DEF WithinSlots
<1> QED BY <1>1, <1>5, <1>6, <1>7, <1>8 DEF IInv

LEMMA StutterKeeps == IInv /\ UNCHANGED vars => IInv'
<1> SUFFICES ASSUME IInv, UNCHANGED vars PROVE IInv'
  OBVIOUS
<1> USE DEF vars, IInv
<1>1. TypeOK' /\ StartedInv' /\ NamedInv' /\ LockInv' /\ SaidInv' /\ AbsentInv'
  BY DEF TypeOK, StartedInv, NamedInv, LockInv, SaidInv, AbsentInv
<1>2. SeenInv' /\ CountedInv' /\ AskedInv' /\ DecidedInv'
  BY DEF SeenInv, CountedInv, AskedInv, DecidedInv, Holds, Alive
<1>3. \A e : Workers(e)' = Workers(e)
  BY DEF Workers
<1>4. Occupied' = Occupied
  BY <1>3 DEF Occupied
<1>5. WithinSlots' /\ OwedInv' /\ GhostInv'
  BY <1>3, <1>4 DEF WithinSlots, OwedInv, GhostInv, Alive
<1> QED BY <1>1, <1>2, <1>5

LEMMA NextKeeps == IInv /\ [Next]_vars => IInv'
<1> SUFFICES ASSUME IInv, [Next]_vars PROVE IInv'
  OBVIOUS
<1>1. ASSUME NEW e \in Experiments, Console(e)
      PROVE  IInv'
  BY <1>1, ResumeLooksKeeps, StartRefusedKeeps, SpawnKeeps, LaunchedKeeps,
     TerminateSeesExitKeeps, TerminateForcesKeeps, RestartLocksKeeps,
     RestartSignalsKeeps, RestartSeesExitKeeps, RestartForcesKeeps DEF Console
<1>2. ASSUME NEW e \in Experiments, Operator(e)
      PROVE  IInv'
  BY <1>2, CreateKeeps, RequestKeeps, ResumeKeeps, TerminateKeeps,
     RestartDeferredKeeps, RestartKeeps, DeleteKeeps DEF Operator
<1>3. ASSUME NEW p \in Procs, WorkerStep(p)
      PROVE  IInv'
  BY <1>3, WorkerKeeps
<1>4. CASE UNCHANGED vars
  BY <1>4, StutterKeeps
<1> QED BY <1>1, <1>2, <1>3, <1>4 DEF Next, WorkerStep

\* The invariant holds of every reachable state: WithinSlots among its parts,
\* the rest what OneWorker and the others follow from.
THEOREM Invariance == Spec => []IInv
  BY InitHolds, NextKeeps, PTL DEF Spec

\* Every variable keeps the range it is declared with, and "interrupted" is
\* never written.
THEOREM TypeCorrect == Spec => []TypeOK
<1>1. IInv => TypeOK
  BY DEF IInv
<1> QED BY <1>1, Invariance, PTL

\* Two workers never run one experiment (start_worker, _restart): a start is
\* decided only while nobody is seen, and whoever may still write its pid is.
THEOREM OneWorkerAlways == Spec => []OneWorker
<1>1. IInv => OneWorker
  <2> SUFFICES ASSUME IInv, NEW e \in Experiments
               PROVE  Cardinality(Workers(e)) <= 1
    BY DEF OneWorker
  <2>1. ASSUME NEW p \in Workers(e), NEW q \in Workers(e)
        PROVE  p = q
    BY <2>1, WorkerHolds DEF IInv, SeenInv
  <2>2. CASE Workers(e) = {}
    BY <2>2, FS_EmptySet
  <2>3. CASE Workers(e) # {}
    <3>1. PICK p \in Workers(e) : TRUE
      BY <2>3
    <3>2. Workers(e) = {p}
      BY <2>1, <3>1
    <3>3. Cardinality({p}) = 1
      BY FS_Singleton
    <3> QED BY <3>2, <3>3
  <2> QED BY <2>2, <2>3
<1> QED BY <1>1, Invariance, PTL

\* The running-experiment limit counts every worker that can still work, those
\* being started and those being terminated included (_require_running_slot).
THEOREM WithinSlotsAlways == Spec => []WithinSlots
<1>1. IInv => WithinSlots
  BY DEF IInv
<1> QED BY <1>1, Invariance, PTL

\* A restart gives its worker's slot to nobody (_restart).
THEOREM RestartKeepsSlotAlways == Spec => []RestartKeepsSlot
<1>1. IInv => RestartKeepsSlot
  <2> SUFFICES ASSUME IInv, NEW e \in Experiments, op[e] = "starting", owed[e] = "slot"
               PROVE  ~WorkerLive(e) /\ Cardinality(Occupied) < Slots
    BY DEF RestartKeepsSlot
  <2> USE DEF IInv
  <2>1. ~Alive(e) /\ Cardinality(Occupied \ {e}) < Slots
    BY DEF DecidedInv, OwedInv
  <2>2. Workers(e) = {}
    BY <2>1, NobodyWorks
  <2>3. Occupied \ {e} = Occupied
    BY <2>2 DEF Occupied
  <2> QED BY <2>1, <2>3 DEF WorkerLive
<1> QED BY <1>1, Invariance, PTL

\* A worker that has reported is the live one the console sees, whoever wrote
\* the status last (status_pid_alive).
THEOREM LiveIsSeenAlways == Spec => []LiveIsSeen
<1>1. IInv => LiveIsSeen
  <2> SUFFICES ASSUME IInv, NEW p \in Procs, proc[p].pc \in Working \ {"spawned"},
                      op[proc[p].exp] # "launching"
               PROVE  Alive(proc[p].exp) /\ status[proc[p].exp].pid = p
    BY DEF LiveIsSeen
  <2>1. proc[p].exp \in Experiments
    BY LiveIsOwned DEF IInv, Working
  <2> QED BY <2>1, HolderIsSeen DEF IInv, Holds, Holding
<1> QED BY <1>1, Invariance, PTL

\* A status says that a session runs only while there is a worker, unless one
\* was killed by nobody the console knows, or by a restart that was then refused
\* its slot (the entrypoint's SIGTERM branch, terminate).
THEOREM NoGhostSessionAlways == Spec => []NoGhostSession
<1>1. IInv => NoGhostSession
  <2> SUFFICES ASSUME IInv, NEW e \in Experiments, kills = 0, op[e] = "idle",
                      NoProcess(e), owed[e] # "broken",
                      status[e].state = "running_session"
               PROVE  FALSE
    BY DEF NoGhostSession
  <2> DEFINE p == status[e].pid
  <2>1. p # NoOne /\ proc[p].pc \in InSession
    BY DEF IInv, GhostInv
  <2>2. p \in Procs /\ proc[p].exp = e
    BY <2>1 DEF IInv, TypeOK, NamedInv
  <2> QED BY <2>1, <2>2 DEF NoProcess, InSession, Exited
<1> QED BY <1>1, Invariance, PTL

\* Only a restart that the control file holds re-executes a worker.
LEMMA ExecIsAsked ==
    ASSUME TypeOK, StartedInv, NEW p \in Procs, Worker(p) \/ Signalled(p) \/ Kill(p),
           proc'[p].pc = "exec", proc[p].pc # "exec"
    PROVE  control[proc[p].exp].restart /\ proc[p].pc \in Working
<1>1. ASSUME NEW x \in PCs \ {"exec"}, GoTo(p, x)
      PROVE  FALSE
  BY <1>1, GoToWrites
<1>2. ASSUME NEW x \in PCs \ {"exec"}, NEW s, Report(p, x, s)
      PROVE  FALSE
  <2>1. /\ proc' = [proc EXCEPT ![p] = [proc[p] EXCEPT !.pc = x, !.said = s]]
        /\ proc \in [Procs -> Process]
    BY <1>2 DEF Report, TypeOK, Process
  <2>2. proc'[p].pc = x
    BY <2>1 DEF Process
  <2> QED BY <2>2
<1>3. ASSUME Dies(p)
      PROVE  FALSE
  BY <1>3, DeathWrites
<1>4. CASE Gate(p) \/ Boundary(p)
  BY <1>1, <1>2, <1>4 DEF Gate, Boundary, At, PCs, Working
<1>5. CASE Signalled(p)
  <2>1. CASE proc' = [proc EXCEPT ![p].pc = "leaving", ![p].sig = FALSE]
    <3>1. /\ proc' = [proc EXCEPT ![p] = [proc[p] EXCEPT !.pc = "leaving", !.sig = FALSE]]
          /\ proc \in [Procs -> Process]
      BY <2>1 DEF TypeOK, Process
    <3>2. proc'[p].pc = "leaving"
      BY <3>1 DEF Process
    <3> QED BY <3>2
  <2> QED BY <1>3, <1>5, <2>1 DEF Signalled
<1> QED BY <1>1, <1>2, <1>3, <1>4, <1>5
       DEF Worker, Boot, Load, Recover, SessionEnds, Exec, Fail, ReportFailure, Return,
           Exit, Kill, PCs, Working

LEMMA ConsoleNeverExecs ==
    ASSUME TypeOK, NEW e \in Experiments, Console(e) \/ Operator(e), NEW q \in Procs,
           proc'[q].pc = "exec"
    PROVE  proc[q].pc = "exec"
<1>1. proc \in [Procs -> Process]
  BY DEF TypeOK, Process
<1>2. CASE UNCHANGED proc
  BY <1>2
<1>3. ASSUME NEW x, proc' = [proc EXCEPT ![x].sig = TRUE]
      PROVE  proc[q].pc = "exec"
  <2>1. proc' = [proc EXCEPT ![x] = [proc[x] EXCEPT !.sig = TRUE]]
    BY <1>3
  <2>2. proc'[q].pc = proc[q].pc
    BY <1>1, <2>1 DEF Process
  <2> QED BY <2>2
<1>4. ASSUME NEW x, proc' = [proc EXCEPT ![x] = Corpse(@)]
      PROVE  proc[q].pc = "exec"
  <2>1. proc'[q] = IF q = x THEN Corpse(proc[q]) ELSE proc[q]
    BY <1>1, <1>4
  <2>2. Corpse(proc[q]).pc = "dead"
    BY <1>1 DEF Corpse, Process
  <2> QED BY <2>1, <2>2
<1>5. CASE Spawn(e)
  BY <1>1, <1>5 DEF Spawn
<1> QED BY <1>2, <1>3, <1>4, <1>5
       DEF Console, Operator, ResumeLooks, StartRefused, Launched, TerminateSeesExit,
           TerminateForces, RestartLocks, RestartSignals, RestartSeesExit, RestartForces,
           Create, Request, Resume, Terminate, RestartDeferred, Restart, Delete

\* A deferred restart is taken by the worker it was asked of, not by the next one
\* (start_worker clears what was meant for the worker before).
THEOREM RestartOfItsOwnAlways == Spec => RestartOfItsOwn
<1> DEFINE Own == \A e \in Experiments, p \in Procs :
          proc[p].exp = e /\ proc'[p].pc = "exec" /\ proc[p].pc # "exec"
              => askedOf[e] = p
<1>1. IInv /\ [Next]_vars => [Own]_vars
  <2> SUFFICES ASSUME IInv, Next, NEW e \in Experiments, NEW p \in Procs,
                      proc[p].exp = e, proc'[p].pc = "exec", proc[p].pc # "exec"
               PROVE  askedOf[e] = p
    OBVIOUS
  <2> USE DEF IInv
  <2>1. ASSUME NEW f \in Experiments, Console(f) \/ Operator(f)
        PROVE  FALSE
    BY <2>1, ConsoleNeverExecs
  <2>2. ASSUME NEW q \in Procs, WorkerStep(q)
        PROVE  askedOf[e] = p
    <3>1. q = p
      BY <2>2, WorkerMoves DEF Moved, OthersKept
    <3>2. ~Heartbeat(p)
      BY DEF Heartbeat
    <3>3. control[e].restart /\ proc[p].pc \in Working
      BY <2>2, <3>1, <3>2, ExecIsAsked DEF WorkerStep
    <3> QED BY <3>3 DEF AskedInv
  <2> QED BY <2>1, <2>2 DEF Next, WorkerStep
<1> QED BY <1>1, Invariance, PTL DEF Spec, RestartOfItsOwn
================================================================================
