------------------------------- MODULE RawLake -------------------------------
(* The raw lake and the research releases cut from it: the updater's jobs and the
   operator's commands under the updater lock (cron_update.py, lake.py), the versioned
   write path of one partition (versions.py, io.py), the generation record, and the
   pins and the retention of releases (environment/data/research_release.py).

   A job, a pin and a retention are processes; any of them may be killed between two
   writes.  `job` is whoever holds the updater lock exclusively, `shared` the pins that
   hold it shared, `registry` the holder of the registry lock. *)
EXTENDS LakePartition

CONSTANTS Experiments,   \* what pins a release: an experiment, a Paper cache
          NoOne,         \* holder of a free lock
          Answers,       \* bound: what the vendor answers
          MaxClock,      \* bound: commit instants
          MaxGen,        \* bound: generations
          MaxJobs,       \* bound: jobs and retentions
          MaxKills       \* bound: killed processes

ASSUME LakeAssumption ==
    /\ MaxClock \in Nat /\ MaxGen \in Nat /\ MaxJobs \in Nat /\ MaxKills \in Nat
    /\ Answers \subseteq Contents
    /\ NoOne \notin Experiments \cup {"retention"} /\ "retention" \notin Experiments

VARIABLES part,       \* the partition
          clock,      \* the last commit instant
          record,     \* the generation record: [state, gen]
          job,        \* the process under the exclusive updater lock
          shared,     \* pins under the shared updater lock
          registry,   \* holder of the registry lock
          releases,   \* the generations with a release (its files never change)
          pin,        \* experiment -> pinned generation, 0 if none
          ended,      \* experiments that are over
          pinning,    \* experiment -> its pin in progress: [pc, gen]
          jobs, kills,
          shown,      \* every pair that was ever visible
          truth,      \* key -> when it first became visible, Never before versioning
          committed,  \* what the lake showed when its newest generation was committed
          rebuilt     \* whether the observation table was ever rebuilt

vars == <<part, clock, record, job, shared, registry, releases, pin, ended, pinning,
          jobs, kills, shown, truth, committed, rebuilt>>
ghosts == <<shown, truth, committed, rebuilt>>
readers == <<shared, registry, releases, pin, ended, pinning>>

Idle == [pc |-> "idle"]
Unpinning == [pc |-> "idle", gen |-> 0]
NoWrite == [rows |-> NoRows, wid |-> Never, since |-> Never]

\* A fresh lake, or one whose partition was there before versioning.
Init ==
    /\ part \in {Partition(NoRows, Never)} \cup
                {Partition(rows, 1) : rows \in Answers \ {NoRows}}
    /\ clock = 1
    /\ record = [state |-> "committed", gen |-> 1]
    /\ job = Idle
    /\ shared = {} /\ registry = NoOne /\ releases = {}
    /\ pin = [e \in Experiments |-> 0]
    /\ ended = {}
    /\ pinning = [e \in Experiments |-> Unpinning]
    /\ jobs = 0 /\ kills = 0
    /\ shown = Pairs(part.rows)
    /\ truth = [k \in DOMAIN part.rows |-> Never]
    /\ committed = View(part)
    /\ rebuilt = FALSE

---------------------------------------------------------------------------------
(* Jobs: a lock, a sweep, the record marked `updating`, writes, the record again. *)

UpdaterFree == job = Idle /\ shared = {}

Begin(kind) ==
    /\ UpdaterFree /\ jobs < MaxJobs
    /\ part' = Sweep(part)
    /\ record' = [record EXCEPT !.state = "updating"]
    /\ job' = [pc |-> "work", kind |-> kind, previous |-> record, wrote |-> FALSE,
               write |-> NoWrite]
    /\ jobs' = jobs + 1
    /\ UNCHANGED <<clock, kills, readers, ghosts>>

\* versions.publish up to its first write: most outcomes of a vendor answer end here.
Publish(new, truncated) ==
    LET p == Complete(part)
        outcome == Outcome(p, new, truncated)
        at == clock + 1
        At(pc) == [job EXCEPT !.pc = pc, !.write = [rows |-> new, wid |-> at, since |-> at]]
    IN  /\ job.pc = "work" /\ job.kind = "update" /\ clock < MaxClock
        /\ outcome \notin {"defect", "unchanged"}
        /\ ~ (outcome = "staged" /\ AlreadyStaged(p, new))
        /\ part' = p
        /\ clock' = at
        /\ job' = At(CASE outcome = "staged" -> "stage_rows"
                       [] outcome = "restated" -> "keep_rows"
                       [] OTHER -> "observe")
        /\ UNCHANGED <<record, readers, jobs, kills, ghosts>>

\* versions.restore: a kept version, complete with its sidecar, made visible again.
Restore(i) ==
    LET p == Complete(part)
        v == p.versions[i]
    IN  /\ job.pc = "work" /\ job.kind = "operator" /\ clock < MaxClock
        /\ v.paired
        /\ part' = p
        /\ clock' = clock + 1
        /\ job' = [job EXCEPT !.pc = IF Exists(p) THEN "keep_rows" ELSE "observe",
                              !.write = [rows |-> v.rows, wid |-> v.wid, since |-> clock + 1]]
        /\ UNCHANGED <<record, readers, jobs, kills, ghosts>>

\* versions.rebuild_observations; a version without a sidecar stops it.
Rebuild ==
    /\ job.pc = "work" /\ job.kind = "operator" /\ Exists(part)
    /\ \A i \in Superseded(part) : part.versions[i].paired
    /\ part' = Rebuilt(part)
    /\ rebuilt' = TRUE
    /\ job' = [job EXCEPT !.pc = "done", !.wrote = TRUE]
    /\ UNCHANGED <<clock, record, readers, jobs, kills, shown, truth, committed>>

\* One write of a commit in progress.
Write(from, to, p) ==
    /\ job.pc = from
    /\ part' = p
    /\ job' = [job EXCEPT !.pc = to, !.wrote = TRUE]
    /\ UNCHANGED <<clock, record, readers, jobs, kills, committed, rebuilt>>

AfterCommit == IF job.kind = "operator" THEN "done" ELSE "work"

StageVersion == Write("stage_rows", "pair_staged", StageRows(part, job.write.rows, job.write.wid))
                /\ UNCHANGED <<shown, truth>>
PairStaged == Write("pair_staged", "work", PairVersion(part)) /\ UNCHANGED <<shown, truth>>
KeepVersion == Write("keep_rows", "pair_kept", KeepRows(part)) /\ UNCHANGED <<shown, truth>>
PairKept == Write("pair_kept", "observe", PairVersion(part)) /\ UNCHANGED <<shown, truth>>
\* A table that cannot be read raises: the job goes on to its end without the write.
Observe ==
    /\ IF Unreadable(part)
       THEN Write("observe", "done", part)
       ELSE Write("observe", "sidecar", Record(part, job.write.rows, job.write.since))
    /\ UNCHANGED <<shown, truth>>
Stage == Write("sidecar", "rows", StageSidecar(part, job.write)) /\ UNCHANGED <<shown, truth>>
Show ==
    /\ Write("rows", "rename_sidecar", RenameRows(part, job.write))
    /\ shown' = shown \cup Pairs(job.write.rows)
    /\ truth' = [k \in DOMAIN truth \cup DOMAIN job.write.rows |->
                    IF k \in DOMAIN truth THEN truth[k] ELSE job.write.since]
CommitSidecar == Write("rename_sidecar", AfterCommit, RenameSidecar(part, job.write))
                 /\ UNCHANGED <<shown, truth>>

Writing == \/ StageVersion \/ PairStaged \/ KeepVersion \/ PairKept
           \/ Observe \/ Stage \/ Show \/ CommitSidecar

\* A job that wrote nothing may vouch for it (exit 75 or 77); an operator's never does.
\* The old identity is restored only over a record that was committed.
MutantNewIdentity(previous, vouched) == ~ vouched
NewIdentity(previous, vouched) == ~ vouched \/ previous.state # "committed"
Finish(vouched) ==
    /\ job.pc \in {"work", "done"}
    /\ vouched => ~ job.wrote /\ job.kind = "update"
    /\ record' = [state |-> "committed",
                  gen |-> IF NewIdentity(job.previous, vouched) THEN job.previous.gen + 1
                          ELSE job.previous.gen]
    /\ record'.gen <= MaxGen
    /\ committed' = IF record'.gen = record.gen THEN committed ELSE View(part)
    /\ job' = Idle
    /\ UNCHANGED <<part, clock, readers, jobs, kills, shown, truth, rebuilt>>

Job == \/ \E kind \in {"update", "operator"} : Begin(kind)
       \/ \E new \in Answers, truncated \in BOOLEAN : Publish(new, truncated)
       \/ \E i \in DOMAIN part.versions : Restore(i)
       \/ Rebuild
       \/ Writing
       \/ \E vouched \in BOOLEAN : Finish(vouched)

---------------------------------------------------------------------------------
(* Pins: the newest generation under the shared updater lock, else an existing release
   under the registry lock. *)

SetPin(e, pc, gen) == pinning' = [pinning EXCEPT ![e] = [pc |-> pc, gen |-> gen]]

\* The newest generation is pinned only if it is committed and the updater lock is free;
\* otherwise, or when the experiment names its release, one that exists is.
OpenPin(e) ==
    /\ pinning[e].pc = "idle" /\ pin[e] = 0 /\ e \notin ended
    /\ \/ /\ job = Idle /\ record.state = "committed"
          /\ SetPin(e, "newest", record.gen)
          /\ shared' = shared \cup {e}
       \/ SetPin(e, "existing", 0) /\ UNCHANGED shared
    /\ UNCHANGED <<part, clock, record, job, registry, releases, pin, ended, jobs, kills, ghosts>>

\* Its release is in the registry, or is cut from the swept lake now.
CutRelease(e) ==
    LET g == pinning[e].gen
    IN  /\ pinning[e].pc = "newest" /\ registry = NoOne
        /\ part' = IF g \in releases THEN part ELSE Sweep(part)
        /\ releases' = releases \cup {g}
        /\ SetPin(e, "record", g)
        /\ UNCHANGED <<clock, record, job, shared, registry, pin, ended, jobs, kills, ghosts>>

\* A named release, the observed generation's, or the newest that covers the datasets.
MutantRegistryOf(e) == NoOne
RegistryOf(e) == e
SelectRelease(e) ==
    /\ pinning[e].pc = "existing" /\ registry = NoOne
    /\ IF releases = {}
       THEN SetPin(e, "idle", 0) /\ UNCHANGED registry
       ELSE /\ \E g \in releases : SetPin(e, "record", g)
            /\ registry' = RegistryOf(e)
    /\ UNCHANGED <<part, clock, record, job, shared, releases, pin, ended, jobs, kills, ghosts>>

Unlock(e) ==
    /\ shared' = shared \ {e}
    /\ registry' = IF registry = e THEN NoOne ELSE registry

RecordPin(e) ==
    /\ pinning[e].pc = "record"
    /\ pin' = [pin EXCEPT ![e] = pinning[e].gen]
    /\ pinning' = [pinning EXCEPT ![e] = Unpinning]
    /\ Unlock(e)
    /\ UNCHANGED <<part, clock, record, job, releases, ended, jobs, kills, ghosts>>

End(e) ==
    /\ pin[e] # 0 /\ e \notin ended
    /\ ended' = ended \cup {e}
    /\ UNCHANGED <<part, clock, record, job, shared, registry, releases, pin, pinning, jobs,
                   kills, ghosts>>

Pin == \E e \in Experiments : \/ OpenPin(e) \/ CutRelease(e) \/ SelectRelease(e)
                              \/ RecordPin(e) \/ End(e)

---------------------------------------------------------------------------------
(* Retention: what nobody reads any more, under the updater and the registry lock. *)

Consumers == {record.gen} \cup {pin[e] : e \in Experiments \ ended}

OpenRetention ==
    /\ UpdaterFree /\ jobs < MaxJobs
    /\ job' = [pc |-> "consumers"]
    /\ jobs' = jobs + 1
    /\ UNCHANGED <<part, clock, record, readers, kills, ghosts>>

ReadConsumers ==
    /\ job.pc = "consumers" /\ registry = NoOne
    /\ registry' = "retention"
    /\ job' = [pc |-> "retire", kept |-> Consumers]
    /\ UNCHANGED <<part, clock, record, shared, releases, pin, ended, pinning, jobs, kills, ghosts>>

Retire ==
    /\ job.pc = "retire"
    /\ \E g \in releases \ job.kept : releases' = releases \ {g}
    /\ UNCHANGED <<part, clock, record, job, shared, registry, pin, ended, pinning, jobs, kills,
                   ghosts>>

CloseRetention ==
    /\ job.pc = "retire" /\ releases \subseteq job.kept
    /\ job' = Idle
    /\ registry' = NoOne
    /\ UNCHANGED <<part, clock, record, shared, releases, pin, ended, pinning, jobs, kills, ghosts>>

Retention == OpenRetention \/ ReadConsumers \/ Retire \/ CloseRetention

---------------------------------------------------------------------------------
(* A kill: locks go with their process, files stay. *)

KillJob ==
    /\ job # Idle
    /\ job' = Idle
    /\ registry' = IF registry = "retention" THEN NoOne ELSE registry
    /\ UNCHANGED <<part, clock, record, shared, releases, pin, ended, pinning, jobs, ghosts>>
KillPin(e) ==
    /\ pinning[e].pc # "idle"
    /\ pinning' = [pinning EXCEPT ![e] = Unpinning]
    /\ Unlock(e)
    /\ UNCHANGED <<part, clock, record, job, releases, pin, ended, jobs, ghosts>>
Kill ==
    /\ kills < MaxKills
    /\ kills' = kills + 1
    /\ KillJob \/ \E e \in Experiments : KillPin(e)

Next == Job \/ Pin \/ Retention \/ Kill
Spec == Init /\ [][Next]_vars

---------------------------------------------------------------------------------
TypeOK ==
    /\ part.rows \in Contents /\ part.wid \in 0..clock
    /\ part.side \in [wid : 0..clock, since : 0..clock]
    /\ part.staged \subseteq [wid : 0..clock, since : 0..clock]
    /\ DOMAIN part.obs \subseteq Keys /\ \A k \in DOMAIN part.obs : part.obs[k] \in 1..clock
    /\ clock \in 1..MaxClock
    /\ record \in [state : {"committed", "updating"}, gen : 1..MaxGen]
    /\ releases \subseteq 1..record.gen
    /\ pin \in [Experiments -> 0..MaxGen]
    /\ registry \in Experiments \cup {"retention", NoOne}
    /\ shared # {} => job = Idle

(* A partition is the visible pair and its versions: whatever was once visible is
   visible still or kept in a version that can be restored (versions.py:8-14), whenever
   the writer dies. *)
NothingLost ==
    shown \subseteq Pairs(part.rows) \cup
                    UNION {Pairs(part.versions[i].rows) :
                              i \in {j \in DOMAIN part.versions : part.versions[j].paired}}

(* No reader is shown a key before the lake held it, and, unless an operator rebuilt the
   table, none later either (versions.py:29-44, pit.py:178-184): in every generation a
   key that became visible after versioning began carries the instant it did, whatever
   rows the writes that died in between left in the table. *)
FirstSeenTrue ==
    \A k \in DOMAIN committed.rows :
        truth[k] # Never =>
            /\ k \in DOMAIN committed.seen
            /\ IF rebuilt THEN committed.seen[k] >= truth[k] ELSE committed.seen[k] = truth[k]

(* One generation id, one content: a release shows exactly what the lake showed when its
   generation was committed (cron_update.py:804-812, research_release.py:1-9), although
   it is cut later, between jobs that died, jobs that changed nothing, and sweeps. *)
ReleaseIsCommitted == [][releases' \subseteq releases \/ View(part') = committed]_vars

(* A release an open experiment has pinned is never retired, whichever way it was pinned
   (research_release.py:11-16). *)
PinnedReleaseKept ==
    \A e \in Experiments \ ended : pin[e] # 0 => pin[e] \in releases
=================================================================================
