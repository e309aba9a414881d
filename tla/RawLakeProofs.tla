----------------------------- MODULE RawLakeProofs -----------------------------
(***************************************************************************)
(* Theorems about RawLake, for any keys, values, vendor answers,           *)
(* experiments, jobs and kills: a pinned release is never retired, a       *)
(* release shows what its generation committed, nothing that was ever      *)
(* visible is lost, and a generation dates the first sight of its rows.    *)
(***************************************************************************)
EXTENDS RawLake, WellFoundedInduction, TLAPS

-----------------------------------------------------------------------------
(* Shapes: what the files and the processes look like.                      *)

Era == [wid : Nat, since : Nat]
KeptVersion == [kind : {"superseded", "staged"}, rows : Contents, wid : Nat,
                since : Nat, paired : BOOLEAN]
\* The observation table is left open: what it holds is not looked at here.
PartOK(p) ==
    /\ p = [rows |-> p.rows, wid |-> p.wid, side |-> p.side, staged |-> p.staged,
            obs |-> p.obs, versions |-> p.versions]
    /\ p.rows \in Contents /\ p.wid \in Nat /\ p.side \in Era
    /\ p.staged \subseteq Era /\ p.versions \in Seq(KeptVersion)

\* Between a commit's decision and its last write.
Committing == {"stage_rows", "pair_staged", "keep_rows", "pair_kept", "observe",
               "sidecar", "rows", "rename_sidecar"}
WorkPCs == Committing \cup {"work", "done"}
WriteJob == [pc : WorkPCs, kind : {"update", "operator"},
             previous : [state : {"committed", "updating"}, gen : Nat],
             wrote : BOOLEAN, write : [rows : Contents, wid : Nat, since : Nat]]
JobOK == \/ job = Idle
         \/ job = [pc |-> "consumers"]
         \/ job \in [pc : {"retire"}, kept : SUBSET Nat]
         \/ job \in WriteJob

Shapes ==
    /\ PartOK(part) /\ clock \in Nat /\ JobOK
    /\ record \in [state : {"committed", "updating"}, gen : Nat]
    /\ releases \subseteq Nat
    /\ pin \in [Experiments -> Nat]
    /\ pinning \in [Experiments -> [pc : {"idle", "newest", "existing", "record"},
                                    gen : Nat]]

LEMMA JobShapes ==
    JobOK => /\ job.pc \in WorkPCs => job \in WriteJob
             /\ job.pc \in WorkPCs \cup {"idle", "consumers", "retire"}
             /\ job.pc = "retire" => job \in [pc : {"retire"}, kept : SUBSET Nat]
             /\ job = Idle <=> job.pc = "idle"
  BY DEF JobOK, Idle, WriteJob, WorkPCs, Committing

LEMMA EmptyRows == NoRows \in Contents
<1>1. NoRows \in [{} -> Values]
  BY DEF NoRows
<1> QED BY <1>1 DEF Contents

-----------------------------------------------------------------------------
(* What the write path's operators leave alone.                             *)

LEMMA CompleteLeaves ==
    ASSUME NEW p, PartOK(p)
    PROVE  /\ PartOK(Complete(p))
           /\ Complete(p).rows = p.rows /\ Complete(p).wid = p.wid
           /\ Complete(p).obs = p.obs /\ Complete(p).versions = p.versions
           /\ Complete(p).staged \subseteq p.staged
           /\ p.staged = {} => Complete(p) = p
<1> DEFINE own == {s \in p.staged : s.wid = p.wid}
<1>1. CASE Exists(p) /\ ~ Intact(p) /\ own # {}
  <2> DEFINE s == CHOOSE x \in own : TRUE
  <2>1. s \in own
    BY <1>1
  <2>2. Complete(p) = [p EXCEPT !.side = s, !.staged = @ \ own]
    BY <1>1 DEF Complete
  <2> HIDE DEF s
  <2>3. Complete(p) = [rows |-> p.rows, wid |-> p.wid, side |-> s,
                       staged |-> p.staged \ own, obs |-> p.obs,
                       versions |-> p.versions]
    BY <2>2 DEF PartOK
  <2>4. s \in Era
    BY <2>1 DEF PartOK
  <2>5. p.staged # {}
    BY <2>1
  <2> HIDE DEF own
  <2> QED BY <2>3, <2>4, <2>5 DEF PartOK
<1>2. CASE ~ (Exists(p) /\ ~ Intact(p) /\ own # {})
  <2>1. Complete(p) = p
    BY <1>2 DEF Complete
  <2> QED BY <2>1
<1> QED BY <1>1, <1>2

LEMMA SweepLeaves ==
    ASSUME NEW p, PartOK(p)
    PROVE  /\ PartOK(Sweep(p))
           /\ Sweep(p).rows = p.rows /\ Sweep(p).wid = p.wid
           /\ Sweep(p).obs = p.obs /\ Sweep(p).versions = p.versions
           /\ Sweep(p).staged = {}
           /\ p.staged = {} => Sweep(p) = p
<1> DEFINE c == Complete(p)
<1>1. /\ PartOK(c) /\ c.rows = p.rows /\ c.wid = p.wid /\ c.obs = p.obs
      /\ c.versions = p.versions /\ (p.staged = {} => c = p)
  BY CompleteLeaves
<1>2. Sweep(p) = [c EXCEPT !.staged = {}]
  BY DEF Sweep
<1> HIDE DEF c
<1>3. Sweep(p) = [rows |-> c.rows, wid |-> c.wid, side |-> c.side, staged |-> {},
                  obs |-> c.obs, versions |-> c.versions]
  BY <1>1, <1>2 DEF PartOK
<1>4. p.staged = {} => Sweep(p) = p
  BY <1>1, <1>3 DEF PartOK
<1> QED BY <1>1, <1>3, <1>4 DEF PartOK

LEMMA RecordLeaves ==
    ASSUME NEW p, PartOK(p), NEW new, NEW at
    PROVE  /\ PartOK(Record(p, new, at))
           /\ Record(p, new, at).rows = p.rows /\ Record(p, new, at).wid = p.wid
           /\ Record(p, new, at).versions = p.versions
           /\ Record(p, new, at).staged = p.staged
           /\ Record(p, new, at).side = p.side
<1>1. PICK o : Record(p, new, at) = [p EXCEPT !.obs = o]
  BY DEF Record
<1>2. Record(p, new, at) = [rows |-> p.rows, wid |-> p.wid, side |-> p.side,
          staged |-> p.staged, obs |-> o, versions |-> p.versions]
  BY <1>1 DEF PartOK
<1> QED BY <1>2 DEF PartOK

LEMMA RebuiltLeaves ==
    ASSUME NEW p, PartOK(p)
    PROVE  /\ PartOK(Rebuilt(p))
           /\ Rebuilt(p).rows = p.rows /\ Rebuilt(p).wid = p.wid
           /\ Rebuilt(p).versions = p.versions /\ Rebuilt(p).staged = p.staged
           /\ Rebuilt(p).side = p.side
<1>1. PICK o : Rebuilt(p) = [p EXCEPT !.obs = o]
  BY Zenon DEF Rebuilt
<1>2. Rebuilt(p) = [rows |-> p.rows, wid |-> p.wid, side |-> p.side,
          staged |-> p.staged, obs |-> o, versions |-> p.versions]
  BY <1>1 DEF PartOK
<1> QED BY <1>2 DEF PartOK

\* A version is appended without its sidecar, or its sidecar follows.
LEMMA VersionsKept ==
    ASSUME NEW p, PartOK(p), NEW v \in KeptVersion
    PROVE  LET q == [p EXCEPT !.versions = Append(@, v)]
           IN  /\ PartOK(q) /\ q.rows = p.rows /\ q.wid = p.wid
               /\ q.staged = p.staged /\ q.versions = Append(p.versions, v)
               /\ q.side = p.side /\ q.obs = p.obs
<1> DEFINE q == [p EXCEPT !.versions = Append(@, v)]
<1> DEFINE w == Append(p.versions, v)
<1>0. q = [p EXCEPT !.versions = w]
  OBVIOUS
<1> HIDE DEF w
<1>1. q = [rows |-> p.rows, wid |-> p.wid, side |-> p.side, staged |-> p.staged,
           obs |-> p.obs, versions |-> w]
  BY <1>0 DEF PartOK
<1>2. w \in Seq(KeptVersion) /\ w = Append(p.versions, v)
  BY DEF PartOK, w
<1> HIDE DEF q
<1>3. /\ PartOK(q) /\ q.rows = p.rows /\ q.wid = p.wid
      /\ q.staged = p.staged /\ q.versions = Append(p.versions, v)
      /\ q.side = p.side /\ q.obs = p.obs
  BY <1>1, <1>2 DEF PartOK
<1> QED BY <1>3 DEF q

LEMMA VersionPaired ==
    ASSUME NEW p, PartOK(p), Len(p.versions) > 0
    PROVE  /\ PartOK(PairVersion(p)) /\ PairVersion(p).rows = p.rows
           /\ PairVersion(p).wid = p.wid /\ PairVersion(p).staged = p.staged
           /\ PairVersion(p).side = p.side /\ PairVersion(p).obs = p.obs
           /\ Len(PairVersion(p).versions) = Len(p.versions)
           /\ DOMAIN PairVersion(p).versions = DOMAIN p.versions
           /\ \A i \in DOMAIN p.versions :
                /\ PairVersion(p).versions[i].rows = p.versions[i].rows
                /\ PairVersion(p).versions[i].wid = p.versions[i].wid
                /\ PairVersion(p).versions[i].kind = p.versions[i].kind
                /\ PairVersion(p).versions[i].since = p.versions[i].since
           /\ \A i \in DOMAIN p.versions :
                PairVersion(p).versions[i].paired
                  = (p.versions[i].paired \/ i = Len(p.versions))
<1> DEFINE n == Len(p.versions)
<1> DEFINE v == p.versions[n]
<1> DEFINE paired == [kind |-> v.kind, rows |-> v.rows, wid |-> v.wid,
                      since |-> v.since, paired |-> TRUE]
<1> DEFINE vs == [p.versions EXCEPT ![n] = paired]
<1>1. p.versions \in Seq(KeptVersion) /\ n \in Nat /\ n \in DOMAIN p.versions
      /\ DOMAIN p.versions = 1 .. n /\ v \in KeptVersion
  BY DEF PartOK
<1>2. [v EXCEPT !.paired = TRUE] = paired /\ paired \in KeptVersion
  <2>1. v = [kind |-> v.kind, rows |-> v.rows, wid |-> v.wid, since |-> v.since,
             paired |-> v.paired]
    BY <1>1 DEF KeptVersion
  <2> HIDE DEF v
  <2>2. [v EXCEPT !.paired = TRUE] = paired
    <3>1. ASSUME NEW x
          PROVE  [v EXCEPT !.paired = x]
                   = [kind |-> v.kind, rows |-> v.rows, wid |-> v.wid,
                      since |-> v.since, paired |-> x]
      BY <2>1
    <3>2. [v EXCEPT !.paired = TRUE]
            = [kind |-> v.kind, rows |-> v.rows, wid |-> v.wid,
               since |-> v.since, paired |-> TRUE]
      BY <3>1, Zenon
    <3> QED BY <3>2
  <2>3. /\ v.kind \in {"superseded", "staged"} /\ v.rows \in Contents
        /\ v.wid \in Nat /\ v.since \in Nat
    BY <1>1 DEF KeptVersion
  <2>4. paired \in KeptVersion
    BY <2>3 DEF KeptVersion
  <2> QED BY <2>2, <2>4
<1>3. [p.versions EXCEPT ![n].paired = TRUE] = vs
  BY <1>1, <1>2
<1>4. PairVersion(p) = [p EXCEPT !.versions = vs]
  BY <1>3 DEF PairVersion
<1> HIDE DEF vs
<1>5. PairVersion(p) = [rows |-> p.rows, wid |-> p.wid, side |-> p.side,
        staged |-> p.staged, obs |-> p.obs, versions |-> vs]
  BY <1>4 DEF PartOK
<1>6. /\ DOMAIN vs = 1 .. n /\ vs[n] = paired
      /\ \A i \in 1 .. n : i # n => vs[i] = p.versions[i]
  BY <1>1 DEF vs
<1>7. /\ paired.paired = TRUE /\ paired.rows = v.rows /\ paired.wid = v.wid
      /\ paired.kind = v.kind /\ paired.since = v.since
  OBVIOUS
<1> HIDE DEF paired
<1>8. vs \in Seq(KeptVersion) /\ Len(vs) = n
  <2>1. \A i \in 1 .. n : vs[i] \in KeptVersion
    BY <1>1, <1>2, <1>6
  <2>2. vs \in [1 .. n -> KeptVersion]
    BY <1>1, <2>1, Zenon DEF vs
  <2> QED BY <1>1, <2>2
<1>9. \A i \in 1 .. n : p.versions[i].paired \in BOOLEAN
  <2>1. \A i \in 1 .. n : p.versions[i] \in KeptVersion
    BY <1>1
  <2> QED BY <2>1, Zenon DEF KeptVersion
<1> HIDE DEF n, v
<1>10. \A i \in 1 .. n :
          /\ vs[i].rows = p.versions[i].rows /\ vs[i].wid = p.versions[i].wid
          /\ vs[i].kind = p.versions[i].kind /\ vs[i].since = p.versions[i].since
  BY <1>6, <1>7 DEF v
<1>11. \A i \in 1 .. n : vs[i].paired = (p.versions[i].paired \/ i = n)
  BY <1>6, <1>7, <1>9
<1>12. PartOK(PairVersion(p))
  BY <1>5, <1>8 DEF PartOK
<1> QED BY <1>1, <1>5, <1>6, <1>8, <1>10, <1>11, <1>12 DEF n

WrittenRows == [rows : Contents, wid : Nat, since : Nat]

LEMMA SidecarStaged ==
    ASSUME NEW p, PartOK(p), NEW w \in WrittenRows
    PROVE  LET q == StageSidecar(p, w)
           IN  /\ PartOK(q) /\ q.rows = p.rows /\ q.wid = p.wid
               /\ q.obs = p.obs /\ q.side = p.side /\ q.versions = p.versions
               /\ p.staged = {} => q.staged = {[wid |-> w.wid, since |-> w.since]}
<1> DEFINE own == [wid |-> w.wid, since |-> w.since]
<1> DEFINE S == {s \in p.staged : s.wid # w.wid} \cup {own}
<1> DEFINE q == StageSidecar(p, w)
<1>1. own \in Era
  BY DEF Era, WrittenRows
<1>2. S \subseteq Era /\ (p.staged = {} => S = {own})
  BY <1>1 DEF PartOK
<1>3. q = [p EXCEPT !.staged = S]
  BY DEF StageSidecar
<1> HIDE DEF S, own
<1>4. q = [rows |-> p.rows, wid |-> p.wid, side |-> p.side, staged |-> S,
           obs |-> p.obs, versions |-> p.versions]
  BY <1>3 DEF PartOK
<1> HIDE DEF q
<1>5. PartOK(q)
  BY <1>2, <1>4 DEF PartOK
<1> QED BY <1>2, <1>4, <1>5 DEF own, q

LEMMA RowsRenamed ==
    ASSUME NEW p, PartOK(p), NEW w \in WrittenRows
    PROVE  LET q == RenameRows(p, w)
           IN  /\ PartOK(q) /\ q.rows = w.rows /\ q.wid = w.wid
               /\ q.versions = p.versions /\ q.staged = p.staged
               /\ q.side = p.side /\ q.obs = p.obs
<1> DEFINE q == RenameRows(p, w)
<1>0. ASSUME NEW rs, NEW id
      PROVE  [p EXCEPT !.rows = rs, !.wid = id]
               = [rows |-> rs, wid |-> id, side |-> p.side, staged |-> p.staged,
                  obs |-> p.obs, versions |-> p.versions]
  <2> DEFINE moved == [p EXCEPT !.rows = rs]
  <2>1. moved = [rows |-> rs, wid |-> p.wid, side |-> p.side, staged |-> p.staged,
                 obs |-> p.obs, versions |-> p.versions]
    BY DEF PartOK
  <2>2. [p EXCEPT !.rows = rs, !.wid = id] = [moved EXCEPT !.wid = id]
    BY DEF PartOK
  <2> HIDE DEF moved
  <2> QED BY <2>1, <2>2
<1>1. q = [rows |-> w.rows, wid |-> w.wid, side |-> p.side, staged |-> p.staged,
           obs |-> p.obs, versions |-> p.versions]
  BY <1>0, Zenon DEF RenameRows
<1>2. w.rows \in Contents /\ w.wid \in Nat
  BY DEF WrittenRows
<1> HIDE DEF q
<1>3. PartOK(q)
  BY <1>1, <1>2 DEF PartOK
<1> QED BY <1>1, <1>3 DEF q

LEMMA SidecarRenamed ==
    ASSUME NEW p, PartOK(p), NEW w \in WrittenRows
    PROVE  LET q == RenameSidecar(p, w)
           IN  /\ PartOK(q) /\ q.rows = p.rows /\ q.wid = p.wid
               /\ q.versions = p.versions
               /\ (p.staged = {[wid |-> w.wid, since |-> w.since]} => q.staged = {})
               /\ q.side = [wid |-> w.wid, since |-> w.since] /\ q.obs = p.obs
<1> DEFINE own == [wid |-> w.wid, since |-> w.since]
<1> DEFINE S == {s \in p.staged : s.wid # w.wid}
<1> DEFINE q == RenameSidecar(p, w)
<1>1. own \in Era /\ own.wid = w.wid
  BY DEF Era, WrittenRows
<1>2. S \subseteq Era /\ (p.staged = {own} => S = {})
  BY <1>1 DEF PartOK
<1>3. q = [p EXCEPT !.side = own, !.staged = S]
  BY DEF RenameSidecar
<1> HIDE DEF S, own
<1>4. q = [rows |-> p.rows, wid |-> p.wid, side |-> own, staged |-> S,
           obs |-> p.obs, versions |-> p.versions]
  BY <1>3 DEF PartOK
<1> HIDE DEF q
<1>5. PartOK(q)
  BY <1>1, <1>2, <1>4 DEF PartOK
<1> QED BY <1>2, <1>4, <1>5 DEF own, q

\* What a kept version holds is the visible rows; a staged one holds the answer.
LEMMA RowsKept ==
    ASSUME NEW p, PartOK(p)
    PROVE  LET q == KeepRows(p)
           IN  /\ PartOK(q) /\ q.rows = p.rows /\ q.wid = p.wid /\ q.staged = p.staged
               /\ Len(q.versions) = Len(p.versions) + 1
               /\ q.versions[Len(q.versions)].rows = p.rows
               /\ q.versions[Len(q.versions)].wid = p.wid
               /\ q.versions[Len(q.versions)].since = p.side.since
               /\ q.side = p.side /\ q.obs = p.obs
               /\ \A i \in DOMAIN q.versions :
                    i \in DOMAIN p.versions \/ i = Len(q.versions)
               /\ \A i \in DOMAIN p.versions :
                    i \in DOMAIN q.versions /\ q.versions[i] = p.versions[i]
<1> DEFINE v == Version("superseded", p.rows, p.wid, p.side.since)
<1>0. v \in KeptVersion /\ v.rows = p.rows /\ v.wid = p.wid /\ v.since = p.side.since
  BY DEF KeptVersion, Version, PartOK, Era
<1>1. KeepRows(p) = [p EXCEPT !.versions = Append(@, v)]
  BY DEF KeepRows
<1> HIDE DEF v
<1> DEFINE q == KeepRows(p)
<1>2. /\ PartOK(q) /\ q.rows = p.rows /\ q.wid = p.wid /\ q.staged = p.staged
      /\ q.versions = Append(p.versions, v) /\ q.side = p.side /\ q.obs = p.obs
  BY <1>0, <1>1, VersionsKept
<1> HIDE DEF q
<1>3. p.versions \in Seq(KeptVersion)
  BY DEF PartOK
<1>4. /\ Len(q.versions) = Len(p.versions) + 1
      /\ q.versions[Len(q.versions)] = v
      /\ \A i \in DOMAIN q.versions :
           i \in DOMAIN p.versions \/ i = Len(q.versions)
      /\ \A i \in DOMAIN p.versions :
           i \in DOMAIN q.versions /\ q.versions[i] = p.versions[i]
  BY <1>0, <1>2, <1>3
<1> QED BY <1>0, <1>2, <1>4 DEF q

LEMMA RowsStaged ==
    ASSUME NEW p, PartOK(p), NEW new \in Contents, NEW at \in Nat
    PROVE  LET q == StageRows(p, new, at)
           IN  /\ PartOK(q) /\ q.rows = p.rows /\ q.wid = p.wid /\ q.staged = p.staged
               /\ Len(q.versions) = Len(p.versions) + 1
               /\ q.versions[Len(q.versions)].wid = at
               /\ q.versions[Len(q.versions)].rows = new
               /\ q.versions[Len(q.versions)].kind = "staged"
               /\ q.side = p.side /\ q.obs = p.obs
               /\ \A i \in DOMAIN q.versions :
                    i \in DOMAIN p.versions \/ i = Len(q.versions)
               /\ \A i \in DOMAIN p.versions :
                    i \in DOMAIN q.versions /\ q.versions[i] = p.versions[i]
<1> DEFINE v == Version("staged", new, at, Never)
<1>0. v \in KeptVersion /\ v.wid = at /\ v.rows = new /\ v.kind = "staged"
  BY DEF KeptVersion, Version, Never
<1>1. StageRows(p, new, at) = [p EXCEPT !.versions = Append(@, v)]
  BY DEF StageRows
<1> HIDE DEF v
<1> DEFINE q == StageRows(p, new, at)
<1>2. /\ PartOK(q) /\ q.rows = p.rows /\ q.wid = p.wid /\ q.staged = p.staged
      /\ q.versions = Append(p.versions, v) /\ q.side = p.side /\ q.obs = p.obs
  BY <1>0, <1>1, VersionsKept
<1> HIDE DEF q
<1>3. p.versions \in Seq(KeptVersion)
  BY DEF PartOK
<1>4. /\ Len(q.versions) = Len(p.versions) + 1
      /\ q.versions[Len(q.versions)] = v
      /\ \A i \in DOMAIN q.versions :
           i \in DOMAIN p.versions \/ i = Len(q.versions)
      /\ \A i \in DOMAIN p.versions :
           i \in DOMAIN q.versions /\ q.versions[i] = p.versions[i]
  BY <1>0, <1>2, <1>3
<1> QED BY <1>0, <1>2, <1>4 DEF q

LEMMA PartitionShape ==
    ASSUME NEW rows \in Contents, NEW wid \in Nat
    PROVE  LET p == Partition(rows, wid)
           IN  /\ PartOK(p) /\ p.rows = rows /\ p.wid = wid
               /\ p.staged = {} /\ p.versions = << >>
  BY DEF PartOK, Partition, Era, Never

-----------------------------------------------------------------------------
(* The shapes are kept.                                                     *)

Pairing == job.pc \in {"pair_staged", "pair_kept"} => Len(part.versions) > 0
ShapeInv == Shapes /\ Pairing

LEMMA ShapesInit == Init => ShapeInv
<1> SUFFICES ASSUME Init PROVE ShapeInv
  OBVIOUS
<1>1. PICK rows \in Contents, wid \in Nat : part = Partition(rows, wid)
  BY EmptyRows, LakeAssumption DEF Init, Never
<1>2. PartOK(part)
  BY <1>1, PartitionShape
<1>3. job.pc = "idle" /\ JobOK
  BY DEF Init, Idle, JobOK
<1>4. pinning \in [Experiments -> [pc : {"idle", "newest", "existing", "record"},
                                    gen : Nat]]
  BY DEF Init, Unpinning
<1> QED BY <1>2, <1>3, <1>4 DEF Init, ShapeInv, Shapes, Pairing

\* What a write of a commit leaves as it was, and from where to where it goes.
LEMMA WritingLeaves ==
    Shapes /\ Writing =>
        /\ job.pc \in Committing /\ job'.pc \in Committing \cup {"work", "done"}
        /\ job' \in WriteJob
        /\ job'.write = job.write /\ job'.previous = job.previous
        /\ job'.kind = job.kind /\ job'.wrote = TRUE
        /\ UNCHANGED <<clock, record, shared, registry, releases, pin, ended, pinning,
                       committed>>
<1> SUFFICES ASSUME Shapes, Writing
             PROVE  /\ job.pc \in Committing
                    /\ job'.pc \in Committing \cup {"work", "done"}
                    /\ job' \in WriteJob
                    /\ job'.write = job.write /\ job'.previous = job.previous
                    /\ job'.kind = job.kind /\ job'.wrote = TRUE
                    /\ UNCHANGED <<clock, record, shared, registry, releases, pin,
                                   ended, pinning, committed>>
  OBVIOUS
<1>0. PICK from \in Committing, to \in Committing \cup {"work", "done"} :
        \E p : Write(from, to, p)
  BY DEF Writing, StageVersion, PairStaged, KeepVersion, PairKept, Observe, Stage,
         Show, CommitSidecar, Committing, AfterCommit
<1>1. PICK p : Write(from, to, p)
  BY <1>0
<1>2. job \in WriteJob
  BY <1>1, JobShapes DEF Shapes, Write, WorkPCs
<1>3. job' = [job EXCEPT !.pc = to, !.wrote = TRUE] /\ job.pc = from
  BY <1>1 DEF Write
<1>4. PICK c, kind, previous, wrote, write :
        job = [pc |-> c, kind |-> kind, previous |-> previous, wrote |-> wrote,
               write |-> write]
  BY <1>2 DEF WriteJob
<1>5. ASSUME NEW x PROVE [job EXCEPT !.pc = to, !.wrote = x]
        = [pc |-> to, kind |-> kind, previous |-> previous, wrote |-> x,
           write |-> write]
  <2>1. [job EXCEPT !.pc = to] = [pc |-> to, kind |-> kind, previous |-> previous,
                                  wrote |-> wrote, write |-> write]
    BY <1>4
  <2> DEFINE moved == [job EXCEPT !.pc = to]
  <2>2. [job EXCEPT !.pc = to, !.wrote = x] = [moved EXCEPT !.wrote = x]
    BY <1>4
  <2> HIDE DEF moved
  <2>3. moved = [pc |-> to, kind |-> kind, previous |-> previous,
                 wrote |-> wrote, write |-> write]
    BY <2>1 DEF moved
  <2> QED BY <2>2, <2>3
<1>6. job' = [pc |-> to, kind |-> kind, previous |-> previous, wrote |-> TRUE,
              write |-> write]
  BY <1>3, <1>5, Zenon
<1>7. /\ kind \in {"update", "operator"}
      /\ previous \in [state : {"committed", "updating"}, gen : Nat]
      /\ write \in [rows : Contents, wid : Nat, since : Nat]
  BY <1>2, <1>4 DEF WriteJob
<1>8. job' \in WriteJob
  BY <1>6, <1>7, Zenon DEF WriteJob, WorkPCs
<1>9. /\ job'.pc = to /\ job'.write = write /\ job'.previous = previous
      /\ job'.kind = kind
  BY <1>6
<1>10. job'.wrote = TRUE
  BY <1>6
<1>11. /\ job.write = write /\ job.previous = previous /\ job.kind = kind
  BY <1>4
<1>12. UNCHANGED <<clock, record, shared, registry, releases, pin, ended, pinning,
                   committed>>
  BY <1>1 DEF Write, readers
<1> QED BY <1>3, <1>8, <1>9, <1>10, <1>11, <1>12, Zenon

LEMMA WritingShapes == ShapeInv /\ Writing => PartOK(part') /\ Pairing'
<1> SUFFICES ASSUME ShapeInv, Writing PROVE PartOK(part') /\ Pairing'
  OBVIOUS
<1>0. PartOK(part) /\ Pairing /\ Shapes
  BY DEF ShapeInv, Shapes
<1>1. job \in WriteJob /\ job' \in WriteJob
  BY <1>0, WritingLeaves, JobShapes DEF WorkPCs, Shapes
<1>2. job.write \in WrittenRows /\ Len(part.versions) \in Nat
  BY <1>0, <1>1 DEF WriteJob, WrittenRows, PartOK
<1>3. job.write.rows \in Contents /\ job.write.wid \in Nat /\ job.write.since \in Nat
  BY <1>2 DEF WrittenRows
<1>4. ASSUME NEW from, NEW to, NEW p, Write(from, to, p)
      PROVE  job.pc = from /\ job'.pc = to /\ part' = p
  BY <1>1, <1>4 DEF Write, WriteJob
<1>5. CASE StageVersion
  <2>1. part' = StageRows(part, job.write.rows, job.write.wid)
    BY <1>4, <1>5 DEF StageVersion
  <2>2. PartOK(part') /\ Len(part'.versions) = Len(part.versions) + 1
    BY <1>0, <1>3, <2>1, RowsStaged
  <2> QED BY <1>2, <2>2 DEF Pairing
<1>6. CASE KeepVersion
  <2>1. part' = KeepRows(part)
    BY <1>4, <1>6 DEF KeepVersion
  <2>2. PartOK(part') /\ Len(part'.versions) = Len(part.versions) + 1
    BY <1>0, <2>1, RowsKept
  <2> QED BY <1>2, <2>2 DEF Pairing
<1>7. CASE PairStaged \/ PairKept
  <2>1. part' = PairVersion(part) /\ job.pc \in {"pair_staged", "pair_kept"}
        /\ job'.pc \in {"work", "observe"}
    BY <1>4, <1>7 DEF PairStaged, PairKept
  <2>2. PartOK(part')
    BY <1>0, <2>1, VersionPaired DEF Pairing
  <2> QED BY <2>1, <2>2 DEF Pairing
<1>8. CASE Observe
  <2>1. /\ part' = part \/ part' = Record(part, job.write.rows, job.write.since)
        /\ job'.pc \in {"done", "sidecar"}
    BY <1>4, <1>8 DEF Observe
  <2>2. PartOK(part')
    BY <1>0, <2>1, RecordLeaves
  <2> QED BY <2>1, <2>2 DEF Pairing
<1>9. CASE Stage
  <2>1. part' = StageSidecar(part, job.write) /\ job'.pc = "rows"
    BY <1>4, <1>9 DEF Stage
  <2> QED BY <1>0, <1>2, <2>1, SidecarStaged DEF Pairing
<1>10. CASE Show
  <2>1. part' = RenameRows(part, job.write) /\ job'.pc = "rename_sidecar"
    BY <1>4, <1>10 DEF Show
  <2> QED BY <1>0, <1>2, <2>1, RowsRenamed DEF Pairing
<1>11. CASE CommitSidecar
  <2>1. part' = RenameSidecar(part, job.write) /\ job'.pc \in {"done", "work"}
    BY <1>4, <1>11 DEF CommitSidecar, AfterCommit
  <2> QED BY <1>0, <1>2, <2>1, SidecarRenamed DEF Pairing
<1> QED BY <1>5, <1>6, <1>7, <1>8, <1>9, <1>10, <1>11 DEF Writing

\* What a job's other steps do to the job and the partition.
LEMMA JobSteps ==
    ASSUME ShapeInv
    PROVE  /\ \A kind \in {"update", "operator"} : Begin(kind) =>
                /\ job.pc = "idle" /\ job'.pc = "work" /\ job' \in WriteJob
                /\ job'.previous = record /\ job'.wrote = FALSE
                /\ PartOK(part')
                /\ record' = [state |-> "updating", gen |-> record.gen]
           /\ \A new \in Answers, truncated \in BOOLEAN : Publish(new, truncated) =>
                /\ job.pc = "work" /\ job' \in WriteJob
                /\ job'.pc \in {"stage_rows", "keep_rows", "observe"}
                /\ job'.previous = job.previous /\ job'.wrote = job.wrote
                /\ job'.write.rows = new /\ job'.write.wid = clock + 1
                /\ job'.write.since = clock + 1
                /\ PartOK(part') /\ part' = Complete(part)
           /\ \A i \in DOMAIN part.versions : Restore(i) =>
                /\ job.pc = "work" /\ job' \in WriteJob
                /\ job'.pc \in {"keep_rows", "observe"}
                /\ job'.previous = job.previous /\ job'.wrote = job.wrote
                /\ job'.write.rows = part.versions[i].rows
                /\ job'.write.wid = part.versions[i].wid
                /\ job'.write.since = clock + 1
                /\ PartOK(part') /\ part' = Complete(part)
           /\ Rebuild =>
                /\ job.pc = "work" /\ job' \in WriteJob /\ job'.pc = "done"
                /\ job'.previous = job.previous /\ job'.wrote = TRUE
                /\ PartOK(part') /\ part' = Rebuilt(part)
<1>0. PartOK(part) /\ Shapes
  BY DEF ShapeInv, Shapes
<1>1. \A kind \in {"update", "operator"} : Begin(kind) =>
                /\ job.pc = "idle" /\ job'.pc = "work" /\ job' \in WriteJob
                /\ job'.previous = record /\ job'.wrote = FALSE
                /\ PartOK(part')
                /\ record' = [state |-> "updating", gen |-> record.gen]
  <2> SUFFICES ASSUME NEW kind \in {"update", "operator"}, Begin(kind)
               PROVE  /\ job.pc = "idle" /\ job'.pc = "work" /\ job' \in WriteJob
                      /\ job'.previous = record /\ job'.wrote = FALSE
                      /\ PartOK(part')
                      /\ record' = [state |-> "updating", gen |-> record.gen]
    OBVIOUS
  <2>1. job.pc = "idle" /\ record' = [state |-> "updating", gen |-> record.gen]
    BY <1>0 DEF Begin, UpdaterFree, Idle, Shapes
  <2>2. job' = [pc |-> "work", kind |-> kind, previous |-> record, wrote |-> FALSE,
                write |-> NoWrite]
    BY DEF Begin
  <2>3. NoWrite \in WrittenRows
    BY EmptyRows DEF NoWrite, WrittenRows, Never
  <2>4. record \in [state : {"committed", "updating"}, gen : Nat]
    BY <1>0 DEF Shapes
  <2>5. job' \in WriteJob
    BY <2>2, <2>3, <2>4, Zenon DEF WriteJob, WrittenRows, WorkPCs
  <2>6. job'.wrote = FALSE
    BY <2>2
  <2>7. job'.pc = "work" /\ job'.previous = record
    BY <2>2
  <2>8. PartOK(part')
    BY <1>0, SweepLeaves DEF Begin
  <2> QED BY <2>1, <2>5, <2>6, <2>7, <2>8, Zenon
<1>2. ASSUME job.pc = "work", NEW pc \in WorkPCs, NEW write \in WrittenRows
      PROVE  LET moved == [job EXCEPT !.pc = pc, !.write = write]
             IN  /\ moved \in WriteJob /\ moved.pc = pc /\ moved.write = write
                 /\ moved.previous = job.previous /\ moved.wrote = job.wrote
  <2>1. job \in WriteJob
    BY <1>0, <1>2, JobShapes DEF Shapes, WorkPCs
  <2>2. PICK c, kind, previous, wrote, w :
          job = [pc |-> c, kind |-> kind, previous |-> previous, wrote |-> wrote,
                 write |-> w]
    BY <2>1 DEF WriteJob
  <2> DEFINE first == [job EXCEPT !.pc = pc]
  <2>3. first = [pc |-> pc, kind |-> kind, previous |-> previous,
                 wrote |-> wrote, write |-> w]
    BY <2>2
  <2> DEFINE moved == [job EXCEPT !.pc = pc, !.write = write]
  <2>4. moved = [first EXCEPT !.write = write]
    BY <2>2
  <2> HIDE DEF first, moved
  <2>5. moved = [pc |-> pc, kind |-> kind, previous |-> previous,
                 wrote |-> wrote, write |-> write]
    BY <2>3, <2>4
  <2>6. /\ kind \in {"update", "operator"} /\ wrote \in BOOLEAN
        /\ previous \in [state : {"committed", "updating"}, gen : Nat]
    BY <2>1, <2>2, Zenon DEF WriteJob
  <2>7. moved \in WriteJob
    BY <2>5, <2>6, <1>2, Zenon DEF WriteJob, WrittenRows
  <2>8. moved.pc = pc /\ moved.write = write /\ moved.previous = job.previous
    BY <2>2, <2>5
  <2>9. moved.wrote = wrote /\ job.wrote = wrote
    BY <2>2, <2>5, Zenon
  <2> QED BY <2>7, <2>8, <2>9, Zenon DEF moved
<1>3. \A new \in Answers, truncated \in BOOLEAN : Publish(new, truncated) =>
                /\ job.pc = "work" /\ job' \in WriteJob
                /\ job'.pc \in {"stage_rows", "keep_rows", "observe"}
                /\ job'.previous = job.previous /\ job'.wrote = job.wrote
                /\ job'.write.rows = new /\ job'.write.wid = clock + 1
                /\ job'.write.since = clock + 1
                /\ PartOK(part') /\ part' = Complete(part)
  <2> SUFFICES ASSUME NEW new \in Answers, NEW truncated \in BOOLEAN,
                      Publish(new, truncated)
               PROVE  /\ job.pc = "work" /\ job' \in WriteJob
                      /\ job'.pc \in {"stage_rows", "keep_rows", "observe"}
                      /\ job'.previous = job.previous /\ job'.wrote = job.wrote
                      /\ job'.write.rows = new /\ job'.write.wid = clock + 1
                      /\ job'.write.since = clock + 1
                      /\ PartOK(part') /\ part' = Complete(part)
    OBVIOUS
  <2> DEFINE w == [rows |-> new, wid |-> clock + 1, since |-> clock + 1]
  <2>1. w \in WrittenRows /\ w.rows = new /\ w.wid = clock + 1 /\ w.since = clock + 1
    BY <1>0, LakeAssumption DEF WrittenRows, Shapes
  <2>2. PICK pc \in {"stage_rows", "keep_rows", "observe"} :
          job' = [job EXCEPT !.pc = pc, !.write = w]
    BY DEF Publish
  <2> HIDE DEF w
  <2>3. job.pc = "work" /\ pc \in WorkPCs
    BY DEF Publish, WorkPCs, Committing
  <2>4. part' = Complete(part) /\ PartOK(part')
    BY <1>0, CompleteLeaves DEF Publish
  <2>5. /\ job' \in WriteJob /\ job'.pc = pc /\ job'.write = w
        /\ job'.previous = job.previous /\ job'.wrote = job.wrote
    BY <1>2, <2>1, <2>2, <2>3
  <2> QED BY <2>1, <2>3, <2>4, <2>5, Zenon
<1>4. \A i \in DOMAIN part.versions : Restore(i) =>
                /\ job.pc = "work" /\ job' \in WriteJob
                /\ job'.pc \in {"keep_rows", "observe"}
                /\ job'.previous = job.previous /\ job'.wrote = job.wrote
                /\ job'.write.rows = part.versions[i].rows
                /\ job'.write.wid = part.versions[i].wid
                /\ job'.write.since = clock + 1
                /\ PartOK(part') /\ part' = Complete(part)
  <2> SUFFICES ASSUME NEW i \in DOMAIN part.versions, Restore(i)
               PROVE  /\ job.pc = "work" /\ job' \in WriteJob
                      /\ job'.pc \in {"keep_rows", "observe"}
                      /\ job'.previous = job.previous /\ job'.wrote = job.wrote
                      /\ job'.write.rows = part.versions[i].rows
                      /\ job'.write.wid = part.versions[i].wid
                      /\ job'.write.since = clock + 1
                      /\ PartOK(part') /\ part' = Complete(part)
    OBVIOUS
  <2> DEFINE v == part.versions[i]
  <2> DEFINE w == [rows |-> v.rows, wid |-> v.wid, since |-> clock + 1]
  <2>1. v \in KeptVersion
    BY <1>0 DEF PartOK
  <2>2. w \in WrittenRows /\ w.rows = v.rows /\ w.wid = v.wid /\ w.since = clock + 1
    BY <1>0, <2>1 DEF WrittenRows, Shapes, KeptVersion
  <2>3. part' = Complete(part) /\ PartOK(part')
        /\ Complete(part).versions = part.versions
    BY <1>0, CompleteLeaves DEF Restore
  <2>4. PICK pc \in {"keep_rows", "observe"} : job' = [job EXCEPT !.pc = pc, !.write = w]
    BY <2>3 DEF Restore
  <2> HIDE DEF w
  <2>5. job.pc = "work" /\ pc \in WorkPCs
    BY DEF Restore, WorkPCs, Committing
  <2>6. /\ job' \in WriteJob /\ job'.pc = pc /\ job'.write = w
        /\ job'.previous = job.previous /\ job'.wrote = job.wrote
    BY <1>2, <2>2, <2>4, <2>5
  <2> QED BY <2>2, <2>3, <2>5, <2>6, Zenon
<1>5. Rebuild =>
                /\ job.pc = "work" /\ job' \in WriteJob /\ job'.pc = "done"
                /\ job'.previous = job.previous /\ job'.wrote = TRUE
                /\ PartOK(part') /\ part' = Rebuilt(part)
  <2> SUFFICES ASSUME Rebuild
               PROVE  /\ job.pc = "work" /\ job' \in WriteJob /\ job'.pc = "done"
                      /\ job'.previous = job.previous /\ job'.wrote = TRUE
                      /\ PartOK(part') /\ part' = Rebuilt(part)
    OBVIOUS
  <2>1. part' = Rebuilt(part) /\ PartOK(part') /\ job.pc = "work"
    BY <1>0, RebuiltLeaves DEF Rebuild
  <2>2. job \in WriteJob
    BY <1>0, <2>1, JobShapes DEF Shapes, WorkPCs
  <2>3. PICK kind, previous, wrote, w :
          job = [pc |-> "work", kind |-> kind, previous |-> previous, wrote |-> wrote,
                 write |-> w]
    BY <2>1, <2>2 DEF WriteJob
  <2>4. ASSUME NEW x
        PROVE  [job EXCEPT !.pc = "done", !.wrote = x]
                 = [pc |-> "done", kind |-> kind, previous |-> previous,
                    wrote |-> x, write |-> w]
    <3> DEFINE first == [job EXCEPT !.pc = "done"]
    <3>1. [job EXCEPT !.pc = "done", !.wrote = x] = [first EXCEPT !.wrote = x]
      BY <2>3
    <3>2. first = [pc |-> "done", kind |-> kind, previous |-> previous,
                   wrote |-> wrote, write |-> w]
      BY <2>3
    <3> HIDE DEF first
    <3> QED BY <3>1, <3>2
  <2>5. job' = [pc |-> "done", kind |-> kind, previous |-> previous,
                wrote |-> TRUE, write |-> w]
    BY <2>4, Zenon DEF Rebuild
  <2>6. /\ kind \in {"update", "operator"} /\ w \in WrittenRows
        /\ previous \in [state : {"committed", "updating"}, gen : Nat]
    BY <2>2, <2>3 DEF WriteJob, WrittenRows
  <2>7. job' \in WriteJob
    BY <2>5, <2>6, Zenon DEF WriteJob, WrittenRows, WorkPCs
  <2>8. job'.pc = "done" /\ job'.previous = previous /\ job.previous = previous
    BY <2>3, <2>5
  <2>9. job'.wrote = TRUE
    BY <2>5
  <2> QED BY <2>1, <2>7, <2>8, <2>9, Zenon
<1> QED BY <1>1, <1>3, <1>4, <1>5, Zenon

LEMMA ShapesStep == ShapeInv /\ [Next]_vars => ShapeInv'
<1> SUFFICES ASSUME ShapeInv, [Next]_vars PROVE ShapeInv'
  OBVIOUS
<1> USE DEF ShapeInv
<1>0. Shapes /\ Pairing /\ PartOK(part) /\ JobOK /\ clock \in Nat
  BY DEF Shapes
<1>1. CASE \E kind \in {"update", "operator"} : Begin(kind)
  <2>1. /\ PartOK(part') /\ job' \in WriteJob /\ job'.pc = "work"
        /\ record' = [state |-> "updating", gen |-> record.gen]
    BY <1>1, JobSteps
  <2>2. UNCHANGED <<clock, releases, pin, pinning>>
    BY <1>1 DEF Begin, readers
  <2> QED BY <1>0, <2>1, <2>2 DEF Shapes, JobOK, Pairing
<1>2. CASE \/ \E new \in Answers, truncated \in BOOLEAN : Publish(new, truncated)
           \/ \E i \in DOMAIN part.versions : Restore(i)
  <2>1. /\ PartOK(part') /\ job' \in WriteJob
        /\ job'.pc \in {"stage_rows", "keep_rows", "observe"}
    BY <1>2, JobSteps
  <2>2. UNCHANGED <<record, releases, pin, pinning>> /\ clock' = clock + 1
    BY <1>2 DEF Publish, Restore, readers
  <2> QED BY <1>0, <2>1, <2>2 DEF Shapes, JobOK, Pairing
<1>3. CASE Rebuild
  <2>1. PartOK(part') /\ job' \in WriteJob /\ job'.pc = "done"
    BY <1>3, JobSteps
  <2>2. UNCHANGED <<record, releases, pin, pinning, clock>>
    BY <1>3 DEF Rebuild, readers
  <2> QED BY <1>0, <2>1, <2>2 DEF Shapes, JobOK, Pairing
<1>4. CASE Writing
  <2>1. PartOK(part') /\ Pairing' /\ job' \in WriteJob
    BY <1>0, <1>4, WritingShapes, WritingLeaves
  <2>2. UNCHANGED <<record, releases, pin, pinning, clock>>
    BY <1>0, <1>4, WritingLeaves
  <2> QED BY <1>0, <2>1, <2>2 DEF Shapes, JobOK
<1>5. CASE \E vouched \in BOOLEAN : Finish(vouched)
  <2>1. job \in WriteJob
    BY <1>0, <1>5, JobShapes DEF Finish, WorkPCs
  <2>2. job.previous.gen \in Nat
    BY <2>1 DEF WriteJob
  <2>3. /\ UNCHANGED <<part, releases, pin, pinning, clock>> /\ job' = Idle
        /\ record' \in [state : {"committed", "updating"}, gen : Nat]
    BY <1>5, <2>2 DEF Finish, readers
  <2> QED BY <1>0, <2>3 DEF Shapes, JobOK, Pairing, Idle
<1>6. CASE Pin
  <2>1. PICK e \in Experiments : \/ OpenPin(e) \/ CutRelease(e) \/ SelectRelease(e)
                                 \/ RecordPin(e) \/ End(e)
    BY <1>6 DEF Pin
  <2>2. pinning[e].gen \in Nat /\ record.gen \in Nat
    BY <1>0 DEF Shapes
  <2>3. UNCHANGED <<job, clock, record>>
    BY <2>1 DEF OpenPin, CutRelease, SelectRelease, RecordPin, End
  <2>4. PartOK(part') /\ part'.versions = part.versions
    BY <1>0, <2>1, SweepLeaves DEF OpenPin, CutRelease, SelectRelease, RecordPin, End
  <2>5. releases' \subseteq Nat
    BY <1>0, <2>1, <2>2 DEF OpenPin, CutRelease, SelectRelease, RecordPin, End, Shapes
  <2>6. pin' \in [Experiments -> Nat]
    BY <1>0, <2>1, <2>2 DEF OpenPin, CutRelease, SelectRelease, RecordPin, End, Shapes
  <2>7. ASSUME NEW pc \in {"idle", "newest", "existing", "record"}, NEW gen \in Nat
        PROVE  [pinning EXCEPT ![e] = [pc |-> pc, gen |-> gen]]
                 \in [Experiments -> [pc : {"idle", "newest", "existing", "record"},
                                      gen : Nat]]
    BY <1>0 DEF Shapes
  <2>8. pinning' \in [Experiments -> [pc : {"idle", "newest", "existing", "record"},
                                      gen : Nat]]
    <3>1. CASE OpenPin(e)
      BY <2>2, <2>7, <3>1 DEF OpenPin, SetPin
    <3>2. CASE CutRelease(e)
      BY <2>2, <2>7, <3>2 DEF CutRelease, SetPin
    <3>3. CASE SelectRelease(e)
      BY <1>0, <2>2, <2>7, <3>3 DEF SelectRelease, SetPin, Shapes
    <3>4. CASE RecordPin(e)
      BY <2>2, <2>7, <3>4 DEF RecordPin, Unpinning
    <3>5. CASE End(e)
      BY <1>0, <3>5 DEF End, Shapes
    <3> QED BY <2>1, <3>1, <3>2, <3>3, <3>4, <3>5
  <2> QED BY <1>0, <2>3, <2>4, <2>5, <2>6, <2>8 DEF Shapes, JobOK, Pairing
<1>7. CASE Retention
  <2>1. /\ UNCHANGED <<part, clock, record, pin, pinning>>
        /\ releases' \subseteq releases
    BY <1>7 DEF Retention, OpenRetention, ReadConsumers, Retire, CloseRetention, readers
  <2>2. Consumers \subseteq Nat
    BY <1>0 DEF Consumers, Shapes
  <2>3. JobOK' /\ job'.pc \notin {"pair_staged", "pair_kept"}
    <3>1. CASE OpenRetention
      BY <3>1 DEF OpenRetention, JobOK
    <3>2. CASE ReadConsumers
      BY <2>2, <3>2 DEF ReadConsumers, JobOK
    <3>3. CASE Retire
      BY <1>0, <3>3 DEF Retire, JobOK
    <3>4. CASE CloseRetention
      BY <3>4 DEF CloseRetention, JobOK, Idle
    <3> QED BY <1>7, <3>1, <3>2, <3>3, <3>4 DEF Retention
  <2> QED BY <1>0, <2>1, <2>3 DEF Shapes, Pairing
<1>8. CASE Kill
  <2>1. PICK e : KillJob \/ (e \in Experiments /\ KillPin(e))
    BY <1>8 DEF Kill
  <2>2. UNCHANGED <<part, clock, record, pin, releases>>
        /\ (job' = Idle \/ UNCHANGED job)
    BY <2>1 DEF KillJob, KillPin
  <2>3. pinning' \in [Experiments -> [pc : {"idle", "newest", "existing", "record"},
                                      gen : Nat]]
    BY <1>0, <2>1 DEF KillJob, KillPin, Shapes, Unpinning
  <2> QED BY <1>0, <2>2, <2>3 DEF Shapes, Pairing, JobOK, Idle
<1>9. CASE UNCHANGED vars
  BY <1>0, <1>9 DEF vars, Shapes, JobOK, Pairing
<1> QED BY <1>1, <1>2, <1>3, <1>4, <1>5, <1>6, <1>7, <1>8, <1>9 DEF Next, Job

-----------------------------------------------------------------------------
(* Locks: a pin that is about to be recorded holds the updater lock shared or  *)
(* the registry lock; a retention that retires holds both against it.          *)

LockInv ==
    /\ shared # {} => job.pc = "idle"
    /\ \A e \in Experiments :
          /\ pinning[e].pc = "newest" => e \in shared
          /\ pinning[e].pc = "record" => e \in shared \/ registry = e
    /\ job.pc = "retire" => registry = "retention"
PinInv ==
    /\ \A e \in Experiments : pinning[e].pc = "record" => pinning[e].gen \in releases
    /\ job.pc = "retire" =>
          \A e \in Experiments \ ended : pin[e] # 0 => pin[e] \in job.kept

\* A job's step, of whatever kind: it held the lock, or takes it when nobody does,
\* and it moves no lock, pin or release.
LEMMA JobMovesNoPin ==
    ShapeInv /\ Job =>
        /\ job.pc # "retire" /\ job'.pc # "retire" /\ UNCHANGED readers
        /\ job.pc = "idle" => shared = {}
<1> SUFFICES ASSUME ShapeInv, Job
             PROVE  /\ job.pc # "retire" /\ job'.pc # "retire" /\ UNCHANGED readers
                    /\ job.pc = "idle" => shared = {}
  OBVIOUS
<1>1. CASE \E kind \in {"update", "operator"} : Begin(kind)
  BY <1>1, JobSteps DEF Begin, UpdaterFree
<1>2. CASE \/ \E new \in Answers, truncated \in BOOLEAN : Publish(new, truncated)
           \/ \E i \in DOMAIN part.versions : Restore(i)
  <2>1. job.pc = "work" /\ job'.pc \in {"stage_rows", "keep_rows", "observe"}
    BY <1>2, JobSteps
  <2> QED BY <1>2, <2>1 DEF Publish, Restore
<1>3. CASE Rebuild
  BY <1>3, JobSteps DEF Rebuild
<1>4. CASE Writing
  BY <1>4, WritingLeaves DEF ShapeInv, readers, Committing
<1>5. CASE \E vouched \in BOOLEAN : Finish(vouched)
  BY <1>5 DEF Finish, Idle
<1> QED BY <1>1, <1>2, <1>3, <1>4, <1>5 DEF Job

LEMMA LocksStep == ShapeInv /\ LockInv /\ [Next]_vars => LockInv'
<1> SUFFICES ASSUME ShapeInv, LockInv, [Next]_vars PROVE LockInv'
  OBVIOUS
<1> USE DEF LockInv
<1>0. /\ pinning \in [Experiments -> [pc : {"idle", "newest", "existing", "record"},
                                       gen : Nat]]
      /\ NoOne \notin Experiments \cup {"retention"} /\ "retention" \notin Experiments
  BY LakeAssumption DEF ShapeInv, Shapes
<1>1. CASE Job
  BY <1>1, JobMovesNoPin DEF readers
<1>2. CASE Pin
  <2>1. PICK e \in Experiments : \/ OpenPin(e) \/ CutRelease(e) \/ SelectRelease(e)
                                 \/ RecordPin(e) \/ End(e)
    BY <1>2 DEF Pin
  <2>2. CASE OpenPin(e)
    BY <1>0, <2>2 DEF OpenPin, SetPin, Idle
  <2>3. CASE CutRelease(e)
    BY <1>0, <2>3 DEF CutRelease, SetPin
  <2>4. CASE SelectRelease(e)
    BY <1>0, <2>4 DEF SelectRelease, SetPin, RegistryOf
  <2>5. CASE RecordPin(e)
    BY <1>0, <2>5 DEF RecordPin, Unlock, Unpinning
  <2>6. CASE End(e)
    BY <2>6 DEF End
  <2> QED BY <2>1, <2>2, <2>3, <2>4, <2>5, <2>6
<1>3. CASE Retention
  <2>1. CASE OpenRetention
    BY <2>1 DEF OpenRetention, UpdaterFree, readers
  <2>2. CASE ReadConsumers
    BY <1>0, <2>2 DEF ReadConsumers
  <2>3. CASE Retire
    BY <2>3 DEF Retire
  <2>4. CASE CloseRetention
    BY <1>0, <2>4 DEF CloseRetention, Idle
  <2> QED BY <1>3, <2>1, <2>2, <2>3, <2>4 DEF Retention
<1>4. CASE Kill
  <2>1. CASE KillJob
    BY <1>0, <2>1 DEF KillJob, Idle
  <2>2. ASSUME NEW e \in Experiments, KillPin(e) PROVE LockInv'
    BY <1>0, <2>2 DEF KillPin, Unlock, Unpinning
  <2> QED BY <1>4, <2>1, <2>2 DEF Kill
<1>5. CASE UNCHANGED vars
  BY <1>5 DEF vars
<1> QED BY <1>1, <1>2, <1>3, <1>4, <1>5 DEF Next

\* Nothing pins while a retention retires, and a retention retires no pinned release.
LEMMA PinsStep ==
    ShapeInv /\ LockInv /\ PinInv /\ PinnedReleaseKept /\ [Next]_vars
      => PinInv' /\ PinnedReleaseKept'
<1> SUFFICES ASSUME ShapeInv, LockInv, PinInv, PinnedReleaseKept, [Next]_vars
             PROVE  PinInv' /\ PinnedReleaseKept'
  OBVIOUS
<1> USE DEF PinInv, PinnedReleaseKept
<1>0. /\ pinning \in [Experiments -> [pc : {"idle", "newest", "existing", "record"},
                                       gen : Nat]]
      /\ pin \in [Experiments -> Nat]
  BY DEF ShapeInv, Shapes
<1>a. job.pc = "retire" => \A e \in Experiments : pinning[e].pc \notin {"newest", "record"}
  BY LakeAssumption DEF LockInv
<1>1. CASE Job
  BY <1>1, JobMovesNoPin DEF readers
<1>2. CASE Pin
  <2>1. PICK e \in Experiments : \/ OpenPin(e) \/ CutRelease(e) \/ SelectRelease(e)
                                 \/ RecordPin(e) \/ End(e)
    BY <1>2 DEF Pin
  <2>2. CASE OpenPin(e)
    BY <1>0, <2>2 DEF OpenPin, SetPin
  <2>3. CASE CutRelease(e)
    BY <1>0, <2>3 DEF CutRelease, SetPin
  <2>4. CASE SelectRelease(e)
    BY <1>0, <2>4 DEF SelectRelease, SetPin
  <2>5. CASE RecordPin(e)
    BY <1>0, <1>a, <2>5 DEF RecordPin, Unpinning
  <2>6. CASE End(e)
    BY <2>6 DEF End
  <2> QED BY <2>1, <2>2, <2>3, <2>4, <2>5, <2>6
<1>3. CASE Retention
  <2>1. CASE OpenRetention
    BY <2>1 DEF OpenRetention, readers
  <2>2. CASE ReadConsumers
    BY <2>2 DEF ReadConsumers, Consumers
  <2>3. CASE Retire
    BY <1>a, <2>3 DEF Retire
  <2>4. CASE CloseRetention
    BY <2>4 DEF CloseRetention, Idle
  <2> QED BY <1>3, <2>1, <2>2, <2>3, <2>4 DEF Retention
<1>4. CASE Kill
  <2>1. CASE KillJob
    BY <2>1 DEF KillJob, Idle
  <2>2. ASSUME NEW e \in Experiments, KillPin(e)
        PROVE  PinInv' /\ PinnedReleaseKept'
    BY <1>0, <2>2 DEF KillPin, Unpinning
  <2> QED BY <1>4, <2>1, <2>2 DEF Kill
<1>5. CASE UNCHANGED vars
  BY <1>5 DEF vars
<1> QED BY <1>1, <1>2, <1>3, <1>4, <1>5 DEF Next

(* An experiment that pins a release and the retention that counts the readers    *)
(* exclude each other, however both are killed (research_release.py:11-16): for any *)
(* number of experiments, jobs, generations and kills, a release that an open      *)
(* experiment has pinned is there.                                                 *)
THEOREM PinnedReleaseAlwaysKept == Spec => []PinnedReleaseKept
<1> DEFINE Inv == ShapeInv /\ LockInv /\ PinInv /\ PinnedReleaseKept
<1>1. Init => Inv
  <2> SUFFICES ASSUME Init PROVE Inv
    OBVIOUS
  <2>1. /\ job = Idle /\ shared = {} /\ pin = [e \in Experiments |-> 0]
        /\ pinning = [e \in Experiments |-> Unpinning]
    BY DEF Init
  <2> QED BY <2>1, ShapesInit DEF LockInv, PinInv, PinnedReleaseKept, Idle, Unpinning
<1>2. Inv /\ [Next]_vars => Inv'
  BY ShapesStep, LocksStep, PinsStep
<1> QED BY <1>1, <1>2, PTL DEF Spec

-----------------------------------------------------------------------------
(* Generations: what the record vouches for is what the lake shows.         *)

\* The sidecars staged beside a partition: none between commits, a commit's own before
\* its rename; a committed record, and a job that wrote nothing over one, vouch for the
\* content that was committed; the newest generation is pinned only while it is.
CommitInv ==
    /\ job.pc \in WorkPCs \ {"rows", "rename_sidecar"} => part.staged = {}
    /\ job.pc \in {"rows", "rename_sidecar"} =>
          part.staged = {[wid |-> job.write.wid, since |-> job.write.since]}
    /\ record.state = "committed" => part.staged = {} /\ View(part) = committed
    /\ job.pc \in WorkPCs => record.state = "updating" /\ record.gen = job.previous.gen
    /\ job.pc \in WorkPCs /\ ~ job.wrote /\ job.previous.state = "committed" =>
          View(part) = committed
    /\ \A e \in Experiments : pinning[e].pc = "newest" =>
          record.state = "committed" /\ pinning[e].gen = record.gen

LEMMA StagedStep ==
    ShapeInv /\ CommitInv /\ Writing =>
        IF job'.pc \in {"rows", "rename_sidecar"}
        THEN part'.staged = {[wid |-> job.write.wid, since |-> job.write.since]}
        ELSE part'.staged = {}
<1> DEFINE own == {[wid |-> job.write.wid, since |-> job.write.since]}
<1> SUFFICES ASSUME ShapeInv, CommitInv, Writing
             PROVE  IF job'.pc \in {"rows", "rename_sidecar"}
                    THEN part'.staged = own ELSE part'.staged = {}
  OBVIOUS
<1>0. PartOK(part) /\ Pairing /\ Shapes
  BY DEF ShapeInv, Shapes
<1>1. job \in WriteJob
  BY <1>0, WritingLeaves, JobShapes DEF WorkPCs, Shapes
<1>2. job.write \in WrittenRows
  BY <1>1 DEF WriteJob, WrittenRows
<1>3. job.write.rows \in Contents /\ job.write.wid \in Nat
  BY <1>2 DEF WrittenRows
<1>4. ASSUME NEW from, NEW to, NEW p, Write(from, to, p)
      PROVE  job.pc = from /\ job'.pc = to /\ part' = p
  BY <1>1, <1>4 DEF Write, WriteJob
<1>5. /\ job.pc \in Committing \ {"rows", "rename_sidecar"} => part.staged = {}
      /\ job.pc \in {"rows", "rename_sidecar"} => part.staged = own
  BY DEF CommitInv, WorkPCs
<1> HIDE DEF own
<1>6. CASE StageVersion
  BY <1>0, <1>3, <1>4, <1>5, <1>6, RowsStaged DEF StageVersion, Committing
<1>7. CASE KeepVersion
  BY <1>0, <1>4, <1>5, <1>7, RowsKept DEF KeepVersion, Committing
<1>8. CASE PairStaged \/ PairKept
  <2>1. part' = PairVersion(part) /\ job.pc \in {"pair_staged", "pair_kept"}
        /\ job'.pc \in {"work", "observe"}
    BY <1>4, <1>8 DEF PairStaged, PairKept
  <2>2. part'.staged = part.staged
    BY <1>0, <2>1, VersionPaired DEF Pairing
  <2> QED BY <1>5, <2>1, <2>2 DEF Committing
<1>9. CASE Observe
  <2>1. /\ part' = part \/ part' = Record(part, job.write.rows, job.write.since)
        /\ job'.pc \in {"done", "sidecar"} /\ job.pc = "observe"
    BY <1>4, <1>9 DEF Observe
  <2>2. part'.staged = part.staged
    BY <1>0, <2>1, RecordLeaves
  <2> QED BY <1>5, <2>1, <2>2 DEF Committing
<1>10. CASE Stage
  <2>1. part' = StageSidecar(part, job.write) /\ job.pc = "sidecar" /\ job'.pc = "rows"
    BY <1>4, <1>10 DEF Stage
  <2> QED BY <1>0, <1>2, <1>5, <2>1, SidecarStaged DEF Committing, own
<1>11. CASE Show
  <2>1. part' = RenameRows(part, job.write) /\ job.pc = "rows"
        /\ job'.pc = "rename_sidecar"
    BY <1>4, <1>11 DEF Show
  <2> QED BY <1>0, <1>2, <1>5, <2>1, RowsRenamed
<1>12. CASE CommitSidecar
  <2>1. part' = RenameSidecar(part, job.write) /\ job.pc = "rename_sidecar"
        /\ job'.pc \in {"done", "work"}
    BY <1>4, <1>12 DEF CommitSidecar, AfterCommit
  <2>2. part'.staged = {}
    BY <1>0, <1>2, <1>5, <2>1, SidecarRenamed DEF own
  <2> QED BY <2>1, <2>2
<1> QED BY <1>6, <1>7, <1>8, <1>9, <1>10, <1>11, <1>12 DEF Writing

LEMMA CommitsStep == ShapeInv /\ LockInv /\ CommitInv /\ [Next]_vars => CommitInv'
<1> SUFFICES ASSUME ShapeInv, LockInv, CommitInv, [Next]_vars PROVE CommitInv'
  OBVIOUS
<1>0. PartOK(part) /\ Shapes /\ record.gen \in Nat
      /\ pinning \in [Experiments -> [pc : {"idle", "newest", "existing", "record"},
                                       gen : Nat]]
  BY DEF ShapeInv, Shapes
<1>a. job.pc # "idle" => \A e \in Experiments : pinning[e].pc # "newest"
  BY DEF LockInv
<1>1. ASSUME NEW kind \in {"update", "operator"}, Begin(kind) PROVE CommitInv'
  <2>1. /\ job'.pc = "work" /\ job'.previous = record /\ job'.wrote = FALSE
        /\ record' = [state |-> "updating", gen |-> record.gen] /\ shared = {}
    BY <1>1, JobSteps DEF Begin, UpdaterFree
  <2>2. /\ part' = Sweep(part) /\ UNCHANGED <<pinning, committed>>
    BY <1>1 DEF Begin, readers, ghosts
  <2>3. part'.staged = {} /\ (part.staged = {} => part' = part)
    BY <1>0, <2>2, SweepLeaves
  <2>4. record.state = "committed" => View(part') = committed'
    BY <2>2, <2>3 DEF CommitInv
  <2>5. \A e \in Experiments : pinning'[e].pc # "newest"
    BY <2>1, <2>2 DEF LockInv
  <2>6. record'.state = "updating" /\ record'.gen = record.gen
    BY <2>1
  <2> QED BY <2>1, <2>3, <2>4, <2>5, <2>6 DEF CommitInv
<1>2. CASE \/ \E new \in Answers, truncated \in BOOLEAN : Publish(new, truncated)
           \/ \E i \in DOMAIN part.versions : Restore(i)
  <2>1. /\ job.pc = "work" /\ job'.pc \in {"stage_rows", "keep_rows", "observe"}
        /\ job'.previous = job.previous /\ job'.wrote = job.wrote
        /\ part' = Complete(part)
    BY <1>2, JobSteps
  <2>2. UNCHANGED <<record, pinning, committed>>
    BY <1>2 DEF Publish, Restore, readers, ghosts
  <2>3. part.staged = {} /\ record.state = "updating"
    BY <2>1 DEF CommitInv, WorkPCs
  <2>4. part' = part
    BY <1>0, <2>1, <2>3, CompleteLeaves
  <2>5. ~ job'.wrote /\ job'.previous.state = "committed" => View(part') = committed'
    BY <2>1, <2>2, <2>4 DEF CommitInv, WorkPCs
  <2>6. record'.gen = job'.previous.gen
    BY <2>1, <2>2 DEF CommitInv, WorkPCs
  <2>7. \A e \in Experiments : pinning'[e].pc # "newest"
    BY <1>a, <2>1, <2>2
  <2> QED BY <2>1, <2>2, <2>3, <2>4, <2>5, <2>6, <2>7 DEF CommitInv
<1>3. CASE Rebuild
  <2>1. /\ job.pc = "work" /\ job'.pc = "done"
        /\ job'.previous = job.previous /\ job'.wrote = TRUE
        /\ part' = Rebuilt(part)
    BY <1>3, JobSteps
  <2>2. UNCHANGED <<record, pinning, committed>>
    BY <1>3 DEF Rebuild, readers
  <2>3. /\ part.staged = {} /\ record.state = "updating"
        /\ record.gen = job.previous.gen
    BY <2>1 DEF CommitInv, WorkPCs
  <2>4. part'.staged = {}
    BY <1>0, <2>1, <2>3, RebuiltLeaves
  <2>5. \A e \in Experiments : pinning'[e].pc # "newest"
    BY <1>a, <2>1, <2>2
  <2> QED BY <2>1, <2>2, <2>3, <2>4, <2>5 DEF CommitInv
<1>4. CASE Writing
  <2>1. /\ job.pc \in Committing /\ job'.pc \in Committing \cup {"work", "done"}
        /\ job'.write = job.write /\ job'.previous = job.previous
        /\ job'.wrote = TRUE /\ UNCHANGED <<record, pinning, committed>>
    BY <1>0, <1>4, WritingLeaves
  <2>2. IF job'.pc \in {"rows", "rename_sidecar"}
        THEN part'.staged = {[wid |-> job'.write.wid, since |-> job'.write.since]}
        ELSE part'.staged = {}
    BY <1>4, <2>1, StagedStep
  <2>3. record.state = "updating" /\ record.gen = job.previous.gen
    BY <2>1 DEF CommitInv, WorkPCs
  <2>4. \A e \in Experiments : pinning'[e].pc # "newest"
    BY <1>a, <2>1 DEF Committing
  <2> QED BY <2>1, <2>2, <2>3, <2>4 DEF CommitInv
<1>5. ASSUME NEW vouched \in BOOLEAN, Finish(vouched) PROVE CommitInv'
  <2>1. /\ job.pc \in {"work", "done"} /\ (vouched => ~ job.wrote)
        /\ UNCHANGED <<part, pinning>> /\ job' = Idle
    BY <1>5 DEF Finish, readers
  <2>2. /\ part.staged = {} /\ record.state = "updating"
        /\ record.gen = job.previous.gen
        /\ (~ job.wrote /\ job.previous.state = "committed" => View(part) = committed)
    BY <2>1 DEF CommitInv, WorkPCs
  <2>3. View(part) = committed'
    <3>1. CASE NewIdentity(job.previous, vouched)
      <4>1. record'.gen = record.gen + 1
        BY <1>5, <2>2, <3>1 DEF Finish
      <4>2. record'.gen # record.gen
        BY <1>0, <4>1
      <4> QED BY <1>5, <4>2 DEF Finish
    <3>2. CASE ~ NewIdentity(job.previous, vouched)
      <4>1. vouched /\ job.previous.state = "committed"
        BY <3>2 DEF NewIdentity
      <4>2. record'.gen = record.gen
        BY <1>5, <2>2, <3>2 DEF Finish
      <4> QED BY <1>5, <2>1, <2>2, <4>1, <4>2 DEF Finish
    <3> QED BY <3>1, <3>2
  <2>4. View(part') = View(part) /\ part'.staged = {}
    BY <2>1, <2>2
  <2>5. \A e \in Experiments : pinning'[e].pc # "newest"
    BY <1>a, <2>1
  <2> QED BY <2>1, <2>3, <2>4, <2>5 DEF CommitInv, Idle, WorkPCs, Committing
<1>6. CASE Pin
  <2>1. PICK e \in Experiments : \/ OpenPin(e) \/ CutRelease(e) \/ SelectRelease(e)
                                 \/ RecordPin(e) \/ End(e)
    BY <1>6 DEF Pin
  <2>2. UNCHANGED <<job, record, committed>>
    BY <2>1 DEF OpenPin, CutRelease, SelectRelease, RecordPin, End, ghosts
  <2>3. part' = part
    <3>1. CASE CutRelease(e)
      <4>1. record.state = "committed"
        BY <3>1 DEF CutRelease, CommitInv
      <4>2. part.staged = {}
        BY <4>1 DEF CommitInv
      <4> QED BY <1>0, <3>1, <4>2, SweepLeaves DEF CutRelease
    <3>2. CASE ~ CutRelease(e)
      BY <2>1, <3>2 DEF OpenPin, SelectRelease, RecordPin, End
    <3> QED BY <3>1, <3>2
  <2>4. \A x \in Experiments : pinning'[x].pc = "newest" =>
           record.state = "committed" /\ pinning'[x].gen = record.gen
    <3>1. CASE OpenPin(e)
      BY <1>0, <3>1 DEF OpenPin, SetPin, CommitInv
    <3>2. CASE CutRelease(e)
      BY <1>0, <3>2 DEF CutRelease, SetPin, CommitInv
    <3>3. CASE SelectRelease(e)
      BY <1>0, <3>3 DEF SelectRelease, SetPin, CommitInv
    <3>4. CASE RecordPin(e)
      BY <1>0, <3>4 DEF RecordPin, Unpinning, CommitInv
    <3>5. CASE End(e)
      BY <3>5 DEF End, CommitInv
    <3> QED BY <2>1, <3>1, <3>2, <3>3, <3>4, <3>5
  <2>5. View(part') = View(part)
    BY <2>3
  <2> QED BY <2>2, <2>3, <2>4, <2>5 DEF CommitInv
<1>7. CASE Retention
  <2>1. UNCHANGED <<part, record, pinning, committed>> /\ job'.pc \notin WorkPCs
    BY <1>7 DEF Retention, OpenRetention, ReadConsumers, Retire, CloseRetention,
                readers, ghosts, Idle, WorkPCs, Committing
  <2>2. View(part') = View(part)
    BY <2>1
  <2> QED BY <2>1, <2>2 DEF CommitInv, WorkPCs, Committing
<1>8. CASE Kill
  <2>1. CASE KillJob
    <3>1. UNCHANGED <<part, record, pinning, committed>> /\ job'.pc \notin WorkPCs
      BY <2>1 DEF KillJob, ghosts, Idle, WorkPCs, Committing
    <3>2. View(part') = View(part)
      BY <3>1
    <3> QED BY <3>1, <3>2 DEF CommitInv, WorkPCs, Committing
  <2>2. ASSUME NEW e \in Experiments, KillPin(e) PROVE CommitInv'
    <3>1. UNCHANGED <<part, record, job, committed>>
      BY <2>2 DEF KillPin, ghosts
    <3>2. \A x \in Experiments : pinning'[x].pc = "newest" => pinning'[x] = pinning[x]
      BY <1>0, <2>2 DEF KillPin, Unpinning
    <3>3. View(part') = View(part)
      BY <3>1
    <3> QED BY <3>1, <3>2, <3>3 DEF CommitInv
  <2> QED BY <1>8, <2>1, <2>2 DEF Kill
<1>9. CASE UNCHANGED vars
  <2>1. UNCHANGED <<part, record, job, committed, pinning>> /\ View(part') = View(part)
    BY <1>9 DEF vars
  <2> QED BY <2>1 DEF CommitInv
<1> QED BY <1>1, <1>2, <1>3, <1>4, <1>5, <1>6, <1>7, <1>8, <1>9 DEF Next, Job

LEMMA CommitInit == Init => LockInv /\ CommitInv
<1> SUFFICES ASSUME Init PROVE LockInv /\ CommitInv
  OBVIOUS
<1>1. PICK rows \in Contents, wid \in Nat : part = Partition(rows, wid)
  BY EmptyRows, LakeAssumption DEF Init, Never
<1>2. part.staged = {}
  BY <1>1, PartitionShape
<1>3. /\ job = Idle /\ shared = {} /\ committed = View(part)
      /\ pinning = [e \in Experiments |-> Unpinning]
  BY DEF Init
<1> QED BY <1>2, <1>3
     DEF LockInv, CommitInv, Idle, Unpinning, WorkPCs, Committing

(* One generation, one content (cron_update.py:804-812, research_release.py:1-9): a    *)
(* release that is cut shows what the lake showed when its generation was committed,    *)
(* for any partition, vendor answers, jobs that died anywhere, sweeps and experiments.  *)
THEOREM ReleaseAlwaysCommitted == Spec => ReleaseIsCommitted
<1> DEFINE Inv == ShapeInv /\ LockInv /\ CommitInv
<1>1. Init => Inv
  BY ShapesInit, CommitInit
<1>2. Inv /\ [Next]_vars => Inv'
  BY ShapesStep, LocksStep, CommitsStep
<1>3. Inv /\ [Next]_vars => [releases' \subseteq releases \/ View(part') = committed]_vars
  <2> SUFFICES ASSUME Inv, Next
               PROVE  releases' \subseteq releases \/ View(part') = committed
    OBVIOUS
  <2>1. CASE Job
    BY <2>1, JobMovesNoPin DEF readers
  <2>2. ASSUME NEW e \in Experiments, CutRelease(e)
        PROVE  View(part') = committed
    <3>1. record.state = "committed"
      BY <2>2 DEF CutRelease, CommitInv
    <3>2. part.staged = {} /\ View(part) = committed /\ PartOK(part)
      BY <3>1 DEF CommitInv, ShapeInv, Shapes
    <3>3. part' = part
      BY <2>2, <3>2, SweepLeaves DEF CutRelease
    <3> QED BY <3>2, <3>3
  <2>3. CASE Pin /\ ~ (\E e \in Experiments : CutRelease(e))
    BY <2>3 DEF Pin, OpenPin, SelectRelease, RecordPin, End
  <2>4. CASE Retention
    BY <2>4 DEF Retention, OpenRetention, ReadConsumers, Retire, CloseRetention, readers
  <2>5. CASE Kill
    BY <2>5 DEF Kill, KillJob, KillPin
  <2> QED BY <2>1, <2>2, <2>3, <2>4, <2>5 DEF Next
<1> QED BY <1>1, <1>2, <1>3, PTL DEF Spec, ReleaseIsCommitted

-----------------------------------------------------------------------------
(* Nothing is lost: a commit replaces the visible rows only when the new ones   *)
(* hold them or a complete version does.                                        *)

\* What the versions that can be restored hold.
Restorable(p) ==
    UNION {Pairs(p.versions[i].rows) :
              i \in {j \in DOMAIN p.versions : p.versions[j].paired}}
LostInv ==
    /\ ~ Exists(part) => part.rows = NoRows
    /\ \A i \in DOMAIN part.versions : part.versions[i].wid # Never
    /\ job.pc \in Committing => job.write.wid # Never
    /\ job.pc = "keep_rows" => Exists(part)
    /\ job.pc = "pair_kept" => part.versions[Len(part.versions)].rows = part.rows
    /\ job.pc \in {"observe", "sidecar", "rows"} =>
          Pairs(part.rows) \subseteq Pairs(job.write.rows) \cup Restorable(part)

LEMMA LostIs ==
    /\ NothingLost <=> shown \subseteq Pairs(part.rows) \cup Restorable(part)
    /\ NothingLost' <=> shown' \subseteq Pairs(part'.rows) \cup Restorable(part')
BY DEF NothingLost, Restorable

LEMMA RestorableGrows ==
    ASSUME NEW p, NEW q,
           \A i \in DOMAIN p.versions :
              /\ i \in DOMAIN q.versions /\ q.versions[i].rows = p.versions[i].rows
              /\ p.versions[i].paired => q.versions[i].paired
    PROVE  Restorable(p) \subseteq Restorable(q)
<1> SUFFICES ASSUME NEW x \in Restorable(p) PROVE x \in Restorable(q)
  OBVIOUS
<1>1. PICK i \in DOMAIN p.versions : p.versions[i].paired /\ x \in Pairs(p.versions[i].rows)
  BY DEF Restorable
<1>2. /\ i \in DOMAIN q.versions /\ q.versions[i].rows = p.versions[i].rows
      /\ q.versions[i].paired
  BY <1>1
<1> QED BY <1>1, <1>2 DEF Restorable

\* The decision of a write: what is shown next holds what is shown, unless it is kept.
LEMMA DecidedKeeps ==
    ASSUME NEW p, ~ Exists(p) => p.rows = NoRows, NEW new, NEW truncated \in BOOLEAN,
           Outcome(p, new, truncated) \notin {"defect", "unchanged", "staged", "restated"}
    PROVE  Pairs(p.rows) \subseteq Pairs(new)
<1>1. CASE ~ Exists(p)
  <2>1. DOMAIN p.rows = {}
    BY <1>1 DEF NoRows
  <2> QED BY <2>1 DEF Pairs
<1>2. CASE Exists(p) /\ p.rows = new
  BY <1>2
<1>3. CASE Exists(p) /\ p.rows # new
  BY <1>3 DEF Outcome, Restates
<1> QED BY <1>1, <1>2, <1>3

LEMMA RestatedExists ==
    ASSUME NEW p, NEW new, NEW truncated, Outcome(p, new, truncated) = "restated"
    PROVE  Exists(p)
  BY DEF Outcome

LEMMA LostInit == Init => LostInv /\ NothingLost
<1> SUFFICES ASSUME Init PROVE LostInv /\ NothingLost
  OBVIOUS
<1>1. PICK rows \in Contents, wid \in Nat :
        part = Partition(rows, wid) /\ (wid = Never => rows = NoRows)
  BY EmptyRows, LakeAssumption DEF Init, Never
<1>2. part.rows = rows /\ part.wid = wid /\ part.versions = << >>
  BY <1>1, PartitionShape
<1>3. job.pc = "idle" /\ shown = Pairs(part.rows)
  BY DEF Init, Idle
<1>4. NothingLost
  BY <1>3 DEF NothingLost
<1> QED BY <1>1, <1>2, <1>3, <1>4 DEF LostInv, Exists, Committing

\* A step that leaves the visible pair and the versions, and starts no commit.
LEMMA LostFrame ==
    ASSUME LostInv, NothingLost,
           part'.rows = part.rows, part'.wid = part.wid, part'.versions = part.versions,
           shown' = shown, job'.pc \in Committing => job' = job
    PROVE  LostInv' /\ NothingLost'
<1>1. Restorable(part)' = Restorable(part) /\ Exists(part)' = Exists(part)
  BY DEF Restorable, Exists
<1>2. NothingLost'
  BY DEF NothingLost
<1>3. job'.pc \in {"keep_rows", "pair_kept", "observe", "sidecar", "rows"}
        => job'.pc \in Committing
  BY DEF Committing
<1>4. /\ ~ Exists(part') => part'.rows = NoRows
      /\ \A i \in DOMAIN part'.versions : part'.versions[i].wid # Never
  BY <1>1 DEF LostInv
<1>5. CASE job' = job
  BY <1>1, <1>2, <1>5 DEF LostInv
<1>6. CASE job'.pc \notin Committing
  BY <1>1, <1>2, <1>3, <1>4, <1>6 DEF LostInv
<1> QED BY <1>5, <1>6

LEMMA LostDecided ==
    ASSUME ShapeInv, LostInv, NothingLost,
           \/ \E new \in Answers, truncated \in BOOLEAN : Publish(new, truncated)
           \/ \E i \in DOMAIN part.versions : Restore(i)
    PROVE  LostInv' /\ NothingLost'
<1>0. PartOK(part) /\ Shapes /\ clock \in Nat
  BY DEF ShapeInv, Shapes
<1>1. part' = Complete(part) /\ shown' = shown
  BY JobSteps, Zenon DEF Publish, Restore, ghosts
<1>2. /\ part'.rows = part.rows /\ part'.wid = part.wid
      /\ part'.versions = part.versions
  BY <1>0, <1>1, CompleteLeaves
<1>3. Restorable(part') = Restorable(part) /\ (Exists(part') <=> Exists(part))
  BY <1>2 DEF Restorable, Exists
<1>4. NothingLost'
  BY <1>1, <1>2 DEF NothingLost
<1>5. /\ job'.pc \in {"stage_rows", "keep_rows", "observe"}
      /\ job'.write.wid # Never
      /\ job'.pc = "keep_rows" => Exists(part')
      /\ job'.pc = "observe" => Pairs(part'.rows) \subseteq Pairs(job'.write.rows)
  <2>1. ASSUME NEW new \in Answers, NEW truncated \in BOOLEAN, Publish(new, truncated)
        PROVE  <1>5!:
    <3> DEFINE outcome == Outcome(part', new, truncated)
    <3>1. /\ job'.pc \in {"stage_rows", "keep_rows", "observe"}
          /\ job'.write.rows = new /\ job'.write.wid = clock + 1
      BY <2>1, JobSteps
    <3>2. /\ outcome \notin {"defect", "unchanged"}
          /\ job' = [job EXCEPT !.pc = CASE outcome = "staged" -> "stage_rows"
                                         [] outcome = "restated" -> "keep_rows"
                                         [] OTHER -> "observe",
                                !.write = [rows |-> new, wid |-> clock + 1,
                                           since |-> clock + 1]]
      BY <1>1, <2>1 DEF Publish
    <3>3. job \in WriteJob
      BY <1>0, <2>1, JobShapes DEF Publish, Shapes, WorkPCs
    <3> HIDE DEF outcome
    <3>4. job'.pc = CASE outcome = "staged" -> "stage_rows"
                      [] outcome = "restated" -> "keep_rows"
                      [] OTHER -> "observe"
      BY <3>2, <3>3 DEF WriteJob
    <3>5. job'.pc = "observe" => outcome \notin {"defect", "unchanged", "staged", "restated"}
      BY <3>2, <3>4
    <3>6. job'.pc = "keep_rows" => outcome = "restated"
      BY <3>4
    <3>7. job'.pc = "keep_rows" => Exists(part')
      BY <3>6, RestatedExists DEF outcome
    <3>8. ~ Exists(part') => part'.rows = NoRows
      BY <1>2, <1>3 DEF LostInv
    <3>9. job'.pc = "observe" => Pairs(part'.rows) \subseteq Pairs(job'.write.rows)
      BY <3>1, <3>5, <3>8, DecidedKeeps DEF outcome
    <3>10. job'.write.wid # Never
      BY <1>0, <3>1 DEF Never
    <3> QED BY <3>1, <3>7, <3>9, <3>10
  <2>2. ASSUME NEW i \in DOMAIN part.versions, Restore(i)
        PROVE  <1>5!:
    <3>1. /\ job'.pc \in {"keep_rows", "observe"}
          /\ job'.write.wid = part.versions[i].wid
      BY <2>2, JobSteps
    <3>2. job \in WriteJob
      BY <1>0, <2>2, JobShapes DEF Restore, Shapes, WorkPCs
    <3>3. job' = [job EXCEPT !.pc = IF Exists(part') THEN "keep_rows" ELSE "observe",
                             !.write = [rows |-> part'.versions[i].rows,
                                        wid |-> part'.versions[i].wid,
                                        since |-> clock + 1]]
      BY <1>1, <2>2 DEF Restore
    <3>4. job'.pc = IF Exists(part') THEN "keep_rows" ELSE "observe"
      BY <3>2, <3>3 DEF WriteJob
    <3>5. job'.pc = "observe" => part'.rows = NoRows
      BY <1>2, <1>3, <3>4 DEF LostInv
    <3>6. job'.pc = "observe" => Pairs(part'.rows) = {}
      <4>1. Pairs(NoRows) = {}
        BY DEF Pairs, NoRows
      <4> QED BY <3>5, <4>1
    <3>7. job'.write.wid # Never
      BY <3>1 DEF LostInv
    <3>8. job'.pc = "keep_rows" => Exists(part')
      BY <3>4
    <3> QED BY <3>1, <3>6, <3>7, <3>8
  <2> QED BY <2>1, <2>2
<1>6. /\ ~ Exists(part') => part'.rows = NoRows
      /\ \A i \in DOMAIN part'.versions : part'.versions[i].wid # Never
  BY <1>2, <1>3 DEF LostInv
<1> QED BY <1>4, <1>5, <1>6 DEF LostInv

LEMMA LostWriting ==
    ASSUME ShapeInv, LostInv, NothingLost, Writing
    PROVE  LostInv' /\ NothingLost'
<1>0. PartOK(part) /\ Pairing /\ Shapes /\ Len(part.versions) \in Nat
      /\ DOMAIN part.versions = 1 .. Len(part.versions)
  BY DEF ShapeInv, Shapes, PartOK
<1>1. job \in WriteJob /\ job'.write = job.write /\ job.pc \in Committing
  BY <1>0, WritingLeaves, JobShapes DEF WorkPCs, Shapes
<1>2. job.write \in WrittenRows
  BY <1>1 DEF WriteJob, WrittenRows
<1>3. /\ job.write.rows \in Contents /\ job.write.wid \in Nat
      /\ job.write.wid # Never
  BY <1>1, <1>2 DEF WrittenRows, LostInv
<1>4. ASSUME NEW from, NEW to, NEW p, Write(from, to, p)
      PROVE  job.pc = from /\ job'.pc = to /\ part' = p
  BY <1>1, <1>4 DEF Write, WriteJob
<1>5. CASE StageVersion
  <2>1. /\ part' = StageRows(part, job.write.rows, job.write.wid)
        /\ job'.pc = "pair_staged" /\ shown' = shown
    BY <1>4, <1>5 DEF StageVersion
  <2>2. /\ part'.rows = part.rows /\ part'.wid = part.wid
        /\ part'.versions[Len(part'.versions)].wid = job.write.wid
        /\ \A i \in DOMAIN part'.versions :
             i \in DOMAIN part.versions \/ i = Len(part'.versions)
        /\ \A i \in DOMAIN part.versions :
             i \in DOMAIN part'.versions /\ part'.versions[i] = part.versions[i]
    BY <1>0, <1>3, <2>1, RowsStaged
  <2>3. Restorable(part) \subseteq Restorable(part')
    BY <2>2, RestorableGrows
  <2>4. \A i \in DOMAIN part'.versions : part'.versions[i].wid # Never
    BY <1>3, <2>2 DEF LostInv
  <2>5. NothingLost'
    <3>1. part'.rows = part.rows /\ shown' = shown
      BY <2>1, <2>2
    <3> QED BY <2>3, <3>1, LostIs, Zenon
  <2>6. ~ Exists(part') => part'.rows = NoRows
    BY <2>2 DEF LostInv, Exists
  <2>7. job'.pc = "pair_staged" /\ job'.write.wid # Never
    BY <1>1, <1>3, <2>1
  <2> QED BY <2>4, <2>5, <2>6, <2>7 DEF LostInv
<1>6. CASE KeepVersion
  <2>1. /\ part' = KeepRows(part) /\ job.pc = "keep_rows"
        /\ job'.pc = "pair_kept" /\ shown' = shown
    BY <1>4, <1>6 DEF KeepVersion
  <2>2. /\ part'.rows = part.rows /\ part'.wid = part.wid
        /\ part'.versions[Len(part'.versions)].rows = part.rows
        /\ part'.versions[Len(part'.versions)].wid = part.wid
        /\ \A i \in DOMAIN part'.versions :
             i \in DOMAIN part.versions \/ i = Len(part'.versions)
        /\ \A i \in DOMAIN part.versions :
             i \in DOMAIN part'.versions /\ part'.versions[i] = part.versions[i]
    BY <1>0, <2>1, RowsKept
  <2>3. Restorable(part) \subseteq Restorable(part')
    BY <2>2, RestorableGrows
  <2>4. part.wid # Never
    BY <2>1 DEF LostInv, Exists
  <2>5. \A i \in DOMAIN part'.versions : part'.versions[i].wid # Never
    BY <2>2, <2>4 DEF LostInv
  <2>6. NothingLost'
    <3>1. part'.rows = part.rows /\ shown' = shown
      BY <2>1, <2>2
    <3> QED BY <2>3, <3>1, LostIs, Zenon
  <2> QED BY <1>1, <1>3, <2>1, <2>2, <2>5, <2>6 DEF LostInv, Exists
<1>7. CASE PairStaged \/ PairKept
  <2>1. /\ part' = PairVersion(part) /\ job.pc \in {"pair_staged", "pair_kept"}
        /\ job'.pc = (IF job.pc = "pair_kept" THEN "observe" ELSE "work")
        /\ shown' = shown
    BY <1>4, <1>7 DEF PairStaged, PairKept
  <2>0. Len(part.versions) > 0
    BY <1>0, <2>1 DEF Pairing
  <2>2. /\ part'.rows = part.rows /\ part'.wid = part.wid
        /\ DOMAIN part'.versions = DOMAIN part.versions
        /\ \A i \in DOMAIN part.versions :
             /\ part'.versions[i].rows = part.versions[i].rows
             /\ part'.versions[i].wid = part.versions[i].wid
        /\ \A i \in DOMAIN part.versions :
             part'.versions[i].paired = (part.versions[i].paired \/ i = Len(part.versions))
    BY <1>0, <2>0, <2>1, VersionPaired
  <2>3. Restorable(part) \subseteq Restorable(part')
    <3>1. \A i \in DOMAIN part.versions :
             /\ i \in DOMAIN part'.versions
             /\ part'.versions[i].rows = part.versions[i].rows
             /\ part.versions[i].paired => part'.versions[i].paired
      BY <2>2, Zenon
    <3> QED BY <3>1, RestorableGrows
  <2>4. \A i \in DOMAIN part'.versions : part'.versions[i].wid # Never
    BY <2>2 DEF LostInv
  <2>5. NothingLost'
    BY <2>1, <2>2, <2>3 DEF NothingLost, Restorable
  <2>6. job'.pc = "observe" => Pairs(part'.rows) \subseteq Restorable(part')
    <3> SUFFICES ASSUME job'.pc = "observe"
                 PROVE  Pairs(part'.rows) \subseteq Restorable(part')
      OBVIOUS
    <3> DEFINE n == Len(part.versions)
    <3>1. n \in DOMAIN part.versions
      BY <1>0, <2>0
    <3>2. part.versions[n].rows = part.rows
      BY <2>1 DEF LostInv
    <3>3. part'.versions[n].paired /\ n \in DOMAIN part'.versions
      BY <2>2, <3>1, Zenon
    <3>4. part'.versions[n].rows = part'.rows
      BY <2>2, <3>1, <3>2
    <3> HIDE DEF n
    <3> QED BY <3>3, <3>4 DEF Restorable
  <2>7. job'.pc \in {"observe", "work"}
    BY <2>1
  <2> QED BY <1>1, <1>3, <2>2, <2>4, <2>5, <2>6, <2>7 DEF LostInv, Exists
<1>8. CASE Observe \/ Stage
  <2>1. /\ \/ part' = part
           \/ part' = Record(part, job.write.rows, job.write.since)
           \/ part' = StageSidecar(part, job.write)
        /\ job.pc \in {"observe", "sidecar"} /\ job'.pc \in {"done", "sidecar", "rows"}
        /\ shown' = shown
    BY <1>4, <1>8 DEF Observe, Stage
  <2>2. /\ part'.rows = part.rows /\ part'.wid = part.wid
        /\ part'.versions = part.versions
    BY <1>0, <1>2, <2>1, RecordLeaves, SidecarStaged
  <2>3. Restorable(part') = Restorable(part) /\ (Exists(part') <=> Exists(part))
    BY <2>2 DEF Restorable, Exists
  <2>4. NothingLost'
    BY <2>1, <2>2 DEF NothingLost
  <2>5. Pairs(part'.rows) \subseteq Pairs(job'.write.rows) \cup Restorable(part')
    BY <1>1, <2>1, <2>2, <2>3 DEF LostInv
  <2>6. /\ ~ Exists(part') => part'.rows = NoRows
        /\ \A i \in DOMAIN part'.versions : part'.versions[i].wid # Never
    BY <2>2, <2>3 DEF LostInv
  <2> QED BY <1>1, <1>3, <2>1, <2>4, <2>5, <2>6 DEF LostInv
<1>9. CASE Show
  <2>1. /\ part' = RenameRows(part, job.write) /\ job.pc = "rows"
        /\ job'.pc = "rename_sidecar"
        /\ shown' = shown \cup Pairs(job.write.rows)
    BY <1>4, <1>9 DEF Show
  <2>2. /\ part'.rows = job.write.rows /\ part'.wid = job.write.wid
        /\ part'.versions = part.versions
    BY <1>0, <1>2, <2>1, RowsRenamed
  <2>3. Restorable(part') = Restorable(part) /\ Exists(part')
    BY <1>3, <2>2 DEF Restorable, Exists
  <2>4. Pairs(part.rows) \subseteq Pairs(part'.rows) \cup Restorable(part')
    BY <2>1, <2>2, <2>3 DEF LostInv
  <2>5. shown' \subseteq Pairs(part'.rows) \cup Restorable(part')
    BY <2>1, <2>2, <2>3, <2>4 DEF NothingLost, Restorable
  <2>6. NothingLost'
    BY <2>5 DEF NothingLost, Restorable
  <2>7. \A i \in DOMAIN part'.versions : part'.versions[i].wid # Never
    BY <2>2 DEF LostInv
  <2> QED BY <1>1, <1>3, <2>1, <2>3, <2>6, <2>7 DEF LostInv
<1>10. CASE CommitSidecar
  <2>1. /\ part' = RenameSidecar(part, job.write) /\ job'.pc \in {"done", "work"}
        /\ shown' = shown
    BY <1>4, <1>10 DEF CommitSidecar, AfterCommit
  <2>2. /\ part'.rows = part.rows /\ part'.wid = part.wid
        /\ part'.versions = part.versions
    BY <1>0, <1>2, <2>1, SidecarRenamed
  <2> QED BY <2>1, <2>2, LostFrame DEF Committing
<1> QED BY <1>5, <1>6, <1>7, <1>8, <1>9, <1>10 DEF Writing

LEMMA LostStep == ShapeInv /\ LostInv /\ NothingLost /\ [Next]_vars
                    => LostInv' /\ NothingLost'
<1> SUFFICES ASSUME ShapeInv, LostInv, NothingLost, [Next]_vars
             PROVE  LostInv' /\ NothingLost'
  OBVIOUS
<1>0. PartOK(part)
  BY DEF ShapeInv, Shapes
<1>1. CASE \E kind \in {"update", "operator"} : Begin(kind)
  <2>1. job'.pc = "work" /\ part' = Sweep(part) /\ shown' = shown
    BY <1>1, JobSteps DEF Begin, ghosts
  <2> QED BY <1>0, <2>1, SweepLeaves, LostFrame DEF Committing
<1>2. CASE \/ \E new \in Answers, truncated \in BOOLEAN : Publish(new, truncated)
           \/ \E i \in DOMAIN part.versions : Restore(i)
  BY <1>2, LostDecided
<1>3. CASE Rebuild
  <2>1. job'.pc = "done" /\ part' = Rebuilt(part) /\ shown' = shown
    BY <1>3, JobSteps DEF Rebuild
  <2> QED BY <1>0, <2>1, RebuiltLeaves, LostFrame DEF Committing
<1>4. CASE Writing
  BY <1>4, LostWriting
<1>5. CASE \E vouched \in BOOLEAN : Finish(vouched)
  <2>1. part' = part /\ shown' = shown /\ job'.pc \notin Committing
    BY <1>5 DEF Finish, Idle, Committing
  <2> QED BY <2>1, LostFrame
<1>6. CASE Pin
  <2>1. job' = job /\ shown' = shown /\ part' \in {part, Sweep(part)}
    BY <1>6 DEF Pin, OpenPin, CutRelease, SelectRelease, RecordPin, End, ghosts
  <2>2. /\ part'.rows = part.rows /\ part'.wid = part.wid
        /\ part'.versions = part.versions
    BY <1>0, <2>1, SweepLeaves
  <2> QED BY <2>1, <2>2, LostFrame
<1>7. CASE Retention
  <2>1. part' = part /\ shown' = shown /\ (job'.pc \in Committing => job' = job)
    BY <1>7 DEF Retention, OpenRetention, ReadConsumers, Retire, CloseRetention,
                ghosts, Idle, Committing
  <2> QED BY <2>1, LostFrame
<1>8. CASE Kill
  <2>1. part' = part /\ shown' = shown /\ (job'.pc \in Committing => job' = job)
    BY <1>8 DEF Kill, KillJob, KillPin, ghosts, Idle, Committing
  <2> QED BY <2>1, LostFrame
<1>9. CASE UNCHANGED vars
  BY <1>9, LostFrame DEF vars
<1> QED BY <1>1, <1>2, <1>3, <1>4, <1>5, <1>6, <1>7, <1>8, <1>9 DEF Next, Job

(* Whatever was once visible is visible still or in a version that can be restored    *)
(* (versions.py:8-14), whenever the writer dies between two of its writes, for any     *)
(* keys, values, vendor answers and restores.                                          *)
THEOREM NothingEverLost == Spec => []NothingLost
<1> DEFINE Inv == ShapeInv /\ LostInv /\ NothingLost
<1>1. Init => Inv
  BY ShapesInit, LostInit
<1>2. Inv /\ [Next]_vars => Inv'
  BY ShapesStep, LostStep
<1> QED BY <1>1, <1>2, PTL DEF Spec

-----------------------------------------------------------------------------
(* First-seen times.  A sidecar carries the instant of the content it stands *)
(* beside; what a killed commit left staged is in place after the next sweep. *)

LEMMA Least ==
    ASSUME NEW S, S \subseteq Nat, S # {}
    PROVE  \E i \in S : \A j \in S : i <= j
<1> DEFINE R == {p \in Nat \X Nat : p[1] < p[2]}
<1>1. IsWellFoundedOn(R, Nat)
  BY NatLessThanWellFounded DEF OpToRel
<1> HIDE DEF R
<1>2. PICK i \in S : \A j \in S : ~ (<<j, i>> \in R)
  BY <1>1, WFMin
<1>3. \A j \in S : ~ (j < i)
  BY <1>2 DEF R
<1> QED BY <1>3

\* The instant of the visible content, its sidecar in place.
Since(p) == Complete(p).side.since
\* The sidecar is in place, or staged.
Whole(p) == Intact(p) \/ (Exists(p) /\ \E s \in p.staged : s.wid = p.wid)

LEMMA SinceIs ==
    ASSUME NEW p, PartOK(p)
    PROVE  /\ Since(p) \in Nat
           /\ p.staged = {} \/ Intact(p) => Since(p) = p.side.since
           /\ \A s : p.staged = {s} /\ s.wid = p.wid /\ ~ Intact(p) /\ Exists(p)
                      => Since(p) = s.since
           /\ Since(Sweep(p)) = Since(p)
           /\ Whole(p) => Intact(Sweep(p))
<1> DEFINE own == {s \in p.staged : s.wid = p.wid}
<1> DEFINE c == Complete(p)
<1>1. CASE Exists(p) /\ ~ Intact(p) /\ own # {}
  <2> DEFINE s == CHOOSE x \in own : TRUE
  <2>1. s \in own
    BY <1>1
  <2>2. c = [p EXCEPT !.side = s, !.staged = @ \ own]
    BY <1>1 DEF Complete
  <2> HIDE DEF s
  <2>3. c = [rows |-> p.rows, wid |-> p.wid, side |-> s, staged |-> p.staged \ own,
             obs |-> p.obs, versions |-> p.versions]
    BY <2>2 DEF PartOK
  <2>4. s \in Era /\ s.wid = p.wid
    BY <2>1 DEF PartOK
  <2> HIDE DEF c
  <2>5. Sweep(p) = [c EXCEPT !.staged = {}]
    BY DEF Sweep, c
  <2>6. Sweep(p) = [rows |-> p.rows, wid |-> p.wid, side |-> s, staged |-> {},
                    obs |-> p.obs, versions |-> p.versions]
    BY <2>3, <2>5
  <2>7. Intact(Sweep(p))
    BY <2>4, <2>6 DEF Intact
  <2>8. Complete(Sweep(p)) = Sweep(p)
    BY <2>7 DEF Complete
  <2>9. Since(p) = s.since /\ Since(Sweep(p)) = s.since
    BY <2>3, <2>6, <2>8 DEF Since, c
  <2> QED BY <1>1, <2>1, <2>4, <2>7, <2>9 DEF Era
<1>2. CASE ~ (Exists(p) /\ ~ Intact(p) /\ own # {})
  <2>1. c = p
    BY <1>2 DEF Complete
  <2>2. Sweep(p) = [p EXCEPT !.staged = {}]
    BY <2>1 DEF Sweep
  <2>3. Sweep(p) = [rows |-> p.rows, wid |-> p.wid, side |-> p.side, staged |-> {},
                    obs |-> p.obs, versions |-> p.versions]
    BY <2>2 DEF PartOK
  <2>4. Complete(Sweep(p)) = Sweep(p)
    <3>1. {s \in Sweep(p).staged : s.wid = Sweep(p).wid} = {}
      BY <2>3
    <3> QED BY <3>1, Zenon DEF Complete
  <2>5. Since(p) = p.side.since /\ Since(Sweep(p)) = p.side.since
    BY <2>1, <2>3, <2>4 DEF Since
  <2>6. Whole(p) => Intact(Sweep(p))
    BY <1>2, <2>3 DEF Whole, Intact
  <2>7. p.side \in Era
    BY DEF PartOK
  <2> QED BY <1>2, <2>5, <2>6, <2>7 DEF Era
<1> QED BY <1>1, <1>2

\* What the table of q holds after a commit has recorded the new keys of p.
Recorded(p, q, new, at) ==
    /\ DOMAIN q.obs = DOMAIN Observations(p) \cup Added(p.rows, new)
    /\ \A k \in DOMAIN q.obs :
          q.obs[k] = IF k \in DOMAIN Observations(p) THEN p.obs[k] ELSE at
    /\ Exists(p) =>
          DOMAIN Observations(p) = {k \in DOMAIN p.obs : p.obs[k] <= p.side.since}
    /\ ~ Exists(p) => DOMAIN Observations(p) = {}

LEMMA RecordSeen ==
    ASSUME NEW p, PartOK(p), NEW new, NEW at
    PROVE  Recorded(p, Record(p, new, at), new, at)
<1> DEFINE known == Observations(p)
<1> DEFINE o == [k \in DOMAIN known \cup Added(p.rows, new) |->
                    IF k \in DOMAIN known THEN known[k] ELSE at]
<1>1. Exists(p) => /\ DOMAIN known = {k \in DOMAIN p.obs : p.obs[k] <= p.side.since}
                   /\ \A k \in DOMAIN known : known[k] = p.obs[k]
  BY DEF Observations
<1>2. ~ Exists(p) => DOMAIN known = {}
  BY DEF Observations, NoRows
<1>3. Record(p, new, at) = [p EXCEPT !.obs = o]
  BY DEF Record
<1> HIDE DEF known
<1>4. /\ DOMAIN o = DOMAIN known \cup Added(p.rows, new)
      /\ \A k \in DOMAIN o : o[k] = IF k \in DOMAIN known THEN p.obs[k] ELSE at
  BY <1>1, <1>2
<1> HIDE DEF o
<1>5. Record(p, new, at).obs = o
  BY <1>3 DEF PartOK
<1> QED BY <1>1, <1>2, <1>4, <1>5 DEF known, Recorded

\* The states a rebuilt table is made from, and what it holds: a key that is visible
\* is in it, unless a state before versioning held it.
Kept(p) == {p.versions[i] : i \in Superseded(p)}
LEMMA RebuiltSeen ==
    ASSUME NEW p, PartOK(p)
    PROVE  LET o == Rebuilt(p).obs
               Held(k, at) == \/ k \in DOMAIN p.rows /\ at = p.side.since
                              \/ \E v \in Kept(p) : k \in DOMAIN v.rows /\ at = v.since
           IN  /\ \A k \in DOMAIN o : Held(k, o[k])
               /\ \A k \in DOMAIN p.rows : k \in DOMAIN o \/ Held(k, Never)
<1> DEFINE current == Version("current", p.rows, p.wid, p.side.since)
<1> DEFINE states == Append(p.versions, current)
<1> DEFINE last == Len(states)
<1> DEFINE kept == Superseded(p) \cup {last}
<1> DEFINE Holds(i, k) == k \in DOMAIN states[i].rows
<1> DEFINE Follows(j, i) == j < i /\ \A h \in kept : h <= j \/ h >= i
<1> DEFINE Newly(k) == {i \in kept : /\ states[i].since # Never /\ Holds(i, k)
                                     /\ \A j \in kept : Follows(j, i) => ~ Holds(j, k)}
<1> DEFINE First(S) == CHOOSE i \in S : \A j \in S : i <= j
<1> DEFINE o == [k \in {key \in Keys : Newly(key) # {}} |-> states[First(Newly(k))].since]
<1> DEFINE Held(k, at) == \/ k \in DOMAIN p.rows /\ at = p.side.since
                          \/ \E v \in Kept(p) : k \in DOMAIN v.rows /\ at = v.since
<1>1. Rebuilt(p).obs = o
  <2>1. Rebuilt(p) = [p EXCEPT !.obs = o]
    BY DEF Rebuilt
  <2> HIDE DEF o
  <2> QED BY <2>1 DEF PartOK
<1>2. /\ p.versions \in Seq(KeptVersion) /\ p.rows \in Contents
      /\ current.rows = p.rows /\ current.since = p.side.since
  BY DEF PartOK, Version
<1> HIDE DEF current
<1>3. /\ last = Len(p.versions) + 1 /\ Len(p.versions) \in Nat
      /\ states[last] = current
      /\ \A i \in DOMAIN p.versions : states[i] = p.versions[i] /\ i \in 1 .. Len(p.versions)
  BY <1>2
<1>4. Superseded(p) \subseteq DOMAIN p.versions
  BY DEF Superseded
<1>5. kept \subseteq Nat /\ last \in kept /\ \A i \in kept : i <= last
  BY <1>3, <1>4
<1>6. \A i \in kept : \A k : Holds(i, k) => Held(k, states[i].since)
  BY <1>2, <1>3, <1>4 DEF Kept
<1>7. \A k : Holds(last, k) <=> k \in DOMAIN p.rows
  BY <1>2, <1>3
<1> HIDE DEF states, last, Held
<1>8. ASSUME NEW k \in DOMAIN o PROVE Held(k, o[k])
  <2>1. Newly(k) # {} /\ Newly(k) \subseteq Nat
    BY <1>5, <1>8
  <2>2. \E i \in Newly(k) : \A j \in Newly(k) : i <= j
    <3> HIDE DEF Newly
    <3> QED BY <2>1, Least
  <2>3. First(Newly(k)) \in Newly(k)
    <3> HIDE DEF Newly
    <3> QED BY <2>2
  <2>4. o[k] = states[First(Newly(k))].since
    BY <1>8
  <2> HIDE DEF First, o
  <2>5. First(Newly(k)) \in kept /\ Holds(First(Newly(k)), k)
    BY <2>3
  <2> HIDE DEF Newly, kept
  <2> QED BY <1>6, <2>4, <2>5
<1>9. ASSUME NEW k \in DOMAIN p.rows PROVE k \in DOMAIN o \/ Held(k, Never)
  <2> DEFINE S == {i \in kept : \A j \in kept : j >= i => Holds(j, k)}
  <2>1. last \in S
    <3>1. \A j \in kept : j >= last => j = last
      BY <1>5
    <3> QED BY <1>5, <1>7, <3>1
  <2>2. S \subseteq Nat /\ S # {}
    BY <1>5, <2>1
  <2>3. PICK i \in S : \A j \in S : i <= j
    <3> HIDE DEF S
    <3> QED BY <2>2, Least
  <2>4. i \in kept /\ Holds(i, k) /\ i \in Nat
    BY <1>5, <2>2, <2>3
  <2>5. ASSUME NEW j \in kept, Follows(j, i), Holds(j, k) PROVE FALSE
    <3>1. j \in S
      <4>1. \A h \in kept : h >= j => h = j \/ h >= i
        BY <1>5, <2>5
      <4> QED BY <2>3, <2>5, <4>1
    <3>2. j < i /\ i <= j
      BY <2>3, <2>5, <3>1
    <3> QED BY <1>5, <2>4, <3>2
  <2>6. CASE states[i].since = Never
    BY <1>6, <2>4, <2>6
  <2>7. CASE states[i].since # Never
    <3>1. i \in Newly(k)
      BY <2>4, <2>5, <2>7
    <3>2. k \in Keys
      BY <1>2 DEF Contents
    <3> QED BY <3>1, <3>2
  <2> QED BY <2>6, <2>7
<1> HIDE DEF o
<1> QED BY <1>1, <1>8, <1>9 DEF Held

\* Every content that was written or is being written, under its id; one id, one content.
Written ==
    {<<part.wid, part.rows>>}
    \cup {<<part.versions[i].wid, part.versions[i].rows>> : i \in DOMAIN part.versions}
    \cup (IF job.pc \in Committing THEN {<<job.write.wid, job.write.rows>>} ELSE {})
IdInv == \A x, y \in Written : x[1] <= clock /\ (x[1] = y[1] => x[2] = y[2])

\* The visible content has its sidecar, but for a commit between its two renames.
WholeInv ==
    /\ Whole(part)
    /\ job.pc \in WorkPCs \ {"rename_sidecar"} => Intact(part)
    /\ job.pc = "rename_sidecar" => part.wid = job.write.wid

\* A commit's instant is later than that of the content it replaces.
ClockInv ==
    /\ Since(part) <= clock
    /\ job.pc \in Committing => job.write.since <= clock /\ Since(part) <= job.write.since
    /\ job.pc \in Committing \ {"rename_sidecar"} => Since(part) < job.write.since

\* What was shown was shown by the visible content's instant; a visible key is in the
\* table with an instant that counts; what counts in the table was shown, and no later
\* than it says; without a rebuild it says exactly when; and so for kept versions.
TableInv ==
    /\ \A k \in DOMAIN truth : truth[k] \in Nat /\ truth[k] <= Since(part)
    /\ ~ Exists(part) => DOMAIN truth = {}
    /\ \A k \in DOMAIN part.rows :
          /\ k \in DOMAIN truth
          /\ truth[k] # Never => k \in DOMAIN part.obs /\ part.obs[k] <= Since(part)
    /\ \A k \in DOMAIN part.obs :
          /\ part.obs[k] \in Nat
          /\ Exists(part) /\ part.obs[k] <= Since(part) =>
                k \in DOMAIN truth /\ truth[k] <= part.obs[k]
    /\ ~ rebuilt => \A k \in DOMAIN truth :
          truth[k] # Never => k \in DOMAIN part.obs /\ part.obs[k] = truth[k]
    /\ \A v \in Kept(part) :
          /\ v.since <= Since(part)
          /\ \A k \in DOMAIN v.rows : k \in DOMAIN truth /\ truth[k] <= v.since

\* Once a commit has recorded its new keys, the table is right for the content it is
\* about to show.
PendInv ==
    /\ job.pc \in {"sidecar", "rows"} =>
          /\ \A k \in DOMAIN part.obs :
                \/ /\ part.obs[k] <= Since(part)
                   /\ k \in DOMAIN truth /\ truth[k] <= part.obs[k]
                \/ part.obs[k] = job.write.since /\ k \in DOMAIN job.write.rows
          /\ \A k \in DOMAIN job.write.rows : k \in DOMAIN part.rows \cup DOMAIN part.obs
    /\ job.pc = "rename_sidecar" =>
          \A k \in DOMAIN part.obs : /\ k \in DOMAIN truth /\ truth[k] <= part.obs[k]
                                     /\ part.obs[k] <= job.write.since

SeenInv == IdInv /\ WholeInv /\ ClockInv /\ TableInv /\ PendInv

\* Steps that write nothing but, at most, what a killed commit left.
Quiet ==
    /\ part' \in {part, Sweep(part)}
    /\ UNCHANGED <<clock, truth, rebuilt>>
    /\ \/ job' = job
       \/ job'.pc \notin WorkPCs
       \/ job'.pc = "work" /\ part' = Sweep(part)
       \/ job'.pc = "done" /\ job.pc = "observe" /\ part' = part
Decide ==
    \/ \E new \in Answers, truncated \in BOOLEAN : Publish(new, truncated)
    \/ \E i \in DOMAIN part.versions : Restore(i)

LEMMA SeenSteps == ShapeInv /\ [Next]_vars => Quiet \/ Decide \/ Rebuild \/ Writing
<1> SUFFICES ASSUME ShapeInv, [Next]_vars PROVE Quiet \/ Decide \/ Rebuild \/ Writing
  OBVIOUS
<1>1. ASSUME NEW kind \in {"update", "operator"}, Begin(kind) PROVE Quiet
  <2>1. job'.pc = "work"
    BY <1>1, JobSteps
  <2> QED BY <1>1, <2>1 DEF Begin, Quiet, ghosts
<1>2. ASSUME NEW vouched \in BOOLEAN, Finish(vouched) PROVE Quiet
  BY <1>2 DEF Finish, Quiet, Idle, WorkPCs, Committing
<1>3. CASE Pin
  BY <1>3 DEF Pin, OpenPin, CutRelease, SelectRelease, RecordPin, End, ghosts, Quiet
<1>4. CASE Retention
  BY <1>4 DEF Retention, OpenRetention, ReadConsumers, Retire, CloseRetention,
              readers, ghosts, Idle, WorkPCs, Committing, Quiet
<1>5. CASE Kill
  BY <1>5 DEF Kill, KillJob, KillPin, ghosts, Idle, WorkPCs, Committing, Quiet
<1>6. CASE UNCHANGED vars
  BY <1>6 DEF vars, Quiet
<1> QED BY <1>1, <1>2, <1>3, <1>4, <1>5, <1>6 DEF Next, Job, Decide

\* The table stays right while the content it stands beside does.
LEMMA TableFrame ==
    ASSUME TableInv, PartOK(part),
           part'.rows = part.rows, part'.wid = part.wid, part'.obs = part.obs,
           Since(part') = Since(part), UNCHANGED <<truth, rebuilt>>,
           \A v \in Kept(part') :
              \/ \E u \in Kept(part) : v.rows = u.rows /\ v.since = u.since
              \/ v.rows = part.rows /\ v.since = Since(part)
    PROVE  TableInv'
<1>1. Exists(part') <=> Exists(part)
  BY DEF Exists
<1>2. ASSUME NEW v \in Kept(part')
      PROVE  /\ v.since <= Since(part)
             /\ \A k \in DOMAIN v.rows : k \in DOMAIN truth /\ truth[k] <= v.since
  <2>1. CASE \E u \in Kept(part) : v.rows = u.rows /\ v.since = u.since
    BY <2>1 DEF TableInv
  <2>2. CASE v.rows = part.rows /\ v.since = Since(part)
    <3>1. Since(part) \in Nat
      BY SinceIs
    <3> QED BY <2>2, <3>1 DEF TableInv
  <2> QED BY <1>2, <2>1, <2>2
<1> QED BY <1>1, <1>2 DEF TableInv

LEMMA SeenQuiet ==
    ASSUME ShapeInv, SeenInv, Quiet
    PROVE  SeenInv'
<1>1. PartOK(part)
  BY DEF ShapeInv, Shapes
<1>2. /\ part'.rows = part.rows /\ part'.wid = part.wid /\ part'.obs = part.obs
      /\ part'.versions = part.versions /\ Since(part') = Since(part)
  BY <1>1, SweepLeaves, SinceIs DEF Quiet
<1>3. Whole(part) /\ (part' = Sweep(part) => Intact(part'))
  BY <1>1, SinceIs DEF SeenInv, WholeInv
<1>4. Whole(part') /\ (Intact(part) => Intact(part'))
  BY <1>3 DEF Quiet, Whole
<1>5. WholeInv'
  BY <1>2, <1>3, <1>4 DEF WholeInv, SeenInv, Quiet, WorkPCs, Committing
<1>6. job'.pc \in Committing => job' = job
  BY DEF Quiet, WorkPCs, Committing
<1>7. IdInv'
  <2>1. Written' \subseteq Written
    BY <1>2, <1>6 DEF Written
  <2> QED BY <2>1 DEF IdInv, SeenInv, Quiet
<1>8. ClockInv'
  BY <1>2, <1>6 DEF ClockInv, SeenInv, Quiet, Committing
<1>9. TableInv'
  <2>1. Kept(part') = Kept(part)
    BY <1>2 DEF Kept, Superseded
  <2> QED BY <1>1, <1>2, <2>1, TableFrame DEF SeenInv, Quiet
<1>10. PendInv'
  BY <1>2, <1>6 DEF PendInv, SeenInv, Quiet, Committing
<1> QED BY <1>5, <1>7, <1>8, <1>9, <1>10 DEF SeenInv

LEMMA SeenDecide ==
    ASSUME ShapeInv, CommitInv, SeenInv, Decide
    PROVE  SeenInv'
<1>1. PartOK(part) /\ clock \in Nat
  BY DEF ShapeInv, Shapes
<1>2. /\ job.pc = "work" /\ job'.pc \in {"stage_rows", "keep_rows", "observe"}
      /\ job'.write.since = clock + 1 /\ part' = Complete(part)
      /\ \/ job'.write.wid = clock + 1
         \/ <<job'.write.wid, job'.write.rows>> \in Written
  <2>1. ASSUME NEW new \in Answers, NEW truncated \in BOOLEAN, Publish(new, truncated)
        PROVE  <1>2!:
    BY <2>1, JobSteps
  <2>2. ASSUME NEW i \in DOMAIN part.versions, Restore(i)
        PROVE  <1>2!:
    BY <2>2, JobSteps DEF Written
  <2> QED BY <2>1, <2>2 DEF Decide
<1>3. part' = part
  <2>1. part.staged = {}
    BY <1>2 DEF CommitInv, WorkPCs
  <2> QED BY <1>1, <1>2, <2>1, CompleteLeaves
<1>4. clock' = clock + 1 /\ UNCHANGED <<truth, rebuilt>>
  BY DEF Decide, Publish, Restore, ghosts
<1>5. Since(part) \in Nat /\ Since(part) <= clock
  BY <1>1, SinceIs DEF SeenInv, ClockInv
<1>6. IdInv'
  <2> DEFINE w == <<job'.write.wid, job'.write.rows>>
  <2>1. Written' \subseteq Written \cup {w}
    BY <1>3 DEF Written
  <2>2. \A x \in Written : x[1] \in Nat
    <3>1. job.pc \notin Committing
      BY <1>2 DEF Committing
    <3>2. \A i \in DOMAIN part.versions : part.versions[i].wid \in Nat
      <4>1. \A i \in DOMAIN part.versions : part.versions[i] \in KeptVersion
        BY <1>1 DEF PartOK
      <4> QED BY <4>1 DEF KeptVersion
    <3> QED BY <1>1, <3>1, <3>2 DEF Written, PartOK
  <2>3. w[1] = clock + 1 \/ w \in Written
    BY <1>2
  <2>4. \A x, y \in Written : x[1] <= clock /\ (x[1] = y[1] => x[2] = y[2])
    BY DEF SeenInv, IdInv
  <2> HIDE DEF w
  <2>5. ASSUME NEW x \in Written', NEW y \in Written'
        PROVE  x[1] <= clock + 1 /\ (x[1] = y[1] => x[2] = y[2])
    <3>1. x \in Written \/ (x = w /\ w[1] = clock + 1)
      BY <2>1, <2>3
    <3>2. y \in Written \/ (y = w /\ w[1] = clock + 1)
      BY <2>1, <2>3
    <3>3. \A z \in Written : z[1] <= clock + 1 /\ z[1] # clock + 1
      BY <1>1, <2>2, <2>4
    <3> QED BY <1>1, <2>4, <3>1, <3>2, <3>3
  <2> QED BY <1>4, <2>5 DEF IdInv
<1>7. WholeInv'
  BY <1>2, <1>3 DEF SeenInv, WholeInv, WorkPCs
<1>8. ClockInv'
  BY <1>1, <1>2, <1>3, <1>4, <1>5 DEF ClockInv, Committing
<1>9. TableInv'
  BY <1>1, <1>3, <1>4, TableFrame DEF SeenInv
<1>10. PendInv'
  BY <1>2 DEF PendInv
<1> QED BY <1>6, <1>7, <1>8, <1>9, <1>10 DEF SeenInv

\* An operator's rebuild: what the table then holds was held by a state that counts.
LEMMA SeenRebuild ==
    ASSUME ShapeInv, CommitInv, SeenInv, Rebuild
    PROVE  SeenInv'
<1>1. PartOK(part)
  BY DEF ShapeInv, Shapes
<1>2. job.pc = "work" /\ job'.pc = "done" /\ part' = Rebuilt(part) /\ PartOK(part')
  BY JobSteps
<1>3. UNCHANGED <<clock, truth>> /\ rebuilt'
  BY DEF Rebuild
<1>4. /\ part'.rows = part.rows /\ part'.wid = part.wid /\ part'.side = part.side
      /\ part'.versions = part.versions
  BY <1>1, <1>2, RebuiltLeaves
<1>5. Intact(part) /\ Intact(part')
  BY <1>2, <1>4 DEF SeenInv, WholeInv, WorkPCs, Committing, Intact
<1>6. Since(part) = part.side.since /\ Since(part') = part.side.since /\ Since(part) \in Nat
  BY <1>1, <1>2, <1>4, <1>5, SinceIs
<1>7. IdInv'
  <2>1. Written' \subseteq Written
    BY <1>2, <1>4 DEF Written, Committing
  <2> QED BY <1>3, <2>1 DEF IdInv, SeenInv
<1>8. WholeInv'
  BY <1>2, <1>5 DEF WholeInv, Whole
<1>9. ClockInv'
  BY <1>2, <1>3, <1>6 DEF ClockInv, SeenInv, Committing
<1>10. PendInv'
  BY <1>2 DEF PendInv
<1>11. TableInv'
  <2>1. Kept(part') = Kept(part) /\ (Exists(part') <=> Exists(part))
    BY <1>4 DEF Kept, Superseded, Exists
  <2> DEFINE Held(k, at) == \/ k \in DOMAIN part.rows /\ at = part.side.since
                            \/ \E v \in Kept(part) : k \in DOMAIN v.rows /\ at = v.since
  <2>2. ASSUME NEW k, NEW at, Held(k, at)
        PROVE  /\ at \in Nat /\ at <= Since(part)
               /\ k \in DOMAIN truth /\ truth[k] \in Nat /\ truth[k] <= at
    <3>1. CASE k \in DOMAIN part.rows /\ at = part.side.since
      BY <1>6, <3>1 DEF SeenInv, TableInv
    <3>2. CASE \E v \in Kept(part) : k \in DOMAIN v.rows /\ at = v.since
      <4>1. PICK v \in Kept(part) : k \in DOMAIN v.rows /\ at = v.since
        BY <3>2
      <4>2. v.since \in Nat
        <5>1. \A i \in DOMAIN part.versions : part.versions[i] \in KeptVersion
          BY <1>1 DEF PartOK
        <5> QED BY <5>1 DEF Kept, Superseded, KeptVersion
      <4> QED BY <4>1, <4>2 DEF SeenInv, TableInv
    <3> QED BY <2>2, <3>1, <3>2
  <2>3. /\ \A k \in DOMAIN part'.obs : Held(k, part'.obs[k])
        /\ \A k \in DOMAIN part.rows : k \in DOMAIN part'.obs \/ Held(k, Never)
    BY <1>1, <1>2, RebuiltSeen
  <2> HIDE DEF Held
  <2>4. \A k \in DOMAIN part'.obs :
           /\ part'.obs[k] \in Nat /\ part'.obs[k] <= Since(part)
           /\ k \in DOMAIN truth /\ truth[k] <= part'.obs[k]
    BY <2>2, <2>3
  <2>5. \A k \in DOMAIN part.rows : truth[k] # Never => k \in DOMAIN part'.obs
    <3> SUFFICES ASSUME NEW k \in DOMAIN part.rows, k \notin DOMAIN part'.obs
                 PROVE  truth[k] = Never
      OBVIOUS
    <3>1. Held(k, Never)
      BY <2>3
    <3>2. truth[k] \in Nat /\ truth[k] <= Never
      BY <2>2, <3>1
    <3> QED BY <3>2 DEF Never
  <2> QED BY <1>3, <1>4, <1>6, <2>1, <2>4, <2>5 DEF SeenInv, TableInv
<1> QED BY <1>7, <1>8, <1>9, <1>10, <1>11 DEF SeenInv

LEMMA SeenWriting ==
    ASSUME ShapeInv, CommitInv, LostInv, SeenInv, Writing
    PROVE  SeenInv'
<1>1. PartOK(part) /\ PartOK(part') /\ Pairing
  BY WritingShapes DEF ShapeInv, Shapes
<1>2. /\ job \in WriteJob /\ job' \in WriteJob /\ job'.write = job.write
      /\ job.pc \in Committing /\ clock' = clock /\ clock \in Nat
  BY WritingLeaves, JobShapes DEF ShapeInv, Shapes, WorkPCs
<1>3. /\ job.write \in WrittenRows /\ job.write.rows \in Contents
      /\ job.write.wid \in Nat /\ job.write.since \in Nat /\ job.write.wid # Never
  BY <1>2 DEF WriteJob, WrittenRows, LostInv
<1>4. ASSUME NEW from, NEW to, NEW p, Write(from, to, p)
      PROVE  job.pc = from /\ job'.pc = to /\ part' = p /\ rebuilt' = rebuilt
  BY <1>2, <1>4 DEF Write, WriteJob
<1>5. Since(part) \in Nat /\ Since(part') \in Nat
  BY <1>1, SinceIs
<1>6. job.pc # "rename_sidecar" => Intact(part) /\ Since(part) = part.side.since
  BY <1>1, <1>2, SinceIs DEF SeenInv, WholeInv, WorkPCs
<1>7. <<job.write.wid, job.write.rows>> \in Written /\ <<part.wid, part.rows>> \in Written
  BY <1>2 DEF Written
\* A write that leaves the visible pair.
<1>8. ASSUME job.pc # "rename_sidecar", job'.pc # "rename_sidecar",
             part'.rows = part.rows, part'.wid = part.wid, part'.side = part.side,
             \A i \in DOMAIN part'.versions :
                <<part'.versions[i].wid, part'.versions[i].rows>> \in Written
      PROVE  IdInv' /\ WholeInv' /\ ClockInv' /\ Since(part') = Since(part)
  <2>1. Intact(part') /\ Since(part') = Since(part)
    BY <1>1, <1>6, <1>8, SinceIs DEF Intact
  <2>2. Written' \subseteq Written
    BY <1>2, <1>7, <1>8 DEF Written
  <2>3. IdInv'
    BY <1>2, <2>2 DEF IdInv, SeenInv
  <2>4. WholeInv'
    BY <1>8, <2>1 DEF WholeInv, Whole
  <2>5. ClockInv'
    BY <1>2, <1>8, <2>1 DEF ClockInv, SeenInv
  <2> QED BY <2>1, <2>3, <2>4, <2>5
<1>9. CASE StageVersion
  <2>1. /\ part' = StageRows(part, job.write.rows, job.write.wid) /\ job.pc = "stage_rows"
        /\ job'.pc = "pair_staged" /\ UNCHANGED <<truth, rebuilt>>
    BY <1>4, <1>9 DEF StageVersion
  <2>2. /\ part'.rows = part.rows /\ part'.wid = part.wid /\ part'.obs = part.obs
        /\ part'.side = part.side
        /\ part'.versions[Len(part'.versions)].wid = job.write.wid
        /\ part'.versions[Len(part'.versions)].rows = job.write.rows
        /\ part'.versions[Len(part'.versions)].kind = "staged"
        /\ \A i \in DOMAIN part'.versions :
             i \in DOMAIN part.versions \/ i = Len(part'.versions)
        /\ \A i \in DOMAIN part.versions :
             i \in DOMAIN part'.versions /\ part'.versions[i] = part.versions[i]
    BY <1>1, <1>3, <2>1, RowsStaged
  <2>3. \A i \in DOMAIN part'.versions :
           <<part'.versions[i].wid, part'.versions[i].rows>> \in Written
    BY <1>7, <2>2 DEF Written
  <2>4. IdInv' /\ WholeInv' /\ ClockInv' /\ Since(part') = Since(part)
    BY <1>8, <2>1, <2>2, <2>3, Zenon
  <2>5. Kept(part') \subseteq Kept(part)
    BY <2>2 DEF Kept, Superseded
  <2>6. TableInv'
    BY <1>1, <2>1, <2>2, <2>4, <2>5, TableFrame DEF SeenInv
  <2>7. PendInv'
    BY <2>1 DEF PendInv
  <2> QED BY <2>4, <2>6, <2>7 DEF SeenInv
<1>10. CASE KeepVersion
  <2>1. /\ part' = KeepRows(part) /\ job.pc = "keep_rows" /\ job'.pc = "pair_kept"
        /\ UNCHANGED <<truth, rebuilt>>
    BY <1>4, <1>10 DEF KeepVersion
  <2>2. /\ part'.rows = part.rows /\ part'.wid = part.wid /\ part'.obs = part.obs
        /\ part'.side = part.side
        /\ part'.versions[Len(part'.versions)].wid = part.wid
        /\ part'.versions[Len(part'.versions)].rows = part.rows
        /\ part'.versions[Len(part'.versions)].since = part.side.since
        /\ \A i \in DOMAIN part'.versions :
             i \in DOMAIN part.versions \/ i = Len(part'.versions)
        /\ \A i \in DOMAIN part.versions :
             i \in DOMAIN part'.versions /\ part'.versions[i] = part.versions[i]
    BY <1>1, <2>1, RowsKept
  <2>3. \A i \in DOMAIN part'.versions :
           <<part'.versions[i].wid, part'.versions[i].rows>> \in Written
    BY <1>7, <2>2 DEF Written
  <2>4. IdInv' /\ WholeInv' /\ ClockInv' /\ Since(part') = Since(part)
    BY <1>8, <2>1, <2>2, <2>3
  <2>5. \A v \in Kept(part') : v \in Kept(part) \/ (v.rows = part.rows /\ v.since = Since(part))
    BY <1>6, <2>1, <2>2 DEF Kept, Superseded
  <2>6. TableInv'
    BY <1>1, <2>1, <2>2, <2>4, <2>5, TableFrame DEF SeenInv
  <2>7. PendInv'
    BY <2>1 DEF PendInv
  <2> QED BY <2>4, <2>6, <2>7 DEF SeenInv
<1>11. CASE PairStaged \/ PairKept
  <2>1. /\ part' = PairVersion(part) /\ job.pc \in {"pair_staged", "pair_kept"}
        /\ job'.pc \in {"work", "observe"} /\ UNCHANGED <<truth, rebuilt>>
    BY <1>4, <1>11 DEF PairStaged, PairKept
  <2>2. Len(part.versions) > 0
    BY <1>1, <2>1 DEF Pairing
  <2>3. /\ part'.rows = part.rows /\ part'.wid = part.wid /\ part'.obs = part.obs
        /\ part'.side = part.side /\ DOMAIN part'.versions = DOMAIN part.versions
        /\ \A i \in DOMAIN part.versions :
             /\ part'.versions[i].rows = part.versions[i].rows
             /\ part'.versions[i].wid = part.versions[i].wid
             /\ part'.versions[i].kind = part.versions[i].kind
             /\ part'.versions[i].since = part.versions[i].since
    BY <1>1, <2>1, <2>2, VersionPaired
  <2>4. \A i \in DOMAIN part'.versions :
           <<part'.versions[i].wid, part'.versions[i].rows>> \in Written
    BY <2>3 DEF Written
  <2>5. IdInv' /\ WholeInv' /\ ClockInv' /\ Since(part') = Since(part)
    BY <1>8, <2>1, <2>3, <2>4
  <2>6. \A v \in Kept(part') : \E u \in Kept(part) : v.rows = u.rows /\ v.since = u.since
    BY <2>3 DEF Kept, Superseded
  <2>7. TableInv'
    BY <1>1, <2>1, <2>3, <2>5, <2>6, TableFrame DEF SeenInv
  <2>8. PendInv'
    BY <2>1 DEF PendInv
  <2> QED BY <2>5, <2>7, <2>8 DEF SeenInv
<1>12. CASE Observe /\ Unreadable(part)
  <2>1. /\ part' = part /\ job.pc = "observe" /\ job'.pc = "done"
        /\ UNCHANGED <<truth, rebuilt, clock>>
    BY <1>2, <1>4, <1>12 DEF Observe
  <2> QED BY <2>1, SeenQuiet DEF Quiet
<1>13. CASE Stage
  <2>1. /\ part' = StageSidecar(part, job.write) /\ job.pc = "sidecar" /\ job'.pc = "rows"
        /\ UNCHANGED <<truth, rebuilt>>
    BY <1>4, <1>13 DEF Stage
  <2>2. /\ part'.rows = part.rows /\ part'.wid = part.wid /\ part'.obs = part.obs
        /\ part'.side = part.side /\ part'.versions = part.versions
    BY <1>1, <1>3, <2>1, SidecarStaged
  <2>3. \A i \in DOMAIN part'.versions :
           <<part'.versions[i].wid, part'.versions[i].rows>> \in Written
    BY <2>2 DEF Written
  <2>4. IdInv' /\ WholeInv' /\ ClockInv' /\ Since(part') = Since(part)
    BY <1>8, <2>1, <2>2, <2>3
  <2>5. TableInv'
    <3>1. Kept(part') = Kept(part)
      BY <2>2 DEF Kept, Superseded
    <3> QED BY <1>1, <2>1, <2>2, <2>4, <3>1, TableFrame DEF SeenInv
  <2>6. PendInv'
    BY <1>2, <2>1, <2>2, <2>4 DEF PendInv, SeenInv
  <2> QED BY <2>4, <2>5, <2>6 DEF SeenInv
<1>14. CASE Observe /\ ~ Unreadable(part)
  <2>1. /\ part' = Record(part, job.write.rows, job.write.since)
        /\ job.pc = "observe" /\ job'.pc = "sidecar" /\ UNCHANGED <<truth, rebuilt>>
    BY <1>4, <1>14 DEF Observe
  <2>2. /\ part'.rows = part.rows /\ part'.wid = part.wid /\ part'.side = part.side
        /\ part'.versions = part.versions
    BY <1>1, <2>1, RecordLeaves
  <2>3. \A i \in DOMAIN part'.versions :
           <<part'.versions[i].wid, part'.versions[i].rows>> \in Written
    BY <2>2 DEF Written
  <2>4. IdInv' /\ WholeInv' /\ ClockInv' /\ Since(part') = Since(part)
    BY <1>8, <2>1, <2>2, <2>3
  <2>5. Since(part) < job.write.since
    BY <2>1 DEF SeenInv, ClockInv, Committing
  <2> DEFINE known == DOMAIN Observations(part)
  <2> DEFINE added == Added(part.rows, job.write.rows)
  <2>6. /\ DOMAIN part'.obs = known \cup added
        /\ \A k \in DOMAIN part'.obs :
              part'.obs[k] = IF k \in known THEN part.obs[k] ELSE job.write.since
        /\ Exists(part) => known = {k \in DOMAIN part.obs : part.obs[k] <= Since(part)}
        /\ ~ Exists(part) => known = {}
    <3>1. Recorded(part, part', job.write.rows, job.write.since)
      BY <1>1, <2>1, RecordSeen
    <3>2. Since(part) = part.side.since
      BY <1>6, <2>1
    <3> QED BY <3>1, <3>2 DEF Recorded
  <2> HIDE DEF known
  <2>7. added = DOMAIN job.write.rows \ DOMAIN part.rows
    BY DEF Added
  <2> HIDE DEF added
  <2>8. DOMAIN truth # {} => Exists(part)
    BY DEF SeenInv, TableInv
  <2>9. \A k \in known : /\ k \in DOMAIN part.obs /\ part.obs[k] <= Since(part)
                         /\ part.obs[k] \in Nat
                         /\ k \in DOMAIN truth /\ truth[k] <= part.obs[k]
    BY <2>6 DEF SeenInv, TableInv
  <2>10. ASSUME NEW k \in DOMAIN truth, k \in DOMAIN part.obs, part.obs[k] <= Since(part)
         PROVE  k \in DOMAIN part'.obs /\ part'.obs[k] = part.obs[k]
    BY <2>6, <2>8, <2>10
  <2>11. TableInv'
    <3>1. Kept(part') = Kept(part) /\ (Exists(part') <=> Exists(part))
      BY <2>2 DEF Kept, Superseded, Exists
    <3>2. \A k \in DOMAIN part'.rows :
             /\ k \in DOMAIN truth
             /\ truth[k] # Never => k \in DOMAIN part'.obs /\ part'.obs[k] <= Since(part)
      BY <2>2, <2>10 DEF SeenInv, TableInv
    <3>3. \A k \in DOMAIN part'.obs :
             /\ part'.obs[k] \in Nat
             /\ part'.obs[k] <= Since(part) => k \in DOMAIN truth /\ truth[k] <= part'.obs[k]
      <4> SUFFICES ASSUME NEW k \in DOMAIN part'.obs
                   PROVE  /\ part'.obs[k] \in Nat
                          /\ part'.obs[k] <= Since(part) =>
                                k \in DOMAIN truth /\ truth[k] <= part'.obs[k]
        OBVIOUS
      <4>1. CASE k \in known
        BY <2>6, <2>9, <4>1
      <4>2. CASE k \notin known
        BY <1>3, <1>5, <2>5, <2>6, <4>2
      <4> QED BY <4>1, <4>2
    <3>4. ~ rebuilt => \A k \in DOMAIN truth :
             truth[k] # Never => k \in DOMAIN part'.obs /\ part'.obs[k] = truth[k]
      <4> SUFFICES ASSUME ~ rebuilt, NEW k \in DOMAIN truth, truth[k] # Never
                   PROVE  k \in DOMAIN part'.obs /\ part'.obs[k] = truth[k]
        OBVIOUS
      <4>1. k \in DOMAIN part.obs /\ part.obs[k] = truth[k] /\ truth[k] <= Since(part)
        BY DEF SeenInv, TableInv
      <4> QED BY <2>10, <4>1
    <3> QED BY <2>1, <2>2, <2>4, <3>1, <3>2, <3>3, <3>4 DEF SeenInv, TableInv
  <2>12. PendInv'
    <3>1. \A k \in DOMAIN part'.obs :
             \/ /\ part'.obs[k] <= Since(part)
                /\ k \in DOMAIN truth /\ truth[k] <= part'.obs[k]
             \/ part'.obs[k] = job.write.since /\ k \in DOMAIN job.write.rows
      BY <2>6, <2>7, <2>9
    <3>2. \A k \in DOMAIN job.write.rows : k \in DOMAIN part.rows \cup DOMAIN part'.obs
      BY <2>6, <2>7
    <3> QED BY <1>2, <2>1, <2>2, <2>4, <3>1, <3>2 DEF PendInv
  <2> QED BY <2>4, <2>11, <2>12 DEF SeenInv
<1>15. CASE Show
  <2> DEFINE w == job.write
  <2>1. /\ part' = RenameRows(part, w) /\ job.pc = "rows" /\ job'.pc = "rename_sidecar"
        /\ truth' = [k \in DOMAIN truth \cup DOMAIN w.rows |->
                        IF k \in DOMAIN truth THEN truth[k] ELSE w.since]
        /\ rebuilt' = rebuilt
    BY <1>4, <1>15 DEF Show
  <2>2. /\ part'.rows = w.rows /\ part'.wid = w.wid /\ part'.side = part.side
        /\ part'.obs = part.obs /\ part'.versions = part.versions
        /\ part'.staged = part.staged
    BY <1>1, <1>3, <2>1, RowsRenamed
  <2>3. part.staged = {[wid |-> w.wid, since |-> w.since]}
    BY <2>1 DEF CommitInv
  <2>4. Since(part) < w.since
    BY <2>1 DEF SeenInv, ClockInv, Committing
  <2>5. Exists(part')
    BY <1>3, <2>2 DEF Exists
  <2>6. Whole(part')
    BY <2>2, <2>3, <2>5 DEF Whole
  \* A content shown again under the same id keeps its sidecar, and shows no new key.
  <2>7. \/ Since(part') = w.since
        \/ Since(part') = Since(part) /\ w.rows = part.rows
    <3>1. CASE Intact(part')
      <4>1. part.wid = w.wid
        BY <1>6, <2>1, <2>2, <3>1 DEF Intact
      <4>2. w.rows = part.rows
        <5>1. \A x, y \in Written : x[1] = y[1] => x[2] = y[2]
          BY DEF SeenInv, IdInv
        <5> QED BY <1>7, <4>1, <5>1
      <4>3. Since(part') = part'.side.since
        BY <1>1, <3>1, SinceIs
      <4> QED BY <1>6, <2>1, <2>2, <4>2, <4>3
    <3>2. CASE ~ Intact(part')
      <4> DEFINE s == [wid |-> w.wid, since |-> w.since]
      <4>1. part'.staged = {s} /\ s.wid = part'.wid /\ s.since = w.since
        BY <2>2, <2>3
      <4> HIDE DEF s, w
      <4> QED BY <1>1, <2>5, <3>2, <4>1, SinceIs
    <3> QED BY <3>1, <3>2
  <2>8. Since(part) <= Since(part') /\ Since(part') <= w.since
    BY <1>3, <1>5, <2>4, <2>7
  <2>9. IdInv'
    <3>1. Written' \subseteq Written
      BY <1>2, <1>7, <2>2 DEF Written
    <3> QED BY <1>2, <3>1 DEF IdInv, SeenInv
  <2>10. WholeInv'
    BY <1>2, <2>1, <2>2, <2>6 DEF WholeInv
  <2>11. ClockInv'
    <3>1. w.since <= clock
      BY <1>2 DEF SeenInv, ClockInv
    <3>2. Since(part') <= clock
      BY <1>2, <1>3, <1>5, <2>8, <3>1
    <3> QED BY <1>2, <2>1, <2>8, <3>1, <3>2 DEF ClockInv
  <2> HIDE DEF w
  <2>12. /\ DOMAIN truth' = DOMAIN truth \cup DOMAIN w.rows
         /\ \A k \in DOMAIN truth : truth'[k] = truth[k]
         /\ \A k \in DOMAIN w.rows : k \notin DOMAIN truth => truth'[k] = w.since
    BY <2>1
  <2>13. \A k \in DOMAIN part.obs :
            \/ /\ part.obs[k] <= Since(part)
               /\ k \in DOMAIN truth /\ truth[k] <= part.obs[k]
            \/ part.obs[k] = w.since /\ k \in DOMAIN w.rows
    BY <2>1 DEF SeenInv, PendInv, w
  <2>14. \A k \in DOMAIN w.rows : k \in DOMAIN part.rows \cup DOMAIN part.obs
    BY <2>1 DEF SeenInv, PendInv, w
  <2>15. /\ \A k \in DOMAIN truth : truth[k] \in Nat /\ truth[k] <= Since(part)
         /\ DOMAIN part.rows \subseteq DOMAIN truth
         /\ \A k \in DOMAIN part.obs : part.obs[k] \in Nat
    BY DEF SeenInv, TableInv
  <2>16. w.since \in Nat
    BY <1>3 DEF w
  \* A key shown for the first time is new, recorded with this commit's instant.
  <2>17. ASSUME NEW k \in DOMAIN w.rows, k \notin DOMAIN truth
         PROVE  /\ Since(part') = w.since
                /\ k \in DOMAIN part.obs /\ part.obs[k] = w.since
    BY <2>7, <2>13, <2>14, <2>15, <2>17
  <2>18. \A k \in DOMAIN part.obs :
            /\ k \in DOMAIN truth' /\ truth'[k] <= part.obs[k] /\ part.obs[k] <= w.since
    <3> SUFFICES ASSUME NEW k \in DOMAIN part.obs
                 PROVE  /\ k \in DOMAIN truth' /\ truth'[k] <= part.obs[k]
                        /\ part.obs[k] <= w.since
      OBVIOUS
    <3>1. CASE /\ part.obs[k] <= Since(part)
               /\ k \in DOMAIN truth /\ truth[k] <= part.obs[k]
      BY <1>5, <2>4, <2>12, <2>15, <2>16, <3>1 DEF w
    <3>2. CASE part.obs[k] = w.since /\ k \in DOMAIN w.rows /\ k \in DOMAIN truth
      BY <1>5, <2>4, <2>12, <2>15, <2>16, <3>2 DEF w
    <3>3. CASE part.obs[k] = w.since /\ k \in DOMAIN w.rows /\ k \notin DOMAIN truth
      BY <2>12, <2>16, <3>3
    <3> QED BY <2>13, <3>1, <3>2, <3>3
  <2>19. PendInv'
    BY <1>2, <2>1, <2>2, <2>18 DEF PendInv, w
  <2>20. TableInv'
    <3>1. Kept(part') = Kept(part)
      BY <2>2 DEF Kept, Superseded
    <3>2. \A k \in DOMAIN truth' : truth'[k] \in Nat /\ truth'[k] <= Since(part')
      <4> SUFFICES ASSUME NEW k \in DOMAIN truth'
                   PROVE  truth'[k] \in Nat /\ truth'[k] <= Since(part')
        OBVIOUS
      <4>1. CASE k \in DOMAIN truth
        BY <1>5, <2>8, <2>12, <2>15, <4>1
      <4>2. CASE k \notin DOMAIN truth
        BY <2>12, <2>16, <2>17, <4>2
      <4> QED BY <4>1, <4>2
    <3>3. ASSUME NEW k \in DOMAIN part'.rows
          PROVE  /\ k \in DOMAIN truth'
                 /\ truth'[k] # Never => k \in DOMAIN part'.obs /\ part'.obs[k] <= Since(part')
      <4>1. k \in DOMAIN w.rows
        BY <2>2, <3>3 DEF w
      <4>2. CASE k \in DOMAIN part.rows
        <5>1. /\ k \in DOMAIN truth
              /\ truth[k] # Never => k \in DOMAIN part.obs /\ part.obs[k] <= Since(part)
          BY <4>2 DEF SeenInv, TableInv
        <5> QED BY <1>5, <2>2, <2>8, <2>12, <2>15, <5>1
      <4>3. CASE k \notin DOMAIN part.rows
        <5>1. k \in DOMAIN part.obs
          BY <2>14, <4>1, <4>3
        <5>2. Since(part') = w.since
          BY <2>7, <4>1, <4>3
        <5> QED BY <2>2, <2>12, <2>18, <4>1, <5>1, <5>2
      <4> QED BY <4>2, <4>3
    <3>4. ~ rebuilt => \A k \in DOMAIN truth' :
             truth'[k] # Never => k \in DOMAIN part.obs /\ part.obs[k] = truth'[k]
      <4> SUFFICES ASSUME ~ rebuilt, NEW k \in DOMAIN truth', truth'[k] # Never
                   PROVE  k \in DOMAIN part.obs /\ part.obs[k] = truth'[k]
        OBVIOUS
      <4>1. CASE k \in DOMAIN truth
        BY <2>12, <4>1 DEF SeenInv, TableInv
      <4>2. CASE k \notin DOMAIN truth
        BY <2>12, <2>17, <4>2
      <4> QED BY <4>1, <4>2
    <3>5. ASSUME NEW v \in Kept(part)
          PROVE  /\ v.since <= Since(part')
                 /\ \A k \in DOMAIN v.rows : k \in DOMAIN truth' /\ truth'[k] <= v.since
      <4>1. /\ v.since <= Since(part)
            /\ \A k \in DOMAIN v.rows : k \in DOMAIN truth /\ truth[k] <= v.since
        BY DEF SeenInv, TableInv
      <4>2. v.since \in Nat
        <5>1. \A i \in DOMAIN part.versions : part.versions[i] \in KeptVersion
          BY <1>1 DEF PartOK
        <5> QED BY <5>1 DEF Kept, Superseded, KeptVersion
      <4> QED BY <1>5, <2>8, <2>12, <4>1, <4>2
    <3>6. \A k \in DOMAIN part'.obs :
             /\ part'.obs[k] \in Nat
             /\ k \in DOMAIN truth' /\ truth'[k] <= part'.obs[k]
      BY <2>2, <2>15, <2>18
    <3> QED BY <2>1, <2>2, <2>5, <3>1, <3>2, <3>3, <3>4, <3>5, <3>6 DEF TableInv
  <2> QED BY <2>9, <2>10, <2>11, <2>19, <2>20 DEF SeenInv
<1>16. CASE CommitSidecar
  <2>1. /\ part' = RenameSidecar(part, job.write) /\ job.pc = "rename_sidecar"
        /\ job'.pc \in {"work", "done"} /\ UNCHANGED <<truth, rebuilt>>
    BY <1>4, <1>16 DEF CommitSidecar, AfterCommit
  <2>2. /\ part'.rows = part.rows /\ part'.wid = part.wid /\ part'.obs = part.obs
        /\ part'.side = [wid |-> job.write.wid, since |-> job.write.since]
        /\ part'.versions = part.versions
    BY <1>1, <1>3, <2>1, SidecarRenamed
  <2>3. Intact(part')
    BY <2>1, <2>2 DEF Intact, SeenInv, WholeInv
  <2>4. Since(part') = job.write.since /\ Since(part) <= job.write.since
        /\ job.write.since <= clock
    <3>1. Since(part') = part'.side.since
      BY <1>1, <2>3, SinceIs
    <3> QED BY <1>2, <2>2, <3>1 DEF SeenInv, ClockInv
  <2>5. IdInv'
    <3>1. Written' \subseteq Written
      BY <2>1, <2>2 DEF Written, Committing
    <3> QED BY <1>2, <3>1 DEF IdInv, SeenInv
  <2>6. WholeInv'
    BY <2>1, <2>3 DEF WholeInv, Whole
  <2>7. ClockInv'
    BY <1>2, <2>1, <2>4 DEF ClockInv, Committing
  <2>8. PendInv'
    BY <2>1 DEF PendInv
  <2>9. TableInv'
    <3>1. Kept(part') = Kept(part) /\ (Exists(part') <=> Exists(part))
      BY <2>2 DEF Kept, Superseded, Exists
    <3>2. \A v \in Kept(part) : v.since \in Nat
      <4>1. \A i \in DOMAIN part.versions : part.versions[i] \in KeptVersion
        BY <1>1 DEF PartOK
      <4> QED BY <4>1 DEF Kept, Superseded, KeptVersion
    <3>3. \A k \in DOMAIN part.obs :
             /\ k \in DOMAIN truth /\ truth[k] <= part.obs[k]
             /\ part.obs[k] <= job.write.since
      BY <2>1 DEF SeenInv, PendInv
    <3>4. \A k \in DOMAIN truth : truth[k] \in Nat /\ truth[k] <= job.write.since
      BY <1>3, <1>5, <2>4 DEF SeenInv, TableInv
    <3>5. \A v \in Kept(part) : v.since <= job.write.since
      BY <1>3, <1>5, <2>4, <3>2 DEF SeenInv, TableInv
    <3> QED BY <2>1, <2>2, <2>4, <3>1, <3>3, <3>4, <3>5 DEF SeenInv, TableInv
  <2> QED BY <2>5, <2>6, <2>7, <2>8, <2>9 DEF SeenInv
<1> QED BY <1>9, <1>10, <1>11, <1>12, <1>13, <1>14, <1>15, <1>16 DEF Writing

\* What the newest generation showed was shown, and is dated right.
FirstInv == DOMAIN committed.rows \subseteq DOMAIN truth /\ FirstSeenTrue

LEMMA SeenInit == Init => SeenInv /\ FirstInv
<1> SUFFICES ASSUME Init PROVE SeenInv /\ FirstInv
  OBVIOUS
<1>1. PICK rows \in Contents, wid \in {0, 1} :
        part = Partition(rows, wid) /\ (wid = 0 => rows = NoRows)
  BY EmptyRows, LakeAssumption DEF Init, Never
<1>2. /\ part.rows = rows /\ part.wid = wid /\ part.versions = << >> /\ part.obs = NoRows
      /\ part.side = [wid |-> wid, since |-> 0] /\ PartOK(part)
  BY <1>1, PartitionShape DEF Partition, Never
<1>3. Intact(part) /\ Since(part) = 0
  <2>1. Intact(part)
    BY <1>2 DEF Intact
  <2> QED BY <1>2, <2>1, SinceIs
<1>4. /\ job.pc = "idle" /\ clock = 1 /\ rebuilt = FALSE
      /\ truth = [k \in DOMAIN part.rows |-> Never] /\ committed = View(part)
  BY DEF Init, Idle
<1>5. DOMAIN part.obs = {} /\ Kept(part) = {}
  BY <1>2 DEF NoRows, Kept, Superseded
<1>6. Written = {<<wid, rows>>}
  BY <1>2, <1>4 DEF Written, Committing
<1>7. IdInv
  BY <1>4, <1>6 DEF IdInv
<1>8. WholeInv /\ ClockInv /\ PendInv
  BY <1>3, <1>4 DEF WholeInv, Whole, ClockInv, PendInv, WorkPCs, Committing
<1>9. DOMAIN truth = DOMAIN rows /\ \A k \in DOMAIN truth : truth[k] = 0
  BY <1>2, <1>4 DEF Never
<1>10. ~ Exists(part) => DOMAIN truth = {}
  BY <1>1, <1>2, <1>9 DEF Exists, Never, NoRows
<1>11. TableInv
  BY <1>2, <1>3, <1>5, <1>9, <1>10 DEF TableInv, Never
<1>12. FirstInv
  <2>1. committed.rows = rows
    BY <1>2, <1>4 DEF View
  <2> QED BY <1>9, <2>1 DEF FirstInv, FirstSeenTrue, Never
<1> QED BY <1>7, <1>8, <1>11, <1>12 DEF SeenInv

\* Only the end of a job writes a new generation.
LEMMA FinishCommits ==
    ASSUME Next, committed' # committed
    PROVE  /\ job.pc \in {"work", "done"} /\ committed' = View(part)
           /\ truth' = truth /\ rebuilt' = rebuilt
<1>1. CASE Writing
  BY <1>1 DEF Writing, Write, StageVersion, PairStaged, KeepVersion, PairKept,
              Observe, Stage, Show, CommitSidecar
<1>2. CASE Job /\ ~ Writing
  BY <1>2 DEF Job, Begin, Publish, Restore, Rebuild, Finish, ghosts
<1>3. CASE Pin
  BY <1>3 DEF Pin, OpenPin, CutRelease, SelectRelease, RecordPin, End, ghosts
<1>4. CASE Retention
  BY <1>4 DEF Retention, OpenRetention, ReadConsumers, Retire, CloseRetention, ghosts
<1>5. CASE Kill
  BY <1>5 DEF Kill, KillJob, KillPin, ghosts
<1> QED BY <1>1, <1>2, <1>3, <1>4, <1>5 DEF Next

\* A record is written only over a settled partition: no commit is under way.
LEMMA FirstStep ==
    ASSUME ShapeInv, SeenInv, FirstInv, [Next]_vars
    PROVE  FirstInv'
<1>1. \A k \in DOMAIN truth : truth[k] \in Nat
  BY DEF SeenInv, TableInv
<1>2. CASE committed' = committed
  <2>1. /\ \A k \in DOMAIN truth : k \in DOMAIN truth' /\ truth'[k] = truth[k]
        /\ rebuilt' = rebuilt \/ rebuilt' = TRUE
    <3>1. CASE Show
      BY <3>1 DEF Show, Write
    <3>2. CASE ~ Show
      <4>1. truth' = truth /\ (rebuilt' = rebuilt \/ rebuilt' = TRUE)
        <5>1. CASE Writing
          BY <3>2, <5>1 DEF Writing, Write, StageVersion, PairStaged, KeepVersion, PairKept,
                            Observe, Stage, CommitSidecar
        <5>2. CASE Job /\ ~ Writing
          BY <5>2 DEF Job, Begin, Publish, Restore, Rebuild, Finish, ghosts
        <5>3. CASE Pin
          BY <5>3 DEF Pin, OpenPin, CutRelease, SelectRelease, RecordPin, End, ghosts
        <5>4. CASE Retention
          BY <5>4 DEF Retention, OpenRetention, ReadConsumers, Retire, CloseRetention, ghosts
        <5>5. CASE Kill
          BY <5>5 DEF Kill, KillJob, KillPin, ghosts
        <5>6. CASE UNCHANGED vars
          BY <5>6 DEF vars
        <5> QED BY <5>1, <5>2, <5>3, <5>4, <5>5, <5>6 DEF Next
      <4> QED BY <4>1
    <3> QED BY <3>1, <3>2
  <2>2. ASSUME NEW k \in DOMAIN committed.rows
        PROVE  /\ k \in DOMAIN truth'
               /\ truth'[k] # Never =>
                    /\ k \in DOMAIN committed.seen
                    /\ IF rebuilt' THEN committed.seen[k] >= truth'[k]
                                   ELSE committed.seen[k] = truth'[k]
    <3>1. k \in DOMAIN truth
      BY <2>2 DEF FirstInv
    <3>2. truth[k] # Never =>
             /\ k \in DOMAIN committed.seen
             /\ IF rebuilt THEN committed.seen[k] >= truth[k]
                           ELSE committed.seen[k] = truth[k]
      BY <2>2 DEF FirstInv, FirstSeenTrue
    <3> QED BY <1>1, <2>1, <3>1, <3>2
  <2> QED BY <1>2, <2>2 DEF FirstInv, FirstSeenTrue
<1>3. CASE committed' # committed
  <2>1. /\ job.pc \in {"work", "done"} /\ committed' = View(part)
        /\ truth' = truth /\ rebuilt' = rebuilt
    BY <1>3, FinishCommits DEF vars
  <2>2. Since(part) = part.side.since /\ PartOK(part) /\ Since(part) \in Nat
    BY <2>1, SinceIs DEF SeenInv, WholeInv, ShapeInv, Shapes, WorkPCs
  <2>3. committed'.rows = part.rows /\ committed'.seen = Observations(part)
    BY <2>1 DEF View
  <2>4. ASSUME NEW k \in DOMAIN part.rows
        PROVE  /\ k \in DOMAIN truth
               /\ truth[k] # Never =>
                    /\ k \in DOMAIN Observations(part)
                    /\ IF rebuilt THEN Observations(part)[k] >= truth[k]
                                  ELSE Observations(part)[k] = truth[k]
    <3>1. k \in DOMAIN truth /\ Exists(part)
      BY <2>4 DEF SeenInv, TableInv
    <3>2. truth[k] # Never =>
             /\ k \in DOMAIN part.obs /\ part.obs[k] <= Since(part)
             /\ part.obs[k] \in Nat /\ truth[k] <= part.obs[k]
             /\ ~ rebuilt => part.obs[k] = truth[k]
      BY <2>4, <3>1 DEF SeenInv, TableInv
    <3>3. /\ DOMAIN Observations(part) = {x \in DOMAIN part.obs : part.obs[x] <= Since(part)}
          /\ \A x \in DOMAIN Observations(part) : Observations(part)[x] = part.obs[x]
      BY <2>2, <3>1 DEF Observations
    <3> QED BY <1>1, <3>1, <3>2, <3>3
  <2> QED BY <2>1, <2>3, <2>4 DEF FirstInv, FirstSeenTrue
<1> QED BY <1>2, <1>3

(* A reader of the newest generation finds, for every row that became visible under    *)
(* versioning, when it first did: exactly, or no earlier once an operator rebuilt the   *)
(* table (versions.py:29-44, pit.py:178-184).  So for any keys, values, vendor answers,  *)
(* restores and rebuilds, wherever the jobs that wrote them were killed.                *)
THEOREM FirstSeenAlwaysTrue == Spec => []FirstSeenTrue
<1> DEFINE Inv == /\ ShapeInv /\ LockInv /\ CommitInv /\ LostInv /\ NothingLost
                  /\ SeenInv /\ FirstInv
<1>1. Init => Inv
  BY ShapesInit, CommitInit, LostInit, SeenInit
<1>2. Inv /\ [Next]_vars => Inv'
  <2> SUFFICES ASSUME Inv, [Next]_vars PROVE Inv'
    OBVIOUS
  <2>1. ShapeInv' /\ LockInv' /\ CommitInv' /\ LostInv' /\ NothingLost' /\ FirstInv'
    BY ShapesStep, LocksStep, CommitsStep, LostStep, FirstStep
  <2>2. SeenInv'
    BY SeenSteps, SeenQuiet, SeenDecide, SeenRebuild, SeenWriting
  <2> QED BY <2>1, <2>2
<1>3. Inv => FirstSeenTrue
  BY DEF FirstInv
<1> QED BY <1>1, <1>2, <1>3, PTL DEF Spec
================================================================================
