------------------------------ MODULE LakePartition ------------------------------
(* One keyed partition of the versioned raw lake (data_sources/tushare/versions.py,
   data_sources/tushare/io.py, environment/data/pit.py): the visible parquet and its
   sidecar, the sidecars staged beside it, its observation table and its kept
   versions, and what the write path decides from them.  The partition belongs to the
   versioned era (records_observations); a write's id is its commit instant. *)
EXTENDS Naturals, FiniteSets, Sequences, SequencesExt

CONSTANTS Keys, Values   \* business keys, and the payloads a key can have

\* The absent file: no write has the instant Never.
Never == 0
NoRows == << >>
NoSidecar == [wid |-> Never, since |-> Never]
Contents == UNION {[S -> Values] : S \in SUBSET Keys}

Partition(rows, wid) ==
    [rows |-> rows, wid |-> wid, side |-> [wid |-> wid, since |-> Never],
     staged |-> {}, obs |-> NoRows, versions |-> << >>]

Exists(p) == p.wid # Never
Intact(p) == p.side.wid = p.wid

Pairs(rows) == {<<k, rows[k]>> : k \in DOMAIN rows}
Removed(old, new) == DOMAIN old \ DOMAIN new
Added(old, new) == DOMAIN new \ DOMAIN old
MutantRestates(old, new) == Removed(old, new) # {}
Restates(old, new) == ~ Pairs(old) \subseteq Pairs(new)
RemovesMost(old, new) == 2 * Cardinality(Removed(old, new)) > Cardinality(DOMAIN old)

\* The rows a visible partition's readers count: none later than the content they
\* describe.  A table beside a sidecar that records no visible_since is refused.
Unreadable(p) == Exists(p) /\ p.obs # NoRows /\ p.side.since = Never
MutantObservations(p) == IF Exists(p) THEN p.obs ELSE NoRows
Observations(p) ==
    LET counted == {k \in DOMAIN p.obs : p.obs[k] <= p.side.since}
    IN  IF Exists(p) THEN [k \in counted |-> p.obs[k]] ELSE NoRows

\* Every new key without a counted row is first seen now; stale rows are dropped.
Record(p, new, at) ==
    LET known == Observations(p)
    IN  [p EXCEPT !.obs = [k \in DOMAIN known \cup Added(p.rows, new) |->
                              IF k \in DOMAIN known THEN known[k] ELSE at]]

\* Roll forward a commit whose parquet is visible and whose sidecar is still staged.
Complete(p) ==
    LET own == {s \in p.staged : s.wid = p.wid}
    IN  IF Exists(p) /\ ~ Intact(p) /\ own # {}
        THEN [p EXCEPT !.side = CHOOSE s \in own : TRUE, !.staged = @ \ own]
        ELSE p
Sweep(p) == [Complete(p) EXCEPT !.staged = {}]

Outcome(p, new, truncated) ==
    CASE ~ Exists(p) -> "appended"
      [] Exists(p) /\ p.rows # NoRows /\ new = NoRows -> "defect"
      [] Exists(p) /\ p.rows = new -> IF Intact(p) THEN "unchanged" ELSE "replaced"
      [] OTHER -> IF RemovesMost(p.rows, new) /\ ~ truncated THEN "staged"
                  ELSE IF Restates(p.rows, new) THEN "restated" ELSE "appended"

\* A version is two links (or renames): its rows first, then its sidecar.
Version(kind, rows, wid, since) ==
    [kind |-> kind, rows |-> rows, wid |-> wid, since |-> since, paired |-> FALSE]
KeepRows(p) == [p EXCEPT !.versions =
                   Append(@, Version("superseded", p.rows, p.wid, p.side.since))]
StageRows(p, new, at) == [p EXCEPT !.versions = Append(@, Version("staged", new, at, Never))]
PairVersion(p) == [p EXCEPT !.versions[Len(p.versions)].paired = TRUE]

AlreadyStaged(p, new) ==
    LET staged == SelectSeq(p.versions, LAMBDA v : v.kind = "staged")
    IN  staged # << >> /\ Last(staged).rows = new
Superseded(p) == {i \in DOMAIN p.versions : p.versions[i].kind = "superseded"}

\* A commit: observations (Record), sidecar staged, parquet renamed, sidecar renamed.
StageSidecar(p, w) ==
    [p EXCEPT !.staged = {s \in @ : s.wid # w.wid} \cup {[wid |-> w.wid, since |-> w.since]}]
RenameRows(p, w) == [p EXCEPT !.rows = w.rows, !.wid = w.wid]
RenameSidecar(p, w) ==
    [p EXCEPT !.side = [wid |-> w.wid, since |-> w.since], !.staged = {s \in @ : s.wid # w.wid}]

\* The table again from the retained states in order: a key gets the visible_since of
\* the first that newly holds it; a state from before versioning gives no rows.
Rebuilt(p) ==
    LET states == Append(p.versions, Version("current", p.rows, p.wid, p.side.since))
        kept == Superseded(p) \cup {Len(states)}
        Holds(i, k) == k \in DOMAIN states[i].rows
        Follows(j, i) == j < i /\ \A h \in kept : h <= j \/ h >= i
        Newly(k) == {i \in kept : /\ states[i].since # Never /\ Holds(i, k)
                                  /\ \A j \in kept : Follows(j, i) => ~ Holds(j, k)}
        First(S) == CHOOSE i \in S : \A j \in S : i <= j
    IN  [p EXCEPT !.obs = [k \in {key \in Keys : Newly(key) # {}} |->
                              states[First(Newly(k))].since]]

\* What a reader of the partition, live or in a release, is shown.
View(p) == [rows |-> p.rows, seen |-> Observations(p)]
=================================================================================
