------------------------------- MODULE AsOfView -------------------------------
(* The rolling as-of view of a replay (environment/replay/timeview.py) and the part
   stash that concurrent replays of one span share (pipelines/pit_backend.py).

   A view serves the decisions of its window in order.  Before each it rolls: rows
   whose refresh job has finished land in new parts, finished months are merged, a
   later slot is opened once its anchor has passed.  Every part goes through the
   stash under a lock of its own: the first replay to reach it encodes it, the others
   link it.  A replay may stop anywhere; what it published stays in the stash.

   Times are ordinals.  A row is its position in its slot's file, its dataset says
   which refresh jobs land it. *)
EXTENDS Integers, FiniteSets, Sequences, SequencesExt, FiniteSetsExt

CONSTANTS Views,         \* replays of the span
          Decisions,     \* the span's decision instants, in order
          Anchors,       \* slot -> its anchor
          Month,         \* decision instant -> calendar month
          DomainSeq,     \* the domains, in the order they roll
          RowGated,      \* domains whose rows are gated one by one (auction)
          Minutes,       \* domains fed group by group (intraday_1min)
          Frozen,        \* domains whose part 0 is the frozen snapshot
          Refreshes,     \* dataset -> its refresh jobs: {[start, ready]}
          Groups,        \* row groups of the minute files
          Lakes          \* row -> [domain, dataset, avail, seen]

Domains == Range(DomainSeq)
Slots == 1 .. Len(Anchors)

\* Instants are positive; a month is one of the calendar's.
ASSUME SpanAssumption ==
    /\ Decisions \in Seq(Nat \ {0}) /\ Anchors \in Seq(Nat) /\ Anchors # <<>>
    /\ \A i, j \in DOMAIN Decisions : i < j => Decisions[i] < Decisions[j]
    /\ \A i, j \in DOMAIN Anchors : i < j => Anchors[i] < Anchors[j]
    /\ \A i \in DOMAIN Decisions : Month[Decisions[i]] \in Nat \ {0}
    /\ DomainSeq \in Seq(Domains)
    /\ \A i, j \in DOMAIN DomainSeq : DomainSeq[i] = DomainSeq[j] => i = j
    /\ RowGated \cap Minutes = {}

\* A job is done no earlier than it starts.
ASSUME FeedAssumption ==
    \A dataset \in DOMAIN Refreshes : \A job \in Refreshes[dataset] :
        job.start \in Nat /\ job.ready \in Nat /\ job.start <= job.ready

\* The rows of the span's slots.  The lake sees a row when it is available or later;
\* minutes carry no first-seen time of their own.
ASSUME LakesAssumption ==
    \A rows \in Lakes :
        /\ IsFiniteSet(DOMAIN rows) /\ DOMAIN rows \subseteq Nat
        /\ \A r \in DOMAIN rows :
              /\ rows[r].domain \in Domains /\ rows[r].dataset \in DOMAIN Refreshes
              /\ rows[r].avail \in Nat \ {0} /\ rows[r].seen \in Nat
              /\ rows[r].avail <= rows[r].seen /\ Anchors[1] < rows[r].seen
              /\ rows[r].domain \in Minutes <=> r \in UNION Groups
              /\ rows[r].domain \in Minutes => rows[r].seen = rows[r].avail

VARIABLES lake,    \* the rows of the span's slots; fixed
          view,    \* view -> its private state
          stash,   \* <<directory, domain, first, last>> -> the rows of that part
          served   \* view -> what its last decision was shown

vars == <<lake, view, stash, served>>

Rows(d) == {r \in DOMAIN lake : lake[r].domain = d}

-----------------------------------------------------------------------------
(* The refresh schedule and the slots. *)

\* The start of the latest refresh done by t: what was available then has landed.
Cutoff(dataset, t) ==
    Max({0} \cup {job.start : job \in {j \in Refreshes[dataset] : j.ready <= t}})

NextReady(dataset, t) == {job.ready : job \in {j \in Refreshes[dataset] : j.ready > t}}

\* A slot holds what became available, or was first seen, after its anchor and not
\* after the next one's.
SlotOf(r) == Max({k \in Slots : Anchors[k] < lake[r].seen})
SlotRows(d, k) == {r \in Rows(d) : SlotOf(r) = k}

\* A set as a sequence in the order `before`.
Ascending(S, before) ==
    [i \in 1 .. Cardinality(S) |->
        CHOOSE x \in S : Cardinality({y \in S : <<y, x>> \in before}) = i - 1]

\* Rows in file order, an earlier slot's first.
FileOrder(rows) ==
    {p \in rows \X rows : \/ SlotOf(p[1]) < SlotOf(p[2])
                          \/ SlotOf(p[1]) = SlotOf(p[2]) /\ p[1] < p[2]}
InOrder(rows) == Ascending(rows, FileOrder(rows))

-----------------------------------------------------------------------------
(* A view. *)

None == -1
NoSignature == {<<>>}

Opening(d) == IF d \in Minutes \/ SlotRows(d, 1) = {} THEN {} ELSE {1}

\* A fresh view over the span's first slot; it serves the decisions from `from` on.
NewView(from) ==
    [from |-> from, next |-> from, phase |-> "idle", slots |-> 1,
     segments |-> [d \in Domains |-> Opening(d)],
     waiting |-> UNION {SlotRows(d, 1) : d \in Domains \ Minutes},
     held |-> {}, loaded |-> {},
     signature |-> [d \in Domains |-> NoSignature],
     ready |-> FALSE, boundary |-> None,
     seq |-> [d \in Domains |-> IF d \in Frozen THEN 1 ELSE 0],
     months |-> [d \in Domains |-> [month |-> 0, first |-> 0, last |-> 0, rows |-> 0]],
     parts |-> [d \in Domains |-> {}],
     version |-> 0, universe |-> 1, queue |-> <<>>]

\* The rows a roll of d looks at: those of the slots it keeps, or the loaded groups'.
Live(w, d) ==
    IF d \in Minutes THEN Rows(d) \cap UNION w.loaded
    ELSE UNION {SlotRows(d, k) : k \in w.segments[d]}

\* Mutant: rows the lake had not seen are not waited for.
MutantForgetsHeld(w, d, k) == SlotRows(d, k) \cap w.waiting # {}

HasPending(w, d, k) == SlotRows(d, k) \cap (w.waiting \cup w.held) # {}

\* Mutant: a new universe alone does not move the version.
MutantKeepsVersion(w) == w.version

ContinueVersion(w) == w.version + 1

\* Open slot k: its universe replaces the earlier one, slots that are published
\* entirely are let go, parts go to the slot's own stash from here on.
ContinueInto(w, k) ==
    [w EXCEPT
        !.universe = k, !.version = ContinueVersion(w), !.slots = k,
        !.segments = [d \in Domains |->
            {s \in w.segments[d] : HasPending(w, d, s)} \cup
            (IF d \in Minutes \/ SlotRows(d, k) = {} THEN {} ELSE {k})],
        !.waiting = @ \cup UNION {SlotRows(d, k) : d \in Domains \ Minutes},
        !.signature = [d \in Domains |-> NoSignature], !.ready = FALSE]

OpenSlots(w, now) ==
    LET opened[k \in 0 .. Len(Anchors)] ==
            IF k = 0 THEN w
            ELSE IF k > opened[k - 1].slots /\ now > Anchors[k]
                 THEN ContinueInto(opened[k - 1], k)
                 ELSE opened[k - 1]
    IN  opened[Len(Anchors)]

\* Minute groups whose first row has landed join the view; the rest of a group waits.
AppendVisible(w, now) ==
    LET due == {g \in Groups \ w.loaded : \E r \in g \cap DOMAIN lake :
                    lake[r].avail <= Cutoff(lake[r].dataset, now)}
        fed == {d \in Minutes : \E g \in due : g \cap Rows(d) # {}}
    IN  IF due = {} THEN w
        ELSE [w EXCEPT !.loaded = @ \cup due,
                       !.waiting = @ \cup (DOMAIN lake \cap UNION due),
                       !.signature = [d \in Domains |-> IF d \in fed THEN NoSignature ELSE @[d]],
                       !.ready = FALSE]

-----------------------------------------------------------------------------
(* One domain's roll. *)

Signature(w, d, now) ==
    IF d \in RowGated THEN {<<now>>}
    ELSE {<<lake[r].dataset, Cutoff(lake[r].dataset, now)>> : r \in Live(w, d)}

HeldDue(w, d, now) == {r \in w.held \cap Live(w, d) : lake[r].seen <= now}

Released(w, d, now) ==
    {r \in w.waiting \cap Live(w, d) :
        lake[r].avail <= IF d \in RowGated THEN now ELSE Cutoff(lake[r].dataset, now)}

Late(rows, now) == {r \in rows : lake[r].seen > now}

\* Mutant: a window that opens late publishes beside the whole span's parts.
MutantOneStash(w) == <<1, w.slots>>

Directory(w) == <<w.from, w.slots>>

Publication(w, d, first, last, rows, count) ==
    [dir |-> Directory(w), domain |-> d, first |-> first, last |-> last,
     rows |-> rows, count |-> count]

\* What of d the running month holds once part n is published at `now`; part 0 is
\* never merged.
Turns(m, n, now) == n > 0 /\ Month[now] # m.month
MonthAfter(m, n, count, now) ==
    IF n = 0 THEN m
    ELSE IF Turns(m, n, now) THEN [month |-> Month[now], first |-> n, last |-> n, rows |-> count]
    ELSE [m EXCEPT !.last = n, !.rows = @ + count]

\* The next part of d, and with the first part of a new month the parts of the month
\* before merged into one.
WritePart(w, d, rows, now) ==
    LET n == w.seq[d]
        m == w.months[d]
        part == Publication(w, d, n, n, rows, Len(rows))
        merged == Publication(w, d, m.first, m.last, <<>>, m.rows)
    IN  [w EXCEPT
            !.version = @ + 1, !.seq[d] = n + 1,
            !.months[d] = MonthAfter(m, n, Len(rows), now),
            !.queue = @ \o <<part>> \o
                IF Turns(m, n, now) /\ m.last > m.first THEN <<merged>> ELSE <<>>]

\* Nothing to look at, or neither a refresh nor a held row's first-seen time passed.
Skips(w, d, now) ==
    \/ IF d \in Minutes THEN w.waiting \cap Live(w, d) = {} ELSE w.segments[d] = {}
    \/ Signature(w, d, now) = w.signature[d] /\ HeldDue(w, d, now) = {}

Roll(w, d, now) ==
    LET released == Released(w, d, now)
        newly == (released \ Late(released, now)) \cup HeldDue(w, d, now)
        u == [w EXCEPT !.signature[d] = Signature(w, d, now),
                       !.waiting = @ \ released,
                       !.held = (@ \cup Late(released, now)) \ newly]
    IN  IF Skips(w, d, now) THEN w
        ELSE IF newly = {} THEN u
        ELSE WritePart(u, d, InOrder(newly), now)

\* The instants at which d may grow next.
Boundaries(w, d, now) ==
    LET pending == w.waiting \cap Live(w, d)
    IN  {lake[r].seen : r \in w.held \cap Live(w, d)} \cup
        IF d \in RowGated THEN {lake[r].avail : r \in pending}
        ELSE UNION {NextReady(lake[r].dataset, now) : r \in pending}

NextBoundary(w, now) ==
    LET all == UNION {Boundaries(w, d, now) : d \in Domains}
    IN  IF all = {} THEN None ELSE Min(all)

\* Between two boundaries a refresh looks at nothing.
Gated(w, now) == w.ready /\ (w.boundary = None \/ now < w.boundary)

RollAll(w, now) ==
    LET rolled[i \in 0 .. Len(DomainSeq)] ==
            IF i = 0 THEN w ELSE Roll(rolled[i - 1], DomainSeq[i], now)
        u == rolled[Len(DomainSeq)]
    IN  IF Gated(w, now) THEN w
        ELSE [u EXCEPT !.boundary = NextBoundary(u, now), !.ready = TRUE]

-----------------------------------------------------------------------------
(* Actions. *)

Instant(w) == Decisions[w.next]

\* A decision asks for its view; what the roll has to publish is queued.
Refresh(v) ==
    LET w == view[v] now == Instant(w)
    IN  /\ w.phase = "idle" /\ w.next <= Len(Decisions)
        /\ view' = [view EXCEPT ![v] =
               [RollAll(AppendVisible(OpenSlots(w, now), now), now) EXCEPT !.phase = "rolling"]]
        /\ UNCHANGED <<lake, stash, served>>

\* The rows of some parts, in the parts' order.
ByFirst(parts) == Ascending(parts, {p \in parts \X parts : p[1].first < p[2].first})
Reading(parts) == FlattenSeq([i \in 1 .. Cardinality(parts) |-> ByFirst(parts)[i].rows])

Covered(parts, p) == {q \in parts : p.first <= q.first /\ q.last <= p.last}

Key(p) == <<p.dir, p.domain, p.first, p.last>>

\* What the view would encode itself: a slice of its slots, or its own parts in order.
Own(w, p) == IF p.first = p.last THEN p.rows ELSE Reading(Covered(w.parts[p.domain], p))

\* Publish the next part under its lock: a part that is in the stash is linked once
\* its row count agrees, a part that is not is encoded first.
Publish(v) ==
    LET w == view[v]
        p == Head(w.queue)
        found == Key(p) \in DOMAIN stash
        rows == IF found THEN stash[Key(p)] ELSE Own(w, p)
        part == [first |-> p.first, last |-> p.last, rows |-> rows]
    IN  /\ w.phase = "rolling" /\ w.queue # <<>>
        /\ IF found /\ Len(rows) # p.count
           THEN /\ view' = [view EXCEPT ![v].phase = "refused"]
                /\ UNCHANGED stash
           ELSE /\ view' = [view EXCEPT
                        ![v].queue = Tail(@),
                        ![v].parts[p.domain] = (@ \ Covered(@, p)) \cup {part}]
                /\ stash' = [k \in DOMAIN stash \cup {Key(p)} |->
                                IF k = Key(p) THEN rows ELSE stash[k]]
        /\ UNCHANGED <<lake, served>>

Shown(w) == [d \in Domains |-> Reading(w.parts[d])]

\* The strategy is called on the refreshed view.
Serve(v) ==
    LET w == view[v]
    IN  /\ w.phase = "rolling" /\ w.queue = <<>>
        /\ served' = [served EXCEPT ![v] =
               [at |-> Instant(w), rows |-> Shown(w), version |-> w.version,
                universe |-> w.universe]]
        /\ view' = [view EXCEPT ![v].phase = "idle", ![v].next = @ + 1]
        /\ UNCHANGED <<lake, stash>>

NothingYet == [at |-> 0, rows |-> [d \in Domains |-> <<>>], version |-> 0, universe |-> 1]

Init ==
    /\ lake \in Lakes
    /\ \E from \in [Views -> 1 .. Len(Decisions)] :
           view = [v \in Views |-> NewView(from[v])]
    /\ stash = <<>>
    /\ served = [v \in Views |-> NothingYet]

Next == \E v \in Views : Refresh(v) \/ Publish(v) \/ Serve(v)

Spec == Init /\ [][Next]_vars

-----------------------------------------------------------------------------
(* Properties. *)

\* What may be known at t: landed by a finished refresh, and held by the lake.
Known(d, t) ==
    {r \in Rows(d) : /\ lake[r].seen <= t
                     /\ lake[r].avail <= IF d \in RowGated THEN t ELSE Cutoff(lake[r].dataset, t)}

\* The point-in-time wall.  Each decision reads exactly the rows its instant may know,
\* each once, and the universe of the latest anchor before it: whichever shortcuts
\* the refresh took, whichever slots were let go, whoever encoded the parts.
ViewIsExact ==
    \A v \in Views : served[v].at > 0 =>
        /\ \A d \in Domains :
               /\ Range(served[v].rows[d]) = Known(d, served[v].at)
               /\ Len(served[v].rows[d]) = Cardinality(Known(d, served[v].at))
        /\ served[v].universe = Max({1} \cup {k \in Slots : Anchors[k] < served[v].at})

\* A part found in the stash is the part the view would encode, row by row, and none is
\* refused: the stash directory says everything a part depends on.
StashAgrees ==
    \A v \in Views :
        /\ view[v].phase # "refused"
        /\ LET q == view[v].queue
           IN  q # <<>> /\ Key(Head(q)) \in DOMAIN stash =>
                   stash[Key(Head(q))] = Own(view[v], Head(q))

\* From one decision to the next the view only grows: no row a strategy has read is
\* moved or withdrawn by a merge or a new slot, and the version a strategy caches
\* under moves whenever, and only when, what it covers does.
ViewGrows ==
    [][\A v \in Views : served'[v] # served[v] =>
          LET old == served[v] new == served'[v]
          IN  /\ \A d \in Domains : IsPrefix(old.rows[d], new.rows[d])
              /\ new.version >= old.version
              /\ new.version = old.version <=>
                     new.rows = old.rows /\ new.universe = old.universe]_vars
===============================================================================
