-------------------------- MODULE SessionBudgetProofs --------------------------
(***************************************************************************)
(* The session's budgets, for any number of sub-agents, any caps and any   *)
(* length of a session: the clock counts exactly the time that no replay   *)
(* overlapped, the main conversation's reserve is left, and the spend      *)
(* overshoots its cap by the calls in flight at most.                      *)
(***************************************************************************)
EXTENDS SessionBudget, FiniteSetTheorems, TLAPS

-----------------------------------------------------------------------------
(* The strengthening. *)

Places == {"idle", "turn", "ask", "calling", "compacting", "act", "replay", "done"}
Counts == [calls : Nat, main : Nat, subagent : Nat, compact : Nat, spend : Nat]

BudgetType ==
    /\ now \in Nat /\ active \in Nat /\ allowed \in Nat /\ before \in Nat
    /\ timer \in [deadline : Int, depth : Nat, started : Nat]
    /\ budget \in Counts /\ read \in Nat
    /\ traced \in [ticks : Nat, counts : Counts]
    /\ child \in [Children -> Places]
    /\ after \in {"down", "top", "act", "close", "closed"}

\* A block on the trace is within the bounds the counters are within: the next attempt
\* starts from it.
Bounded(b) ==
    /\ b.calls <= MaxCalls /\ b.subagent <= SubagentCap
    /\ MaxCalls - b.calls >= ParentReserve - b.main
ReserveInv ==
    /\ Bounded(budget) /\ Bounded(traced.counts)
    /\ main = "tracing" => read <= budget.calls

\* The pause depth counts the threads in a replay.
Paying == {c \in Children : child[c] \in {"calling", "compacting"}}
Replaying == {c \in Children : child[c] = "replay"}
Pauses == Cardinality(Replaying) + (IF main \in {"replay", "test"} THEN 1 ELSE 0)
DepthInv == timer.depth = Pauses

SpendInv == SpendBounded /\ traced.counts.spend < MaxSpend + Cardinality(Children) + 1

BudgetInv == BudgetType /\ ReserveInv /\ DepthInv /\ ClockExact /\ SpendInv

-----------------------------------------------------------------------------
(* Counting threads. *)

\* Some of the sub-agents, with one more or one less.
LEMMA SomeOfThem ==
    ASSUME NEW S \in SUBSET Children, NEW c \in Children
    PROVE  /\ Cardinality(S) \in Nat
           /\ Cardinality(S \cup {c}) = IF c \in S THEN Cardinality(S) ELSE Cardinality(S) + 1
           /\ Cardinality(S \ {c}) = IF c \in S THEN Cardinality(S) - 1 ELSE Cardinality(S)
<1>1. IsFiniteSet(S)
  BY BudgetAssumption, FS_Subset
<1> QED BY <1>1, FS_CardinalityType, FS_AddElement, FS_RemoveElement

\* The counts are of sub-agents, so they are numbers.
LEMMA CountsOfThem ==
    /\ Cardinality(Replaying) \in Nat /\ Cardinality(Paying) \in Nat
    /\ Cardinality(Children) \in Nat
    /\ Cardinality(Paying) <= Cardinality(Children)
<1>1. Replaying \in SUBSET Children /\ Paying \in SUBSET Children
  BY DEF Replaying, Paying
<1>2. IsFiniteSet(Children)
  BY BudgetAssumption
<1> QED BY <1>1, <1>2, FS_Subset, FS_CardinalityType

\* A sub-agent that moves changes both counts by what it leaves and what it enters.
LEMMA OneMoves ==
    ASSUME BudgetType, NEW c \in Children, NEW to \in Places, Moved(c, to)
    PROVE  /\ child' \in [Children -> Places]
           /\ Cardinality(Replaying') =
                 Cardinality(Replaying) + (IF to = "replay" THEN 1 ELSE 0)
                                        - (IF child[c] = "replay" THEN 1 ELSE 0)
           /\ Cardinality(Paying') =
                 Cardinality(Paying) + (IF to \in {"calling", "compacting"} THEN 1 ELSE 0)
                                     - (IF child[c] \in {"calling", "compacting"} THEN 1 ELSE 0)
<1>1. /\ child \in [Children -> Places] /\ child' = [child EXCEPT ![c] = to]
      /\ child'[c] = to /\ \A d \in Children \ {c} : child'[d] = child[d]
  BY DEF BudgetType, Moved
<1>2. child' \in [Children -> Places]
  BY <1>1
<1>3. Cardinality(Replaying') =
        Cardinality(Replaying) + (IF to = "replay" THEN 1 ELSE 0)
                               - (IF child[c] = "replay" THEN 1 ELSE 0)
  <2>1. Replaying' = IF to = "replay" THEN Replaying \cup {c} ELSE Replaying \ {c}
    BY <1>1 DEF Replaying
  <2>2. c \in Replaying <=> child[c] = "replay"
    BY DEF Replaying
  <2>3. /\ Cardinality(Replaying) \in Nat
        /\ Cardinality(Replaying \cup {c}) = IF c \in Replaying THEN Cardinality(Replaying) ELSE Cardinality(Replaying) + 1
        /\ Cardinality(Replaying \ {c}) = IF c \in Replaying THEN Cardinality(Replaying) - 1 ELSE Cardinality(Replaying)
    <3>1. Replaying \in SUBSET Children
      BY DEF Replaying
    <3> QED BY <3>1, SomeOfThem
  <2>4. CASE ~ (to = "replay")
    <3>1. Cardinality(Replaying') = Cardinality(Replaying \ {c})
      BY <2>1, <2>4, Zenon
    <3> QED BY <2>2, <2>3, <2>4, <3>1
  <2>5. CASE to = "replay"
    <3>1. Cardinality(Replaying') = Cardinality(Replaying \cup {c})
      BY <2>1, <2>5, Zenon
    <3> QED BY <2>2, <2>3, <2>5, <3>1
  <2> QED BY <2>4, <2>5
<1>4. Cardinality(Paying') =
        Cardinality(Paying) + (IF to \in {"calling", "compacting"} THEN 1 ELSE 0)
                            - (IF child[c] \in {"calling", "compacting"} THEN 1 ELSE 0)
  <2>1. Paying' = IF to \in {"calling", "compacting"} THEN Paying \cup {c} ELSE Paying \ {c}
    BY <1>1 DEF Paying
  <2>2. c \in Paying <=> child[c] \in {"calling", "compacting"}
    BY DEF Paying
  <2>3. /\ Cardinality(Paying) \in Nat
        /\ Cardinality(Paying \cup {c}) = IF c \in Paying THEN Cardinality(Paying) ELSE Cardinality(Paying) + 1
        /\ Cardinality(Paying \ {c}) = IF c \in Paying THEN Cardinality(Paying) - 1 ELSE Cardinality(Paying)
    <3>1. Paying \in SUBSET Children
      BY DEF Paying
    <3> QED BY <3>1, SomeOfThem
  <2>4. CASE ~ (to \in {"calling", "compacting"})
    <3>1. Cardinality(Paying') = Cardinality(Paying \ {c})
      BY <2>1, <2>4, Zenon
    <3> QED BY <2>2, <2>3, <2>4, <3>1
  <2>5. CASE to \in {"calling", "compacting"}
    <3>1. Cardinality(Paying') = Cardinality(Paying \cup {c})
      BY <2>1, <2>5, Zenon
    <3> QED BY <2>2, <2>3, <2>5, <3>1
  <2> QED BY <2>4, <2>5
<1> QED BY <1>2, <1>3, <1>4

-----------------------------------------------------------------------------
(* Claims and charges. *)

\* A claim keeps the bounds: whoever is granted a call leaves the reserve.
LEMMA ClaimKeeps ==
    ASSUME BudgetType, NEW role \in {"main", "subagent", "compact"}, Granted(budget, role)
    PROVE  /\ Claimed(budget, role) \in Counts
           /\ Claimed(budget, role).calls = budget.calls + 1
           /\ Claimed(budget, role).spend = budget.spend
           /\ budget.spend < MaxSpend
           /\ Bounded(budget) => Bounded(Claimed(budget, role))
<1>0. /\ MaxCalls \in Nat /\ SubagentCap \in Nat /\ ParentReserve \in Nat /\ budget \in Counts
      /\ budget.calls < MaxCalls /\ budget.spend < MaxSpend
  BY BudgetAssumption DEF BudgetType, Granted, Affordable
<1>1. role # "main" => MaxCalls - budget.calls - 1 >= ParentReserve - budget.main
  BY <1>0 DEF Granted, LeavesReserve, ParentNeeded, Bigger, Counts
<1>2. CASE role = "main"
  <2>1. Claimed(budget, role) = [budget EXCEPT !.calls = @ + 1, !.main = @ + 1]
    BY <1>0, <1>2 DEF Claimed, Counts
  <2> DEFINE b == [budget EXCEPT !.calls = @ + 1, !.main = @ + 1]
  <2>2. /\ b.calls = budget.calls + 1 /\ b.main = budget.main + 1
        /\ b.subagent = budget.subagent /\ b.spend = budget.spend
    BY <1>0 DEF Counts
  <2>3. b \in Counts
    <3>1. budget.calls + 1 \in Nat /\ budget.main + 1 \in Nat
      BY <1>0 DEF Counts
    <3>2. \A x, y \in Nat : [budget EXCEPT !.calls = x, !.main = y] \in Counts
      BY <1>0 DEF Counts
    <3> QED BY <3>1, <3>2
  <2> HIDE DEF b
  <2>4. Bounded(budget) => Bounded(b)
    BY <1>0, <1>1, <1>2, <2>2 DEF Counts, Bounded
  <2>5. Claimed(budget, role) = b
    BY <2>1 DEF b
  <2> QED BY <1>0, <2>2, <2>4, <2>5, <2>3
<1>3. CASE role = "subagent"
  <2>1. Claimed(budget, role) = [budget EXCEPT !.calls = @ + 1, !.subagent = @ + 1]
    BY <1>0, <1>3 DEF Claimed, Counts
  <2> DEFINE b == [budget EXCEPT !.calls = @ + 1, !.subagent = @ + 1]
  <2>2. /\ b.calls = budget.calls + 1 /\ b.main = budget.main
        /\ b.subagent = budget.subagent + 1 /\ b.spend = budget.spend
    BY <1>0 DEF Counts
  <2>3. b \in Counts
    <3>1. budget.calls + 1 \in Nat /\ budget.subagent + 1 \in Nat
      BY <1>0 DEF Counts
    <3>2. \A x, y \in Nat : [budget EXCEPT !.calls = x, !.subagent = y] \in Counts
      BY <1>0 DEF Counts
    <3> QED BY <3>1, <3>2
  <2>4. budget.subagent < SubagentCap
    BY <1>3 DEF Granted
  <2> HIDE DEF b
  <2>5. Bounded(budget) => Bounded(b)
    BY <1>0, <1>1, <1>3, <2>2, <2>4 DEF Counts, Bounded
  <2>6. Claimed(budget, role) = b
    BY <2>1 DEF b
  <2> QED BY <1>0, <2>2, <2>5, <2>6, <2>3
<1>4. CASE role = "compact"
  <2>1. Claimed(budget, role) = [budget EXCEPT !.calls = @ + 1, !.compact = @ + 1]
    BY <1>0, <1>4 DEF Claimed, Counts
  <2> DEFINE b == [budget EXCEPT !.calls = @ + 1, !.compact = @ + 1]
  <2>2. /\ b.calls = budget.calls + 1 /\ b.main = budget.main
        /\ b.subagent = budget.subagent /\ b.spend = budget.spend
    BY <1>0 DEF Counts
  <2>3. b \in Counts
    <3>1. budget.calls + 1 \in Nat /\ budget.compact + 1 \in Nat
      BY <1>0 DEF Counts
    <3>2. \A x, y \in Nat : [budget EXCEPT !.calls = x, !.compact = y] \in Counts
      BY <1>0 DEF Counts
    <3> QED BY <3>1, <3>2
  <2> HIDE DEF b
  <2>4. Bounded(budget) => Bounded(b)
    BY <1>0, <1>1, <1>4, <2>2 DEF Counts, Bounded
  <2>5. Claimed(budget, role) = b
    BY <2>1 DEF b
  <2> QED BY <1>0, <2>2, <2>4, <2>5, <2>3
<1> QED BY <1>2, <1>3, <1>4

\* A charge leaves the calls alone.
LEMMA ChargeKeeps ==
    ASSUME BudgetType
    PROVE  /\ Charged(budget) \in Counts
           /\ Charged(budget).calls = budget.calls
           /\ Charged(budget).spend = budget.spend + 1
           /\ Bounded(budget) => Bounded(Charged(budget))
BY DEF BudgetType, Counts, Charged, Bounded

\* Who writes the counters: a grant, a landed reply, a new attempt and its end.
Claims(role) == Granted(budget, role) /\ budget' = Claimed(budget, role)
Spends == \/ \E role \in {"main", "subagent", "compact"} : Claims(role)
          \/ budget' = Charged(budget)
          \/ budget' = budget
LEMMA WhoSpends == [Next]_vars => Spends \/ Start \/ End
<1> SUFFICES ASSUME [Next]_vars, ~ Start, ~ End PROVE Spends
  OBVIOUS
<1>1. CASE Conversation
  BY <1>1
  DEF Conversation, Top, Ask, Land, Fail, Compact, Compacted, Trace, Traced, Launch, Replay,
      Test, Other, Wait, WaitEnds, Close, Ends, ReplayEnds, TestEnds, Spends, Claims
<1>2. ASSUME NEW c \in Children, SubAgent(c) PROVE Spends
  BY <1>2
  DEF SubAgent, ChildTurn, ChildAsk, ChildCompact, ChildCompacted, ChildLand, ChildFail,
      ChildReplay, ChildReplayEnds, Spends, Claims
<1>3. CASE Tick \/ UNCHANGED vars
  BY <1>3 DEF Tick, vars, Spends
<1> QED BY <1>1, <1>2, <1>3 DEF Next

\* Only the main conversation writes a block, and nobody does while it reads.
LEMMA WhoTraces ==
    [Next]_vars => \/ Trace \/ Traced \/ Start \/ End
                   \/ UNCHANGED block /\ (main' = main \/ main' # "tracing")
<1> SUFFICES ASSUME [Next]_vars, ~ Trace, ~ Traced, ~ Start, ~ End
             PROVE  UNCHANGED block /\ (main' = main \/ main' # "tracing")
  OBVIOUS
<1>1. CASE Conversation
  BY <1>1
  DEF Conversation, Top, Ask, Land, Fail, Compact, Compacted, Launch, Replay, Reported,
      Test, Other, Wait, WaitEnds, Close, Ends, ReplayEnds, TestEnds, block
<1>2. ASSUME NEW c \in Children, SubAgent(c) PROVE UNCHANGED block /\ main' = main
  BY <1>2
  DEF SubAgent, ChildTurn, ChildAsk, ChildCompact, ChildCompacted, ChildLand, ChildFail,
      ChildReplay, ChildReplayEnds, block
<1>3. CASE Tick \/ UNCHANGED vars
  BY <1>3 DEF Tick, vars, block
<1> QED BY <1>1, <1>2, <1>3 DEF Next

\* A block is within the bounds: what was read before the rest is no larger.
LEMMA BlockKeeps ==
    ASSUME BudgetType, ReserveInv, main = "tracing"
    PROVE  [budget EXCEPT !.calls = read] \in Counts /\ Bounded([budget EXCEPT !.calls = read])
<1>1. /\ budget \in Counts /\ read \in Nat /\ read <= budget.calls /\ Bounded(budget)
      /\ MaxCalls \in Nat /\ SubagentCap \in Nat /\ ParentReserve \in Nat
  BY BudgetAssumption DEF BudgetType, ReserveInv
<1> QED BY <1>1 DEF Counts, Bounded

\* No step takes the main conversation's reserve.
LEMMA ReserveStep == BudgetType /\ ReserveInv /\ [Next]_vars => ReserveInv'
<1> SUFFICES ASSUME BudgetType, ReserveInv, [Next]_vars PROVE ReserveInv'
  OBVIOUS
<1>0. /\ MaxCalls \in Nat /\ SubagentCap \in Nat /\ ParentReserve \in 0 .. MaxCalls
      /\ budget \in Counts /\ read \in Nat
  BY BudgetAssumption DEF BudgetType
<1>1. CASE Start
  BY <1>0, <1>1 DEF Start, ReserveInv, block
<1>2. CASE End
  <2>1. Bounded(NoSpend)
    BY <1>0 DEF Bounded, NoSpend
  <2> QED BY <1>2, <2>1 DEF End, ReserveInv
<1>3. ASSUME ~ Start, ~ End PROVE Bounded(budget)' /\ budget'.calls >= budget.calls
  <2>1. Spends
    BY <1>3, WhoSpends
  <2>2. budget.calls \in Nat
    BY <1>0 DEF Counts
  <2> QED BY <2>1, <2>2, ClaimKeeps, ChargeKeeps DEF Spends, Claims, ReserveInv
<1>4. CASE Trace
  <2>1. read' = budget.calls /\ budget' = budget /\ traced' = traced
    BY <1>4 DEF Trace
  <2> QED BY <1>0, <2>1 DEF ReserveInv, Counts
<1>5. CASE Traced
  <2>1. /\ main = "tracing" /\ main' = after /\ budget' = budget /\ read' = 0
        /\ traced'.counts = [budget EXCEPT !.calls = read]
    BY <1>5 DEF Traced
  <2>2. 0 <= budget.calls
    BY <1>0 DEF Counts
  <2> QED BY <2>1, <2>2, BlockKeeps DEF ReserveInv
<1>6. CASE ~ Start /\ ~ End /\ UNCHANGED block /\ (main' = main \/ main' # "tracing")
  <2>1. budget'.calls \in Nat /\ budget.calls \in Nat
    <3>1. Spends
      BY <1>6, WhoSpends
    <3> QED BY <1>0, <3>1, ClaimKeeps, ChargeKeeps DEF Spends, Claims, Counts
  <2> QED BY <1>0, <1>3, <1>6, <2>1 DEF ReserveInv, block
<1>7. (~ Start /\ ~ End) \/ Start \/ End
  OBVIOUS
<1> QED BY <1>1, <1>2, <1>4, <1>5, <1>6, WhoTraces

-----------------------------------------------------------------------------
(* The clock. *)

\* Entering a replay pauses the clock where it stands.
LEMMA PauseKeeps ==
    ASSUME BudgetType, timer' = Paused(timer), now' = now
    PROVE  /\ timer'.depth = timer.depth + 1 /\ Remaining' = Remaining
           /\ timer' \in [deadline : Int, depth : Nat, started : Nat]
<1>1. timer \in [deadline : Int, depth : Nat, started : Nat] /\ now \in Nat
  BY DEF BudgetType
<1>2. CASE timer.depth = 0
  <2>1. timer' = [timer EXCEPT !.depth = @ + 1, !.started = now]
    BY <1>2 DEF Paused
  <2>2. /\ timer'.depth = timer.depth + 1 /\ timer'.deadline = timer.deadline
        /\ timer'.started = now
    BY <1>1, <2>1
  <2>3. \A d, t \in Nat :
           [timer EXCEPT !.depth = d, !.started = t] \in [deadline : Int, depth : Nat, started : Nat]
    BY <1>1
  <2>4. timer' \in [deadline : Int, depth : Nat, started : Nat]
    <3>1. timer.depth + 1 \in Nat /\ now \in Nat
      BY <1>1
    <3>2. timer' = [timer EXCEPT !.depth = timer.depth + 1, !.started = now]
      BY <2>1
    <3> QED BY <2>3, <3>1, <3>2
  <2> QED BY <1>1, <1>2, <2>2, <2>4 DEF Remaining
<1>3. CASE timer.depth # 0
  <2>1. timer' = [timer EXCEPT !.depth = @ + 1, !.started = timer.started]
    BY <1>3 DEF Paused
  <2>2. /\ timer'.depth = timer.depth + 1 /\ timer'.deadline = timer.deadline
        /\ timer'.started = timer.started
    BY <1>1, <2>1
  <2>3. \A d, t \in Nat :
           [timer EXCEPT !.depth = d, !.started = t] \in [deadline : Int, depth : Nat, started : Nat]
    BY <1>1
  <2>4. timer' \in [deadline : Int, depth : Nat, started : Nat]
    <3>1. timer.depth + 1 \in Nat /\ timer.started \in Nat
      BY <1>1
    <3>2. timer' = [timer EXCEPT !.depth = timer.depth + 1, !.started = timer.started]
      BY <2>1
    <3> QED BY <2>3, <3>1, <3>2
  <2> QED BY <1>1, <1>3, <2>2, <2>4 DEF Remaining
<1> QED BY <1>2, <1>3

\* Leaving one gives back the time since the first of those that overlap.
LEMMA ResumeKeeps ==
    ASSUME BudgetType, timer.depth > 0, timer' = Resumed(timer), now' = now
    PROVE  /\ timer'.depth = timer.depth - 1 /\ Remaining' = Remaining
           /\ timer' \in [deadline : Int, depth : Nat, started : Nat]
<1>1. timer \in [deadline : Int, depth : Nat, started : Nat] /\ now \in Nat
  BY DEF BudgetType
<1>2. CASE timer.depth = 1
  <2>1. timer' = [deadline |-> timer.deadline + (now - timer.started), depth |-> 0, started |-> 0]
    BY <1>2 DEF Resumed
  <2> QED BY <1>1, <1>2, <2>1 DEF Remaining
<1>3. CASE timer.depth # 1
  <2>1. /\ timer'.deadline = timer.deadline /\ timer'.depth = timer.depth - 1
        /\ timer'.started = timer.started
        /\ timer' \in [deadline : Int, depth : Nat, started : Nat]
    BY <1>1, <1>3 DEF Resumed
  <2> QED BY <1>1, <1>3, <2>1 DEF Remaining
<1> QED BY <1>2, <1>3

\* A thread in a replay is one the depth counts.
LEMMA InReplay ==
    ASSUME DepthInv,
           main \in {"replay", "test"} \/ \E c \in Children : child[c] = "replay"
    PROVE  timer.depth > 0
<1>1. Cardinality(Replaying) \in Nat
  BY CountsOfThem
<1>2. ASSUME NEW c \in Children, child[c] = "replay" PROVE Cardinality(Replaying) # 0
  <2>1. c \in Replaying
    BY <1>2 DEF Replaying
  <2>2. IsFiniteSet(Replaying)
    <3>1. Replaying \in SUBSET Children
      BY DEF Replaying
    <3> QED BY <3>1, BudgetAssumption, FS_Subset
  <2> QED BY <2>1, <2>2, FS_EmptySet
<1> QED BY <1>1, <1>2 DEF DepthInv, Pauses

\* Steps of the main conversation, of a sub-agent or of neither that no replay begins or
\* ends with.
Quiet ==
    /\ timer' = timer /\ now' = now /\ active' = active /\ allowed' = allowed
    /\ Cardinality(Replaying') = Cardinality(Replaying)
    /\ main' \in {"replay", "test"} <=> main \in {"replay", "test"}

\* No other step touches the clock.
LEMMA MainQuiet ==
    BudgetType /\ Conversation => Quiet \/ Replay \/ Test \/ ReplayEnds \/ TestEnds
<1> SUFFICES ASSUME BudgetType, Conversation, ~ Replay, ~ Test, ~ ReplayEnds, ~ TestEnds PROVE Quiet
  OBVIOUS
<1>1. CASE Top
  <2>1. \A c \in Children : child'[c] = "replay" <=> child[c] = "replay"
    BY <1>1 DEF Top, BudgetType
  <2>2. Replaying' = Replaying
    BY <2>1 DEF Replaying
  <2> QED BY <1>1, <2>2, Zenon DEF Top, Quiet, history, clock
<1>2. CASE Launch
  <2>1. PICK c \in Children : child[c] = "idle" /\ Moved(c, "turn")
    BY <1>2 DEF Launch, Moved
  <2>2. Cardinality(Replaying') = Cardinality(Replaying)
    BY <2>1, OneMoves, CountsOfThem DEF Places
  <2> QED BY <1>2, <2>2 DEF Launch, Reported, Quiet, history, clock
<1>3. CASE Ask \/ Land \/ Fail \/ Compact \/ Compacted \/ Trace \/ Traced \/ Other \/ Wait
           \/ WaitEnds \/ Close
  <2>1. /\ timer' = timer /\ now' = now /\ active' = active /\ allowed' = allowed
        /\ child' = child
    BY <1>3
    DEF Ask, Land, Fail, Compact, Compacted, Trace, Traced, Other, Wait, WaitEnds, Close,
        history, clock
  <2>2. Cardinality(Replaying') = Cardinality(Replaying)
    BY <2>1 DEF Replaying
  <2>3. main \notin {"replay", "test"} /\ main' \notin {"replay", "test"}
    BY <1>3
    DEF Ask, Land, Fail, Compact, Compacted, Trace, Traced, Other, Wait, WaitEnds, Close,
        Reported, BudgetType
  <2> QED BY <2>1, <2>2, <2>3 DEF Quiet
<1> QED BY <1>1, <1>2, <1>3 DEF Conversation, Ends

\* Nor does a sub-agent's, but where it enters a replay or leaves one.
LEMMA ChildQuiet ==
    ASSUME BudgetType, NEW c \in Children, SubAgent(c), ~ ChildReplay(c), ~ ChildReplayEnds(c)
    PROVE  Quiet
<1>1. /\ timer' = timer /\ now' = now /\ active' = active /\ allowed' = allowed /\ main' = main
      /\ child[c] # "replay" /\ \E to \in Places \ {"replay"} : Moved(c, to)
  <2>1. CASE ChildTurn(c) \/ ChildAsk(c) \/ ChildCompact(c) \/ ChildCompacted(c)
    BY <2>1
    DEF ChildTurn, ChildAsk, ChildCompact, ChildCompacted, history, clock, Places
  <2>2. CASE ChildLand(c) \/ ChildFail(c)
    <3>1. /\ timer' = timer /\ now' = now /\ active' = active /\ allowed' = allowed
          /\ main' = main /\ child[c] # "replay"
      BY <2>2 DEF ChildLand, ChildFail, history, clock
    <3>2. \E to \in {"done", "turn", "act"} : Moved(c, to)
      BY <2>2 DEF ChildLand, ChildFail
    <3> QED BY <3>1, <3>2 DEF Places
  <2> QED BY <2>1, <2>2 DEF SubAgent
<1>2. Cardinality(Replaying') = Cardinality(Replaying)
  BY <1>1, OneMoves, CountsOfThem
<1> QED BY <1>1, <1>2 DEF Quiet

\* No step moves the clock off the time no replay overlapped.
LEMMA ClockStep ==
    BudgetType /\ DepthInv /\ ClockExact /\ [Next]_vars => DepthInv' /\ ClockExact'
<1> SUFFICES ASSUME BudgetType, DepthInv, ClockExact, [Next]_vars
             PROVE  DepthInv' /\ ClockExact'
  OBVIOUS
<1>0. /\ timer \in [deadline : Int, depth : Nat, started : Nat] /\ now \in Nat /\ active \in Nat
      /\ allowed \in Nat /\ Cardinality(Replaying) \in Nat
  BY CountsOfThem DEF BudgetType
<1>1. CASE Quiet
  BY <1>0, <1>1 DEF Quiet, DepthInv, Pauses, ClockExact, Remaining
<1>2. CASE Replay \/ Test
  <2>1. /\ timer' = Paused(timer) /\ now' = now /\ active' = active /\ allowed' = allowed
        /\ main = "act" /\ main' \in {"replay", "test"} /\ Replaying' = Replaying
    BY <1>2 DEF Replay, Test, history, clock, Replaying
  <2>2. Cardinality(Replaying') = Cardinality(Replaying)
    BY <2>1
  <2> QED BY <1>0, <2>1, <2>2, PauseKeeps DEF DepthInv, Pauses, ClockExact
<1>3. CASE ReplayEnds \/ TestEnds
  <2>1. /\ timer' = Resumed(timer) /\ now' = now /\ active' = active /\ allowed' = allowed
        /\ main \in {"replay", "test"} /\ main' \notin {"replay", "test"} /\ Replaying' = Replaying
    BY <1>3 DEF ReplayEnds, TestEnds, Reported, history, clock, Replaying
  <2>2. Cardinality(Replaying') = Cardinality(Replaying) /\ timer.depth > 0
    BY <2>1, InReplay
  <2> QED BY <1>0, <2>1, <2>2, ResumeKeeps DEF DepthInv, Pauses, ClockExact
<1>4. ASSUME NEW c \in Children, ChildReplay(c) PROVE DepthInv' /\ ClockExact'
  <2>1. /\ now' = now /\ active' = active /\ allowed' = allowed /\ main' = main /\ child[c] = "act"
    BY <1>4 DEF ChildReplay, history, clock
  <2>2. CASE Moved(c, "replay") /\ timer' = Paused(timer)
    <3>1. Cardinality(Replaying') = Cardinality(Replaying) + 1
      BY <1>0, <2>1, <2>2, OneMoves DEF Places
    <3> QED BY <1>0, <2>1, <2>2, <3>1, PauseKeeps DEF DepthInv, Pauses, ClockExact
  <2>3. CASE Moved(c, "turn") /\ timer' = timer
    <3>1. Cardinality(Replaying') = Cardinality(Replaying)
      BY <1>0, <2>1, <2>3, OneMoves DEF Places
    <3> QED BY <1>0, <2>1, <2>3, <3>1 DEF DepthInv, Pauses, ClockExact, Remaining
  <2> QED BY <1>4, <2>2, <2>3 DEF ChildReplay
<1>5. ASSUME NEW c \in Children, ChildReplayEnds(c) PROVE DepthInv' /\ ClockExact'
  <2>1. /\ now' = now /\ active' = active /\ allowed' = allowed /\ main' = main
        /\ child[c] = "replay" /\ Moved(c, "turn") /\ timer' = Resumed(timer)
    BY <1>5 DEF ChildReplayEnds, history, clock
  <2>2. Cardinality(Replaying') = Cardinality(Replaying) - 1 /\ timer.depth > 0
    BY <1>0, <2>1, OneMoves, InReplay DEF Places
  <2> QED BY <1>0, <2>1, <2>2, ResumeKeeps DEF DepthInv, Pauses, ClockExact
<1>6. CASE Tick
  <2>1. /\ timer' = timer /\ allowed' = allowed /\ main' = main /\ Replaying' = Replaying
        /\ now' = now + 1 /\ active' = IF timer.depth = 0 THEN active + 1 ELSE active
    BY <1>6 DEF Tick, history, Replaying
  <2>2. Cardinality(Replaying') = Cardinality(Replaying)
    BY <2>1
  <2> QED BY <1>0, <2>1, <2>2 DEF DepthInv, Pauses, ClockExact, Remaining
<1>7. CASE Start \/ End
  <2>1. /\ timer'.depth = 0 /\ timer'.deadline = allowed' /\ now' = 0 /\ active' = 0
        /\ main' \notin {"replay", "test"} /\ \A c \in Children : child'[c] = "idle"
    BY <1>7 DEF Start, End, NoClock
  <2>2. allowed' \in Nat
    <3>1. traced.ticks \in Nat /\ Duration \in Nat
      BY BudgetAssumption DEF BudgetType
    <3> QED BY <1>7, <3>1 DEF Start, End, Bigger
  <2>3. Replaying' = {}
    BY <2>1 DEF Replaying
  <2>4. Cardinality(Replaying') = 0
    BY <2>3, FS_EmptySet
  <2> QED BY <2>1, <2>2, <2>4 DEF DepthInv, Pauses, ClockExact, Remaining
<1>8. CASE UNCHANGED vars
  <2>1. Cardinality(Replaying') = Cardinality(Replaying)
    BY <1>8 DEF vars, Replaying
  <2> QED BY <1>1, <1>8, <2>1 DEF vars, Quiet
<1> QED BY <1>1, <1>2, <1>3, <1>4, <1>5, <1>6, <1>7, <1>8, MainQuiet, ChildQuiet DEF Next

-----------------------------------------------------------------------------
(* The spend. *)

MainPays == IF main \in {"calling", "compacting"} THEN 1 ELSE 0

\* What is in flight is a call of some sub-agents and, perhaps, of the main conversation.
LEMMA InFlightIs ==
    /\ InFlight = Cardinality(Paying) + MainPays
    /\ InFlight' = Cardinality(Paying') + MainPays'
    /\ InFlight \in Nat /\ InFlight <= Cardinality(Children) + 1
<1>1. InFlight = Cardinality(Paying) + MainPays /\ InFlight' = Cardinality(Paying') + MainPays'
  BY DEF InFlight, Paying, MainPays
<1>2. MainPays \in {0, 1}
  BY DEF MainPays
<1> QED BY <1>1, <1>2, CountsOfThem

\* A step neither claims nor charges, or lands what was in flight, or claims below the cap.
Free == budget'.spend = budget.spend /\ InFlight' <= InFlight
Lands == budget'.spend = budget.spend + 1 /\ InFlight' = InFlight - 1
Flies == budget'.spend = budget.spend /\ budget.spend < MaxSpend

\* Every step of the main conversation is one of the three.
LEMMA MainFlight == BudgetType /\ Conversation => Free \/ Lands \/ Flies
<1> SUFFICES ASSUME BudgetType, Conversation PROVE Free \/ Lands \/ Flies
  OBVIOUS
<1>0. InFlight \in Nat /\ Cardinality(Paying) \in Nat /\ budget \in Counts
  BY InFlightIs, CountsOfThem DEF BudgetType
<1>1. CASE Ask \/ Compact
  <2>1. CASE \E role \in {"main", "compact"} : Claims(role)
    BY <2>1, ClaimKeeps DEF Claims, Flies
  <2>2. CASE budget' = budget /\ child' = child /\ main' = "trace"
    <3>1. Cardinality(Paying') = Cardinality(Paying) /\ MainPays' = 0 /\ MainPays \in {0, 1}
      BY <2>2 DEF Paying, MainPays
    <3> QED BY <1>0, <2>2, <3>1, InFlightIs DEF Free
  <2> QED BY <1>1, <2>1, <2>2 DEF Ask, Compact, Claims
<1>2. CASE Land \/ Fail \/ Compacted
  <2>1. /\ MainPays = 1 /\ MainPays' = 0 /\ child' = child
        /\ budget' = budget \/ budget' = Charged(budget)
    BY <1>2 DEF Land, Fail, Compacted, MainPays
  <2>2. Cardinality(Paying') = Cardinality(Paying)
    BY <2>1 DEF Paying
  <2> QED BY <1>0, <2>1, <2>2, InFlightIs, ChargeKeeps DEF Free, Lands
<1>3. CASE Top
  <2>1. \A c \in Children :
           child'[c] \in {"calling", "compacting"} <=> child[c] \in {"calling", "compacting"}
    BY <1>3 DEF Top, BudgetType
  <2>2. Paying' = Paying
    BY <2>1 DEF Paying
  <2>3. Cardinality(Paying') = Cardinality(Paying)
    BY <2>2, Zenon
  <2>4. MainPays' = 0 /\ MainPays = 0 /\ budget' = budget
    BY <1>3 DEF Top, MainPays
  <2> QED BY <1>0, <2>3, <2>4, InFlightIs DEF Free
<1>4. CASE Launch
  <2>1. PICK c \in Children : child[c] = "idle" /\ Moved(c, "turn")
    BY <1>4 DEF Launch, Moved
  <2>2. Cardinality(Paying') = Cardinality(Paying)
    BY <1>0, <2>1, OneMoves DEF Places
  <2>3. MainPays' = 0 /\ MainPays = 0 /\ budget' = budget
    BY <1>4 DEF Launch, Reported, MainPays
  <2> QED BY <1>0, <2>2, <2>3, InFlightIs DEF Free
<1>5. CASE Trace \/ Traced \/ Replay \/ Test \/ Other \/ Wait \/ WaitEnds \/ Close \/ Ends
  <2>1. budget' = budget /\ child' = child /\ main' \notin {"calling", "compacting"}
    BY <1>5
    DEF Trace, Traced, Replay, Test, Other, Wait, WaitEnds, Close, Ends, ReplayEnds, TestEnds,
        Reported, BudgetType
  <2>2. Cardinality(Paying') = Cardinality(Paying) /\ MainPays' = 0 /\ MainPays \in {0, 1}
    BY <2>1 DEF Paying, MainPays
  <2> QED BY <1>0, <2>1, <2>2, InFlightIs DEF Free
<1> QED BY <1>1, <1>2, <1>3, <1>4, <1>5 DEF Conversation

\* So is every step of a sub-agent.
LEMMA ChildFlight ==
    ASSUME BudgetType, NEW c \in Children, SubAgent(c)
    PROVE  Free \/ Lands \/ Flies
<1>0. /\ InFlight \in Nat /\ Cardinality(Paying) \in Nat /\ budget \in Counts
      /\ MainPays \in {0, 1} /\ main' = main /\ MainPays' = MainPays
  <2>1. main' = main
    BY DEF SubAgent, ChildTurn, ChildAsk, ChildCompact, ChildCompacted, ChildLand, ChildFail,
           ChildReplay, ChildReplayEnds
  <2> QED BY <2>1, InFlightIs, CountsOfThem DEF BudgetType, MainPays
<1>1. CASE \E role \in {"subagent", "compact"} : Claims(role)
  BY <1>1, ClaimKeeps DEF Claims, Flies
<1>2. CASE ChildLand(c) \/ ChildFail(c) \/ ChildCompacted(c)
  <2>1. PICK to \in {"done", "turn", "act", "ask"} : Moved(c, to)
    BY <1>2 DEF ChildLand, ChildFail, ChildCompacted
  <2>2. /\ child[c] \in {"calling", "compacting"}
        /\ budget' = budget \/ budget' = Charged(budget)
    BY <1>2 DEF ChildLand, ChildFail, ChildCompacted
  <2>3. Cardinality(Paying') = Cardinality(Paying) - 1
    BY <1>0, <2>1, <2>2, OneMoves DEF Places
  <2> QED BY <1>0, <2>2, <2>3, InFlightIs, ChargeKeeps DEF Free, Lands
<1>3. CASE budget' = budget /\ child[c] \notin {"calling", "compacting"}
           /\ \E to \in Places \ {"calling", "compacting"} : Moved(c, to)
  <2>1. Cardinality(Paying') = Cardinality(Paying)
    BY <1>0, <1>3, OneMoves
  <2> QED BY <1>0, <1>3, <2>1, InFlightIs DEF Free
<1> QED
  BY <1>1, <1>2, <1>3
  DEF SubAgent, ChildTurn, ChildAsk, ChildCompact, ChildReplay, ChildReplayEnds, Claims, Places

\* No step takes the spend further past its cap than the calls in flight.
LEMMA SpendStep == BudgetType /\ SpendInv /\ [Next]_vars => SpendInv'
<1> SUFFICES ASSUME BudgetType, SpendInv, [Next]_vars PROVE SpendInv'
  OBVIOUS
<1> DEFINE bound == MaxSpend + Cardinality(Children) + 1
<1>0. /\ InFlight \in Nat /\ budget.spend \in Nat /\ traced.counts.spend \in Nat
      /\ Cardinality(Children) \in Nat /\ MaxSpend \in Nat \ {0}
      /\ budget.spend + InFlight < bound /\ traced.counts.spend < bound
  BY InFlightIs, CountsOfThem, BudgetAssumption DEF BudgetType, Counts, SpendInv, SpendBounded
<1>1. InFlight' \in Nat /\ InFlight' <= Cardinality(Children) + 1
  <2>1. Cardinality(Paying') \in Nat /\ Cardinality(Paying') <= Cardinality(Children)
    <3>1. Paying' \in SUBSET Children
      BY DEF Paying
    <3> QED BY <3>1, BudgetAssumption, FS_Subset, FS_CardinalityType
  <2>2. MainPays' \in {0, 1}
    BY DEF MainPays
  <2> QED BY <1>0, <2>1, <2>2, InFlightIs
<1>2. CASE (Free \/ Lands \/ Flies) /\ (traced'.counts.spend = traced.counts.spend
                                        \/ traced'.counts.spend = budget.spend)
  BY <1>0, <1>1, <1>2 DEF Free, Lands, Flies, SpendInv, SpendBounded
<1>3. CASE Start \/ End
  <2>1. /\ traced' = traced /\ budget'.spend \in {0, traced.counts.spend}
        /\ main' \in {"top", "down"} /\ \A c \in Children : child'[c] = "idle"
    BY <1>3 DEF Start, End, NoSpend, block
  <2>2. Paying' = {} /\ MainPays' = 0
    BY <2>1 DEF Paying, MainPays
  <2>3. InFlight' = 0
    BY <2>2, InFlightIs, FS_EmptySet
  <2> QED BY <1>0, <2>1, <2>3 DEF SpendInv, SpendBounded
<1>4. CASE Tick \/ UNCHANGED vars
  <2>1. budget' = budget /\ child' = child /\ main' = main /\ traced' = traced
    BY <1>4 DEF Tick, vars, block
  <2>2. InFlight' = InFlight
    BY <2>1 DEF InFlight
  <2> QED BY <1>0, <2>1, <2>2 DEF SpendInv, SpendBounded
<1>5. \/ Start \/ End
      \/ traced'.counts.spend = traced.counts.spend \/ traced'.counts.spend = budget.spend
  <2>1. CASE Traced
    <3>1. traced'.counts = [budget EXCEPT !.calls = read]
      BY <2>1 DEF Traced
    <3>2. budget \in Counts
      BY DEF BudgetType
    <3> QED BY <3>1, <3>2 DEF Counts
  <2>2. CASE Trace \/ UNCHANGED block
    BY <2>2 DEF Trace, block
  <2> QED BY <2>1, <2>2, WhoTraces
<1> QED BY <1>2, <1>3, <1>4, <1>5, MainFlight, ChildFlight DEF Next

-----------------------------------------------------------------------------
(* The theorems. *)

\* Time and attempts are of three actions only.
LEMMA WhoTicks ==
    [Next]_vars => Start \/ End \/ (UNCHANGED history /\ (Tick \/ UNCHANGED clock))
<1> SUFFICES ASSUME [Next]_vars, ~ Start, ~ End
             PROVE  UNCHANGED history /\ (Tick \/ UNCHANGED clock)
  OBVIOUS
<1>1. CASE Conversation
  BY <1>1
  DEF Conversation, Top, Ask, Land, Fail, Compact, Compacted, Trace, Traced, Launch, Replay,
      Test, Other, Wait, WaitEnds, Close, Ends, ReplayEnds, TestEnds
<1>2. ASSUME NEW c \in Children, SubAgent(c) PROVE UNCHANGED <<history, clock>>
  BY <1>2
  DEF SubAgent, ChildTurn, ChildAsk, ChildCompact, ChildCompacted, ChildLand, ChildFail,
      ChildReplay, ChildReplayEnds
<1>3. CASE Tick \/ UNCHANGED vars
  BY <1>3 DEF Tick, vars, history, clock
<1> QED BY <1>1, <1>2, <1>3 DEF Next

\* The pause depth of a clock that is paused and resumed is a number.
LEMMA TimerType ==
    BudgetType /\ DepthInv /\ [Next]_vars =>
        timer' \in [deadline : Int, depth : Nat, started : Nat]
<1> SUFFICES ASSUME BudgetType, DepthInv, [Next]_vars
             PROVE  timer' \in [deadline : Int, depth : Nat, started : Nat]
  OBVIOUS
<1>1. CASE timer' = timer
  BY <1>1 DEF BudgetType
<1>2. CASE timer' = Paused(timer) /\ now' = now
  BY <1>2, PauseKeeps
<1>3. CASE timer.depth > 0 /\ timer' = Resumed(timer) /\ now' = now
  BY <1>3, ResumeKeeps
<1>4. CASE Start \/ End
  <2>1. traced.ticks \in Nat /\ Duration \in Nat
    BY BudgetAssumption DEF BudgetType
  <2> QED BY <1>4, <2>1 DEF Start, End, Bigger, NoClock
<1>5. CASE Conversation
  <2>1. Quiet => timer' = timer
    BY DEF Quiet
  <2>2. Replay \/ Test => timer' = Paused(timer) /\ now' = now
    BY DEF Replay, Test, clock
  <2>3. ReplayEnds \/ TestEnds =>
           main \in {"replay", "test"} /\ timer' = Resumed(timer) /\ now' = now
    BY DEF ReplayEnds, TestEnds, clock
  <2> QED BY <1>1, <1>2, <1>3, <1>5, <2>1, <2>2, <2>3, MainQuiet, InReplay
<1>6. ASSUME NEW c \in Children, SubAgent(c)
      PROVE  timer' \in [deadline : Int, depth : Nat, started : Nat]
  <2>1. Quiet => timer' = timer
    BY DEF Quiet
  <2>2. ChildReplay(c) => now' = now /\ timer' \in {timer, Paused(timer)}
    BY DEF ChildReplay, clock
  <2>3. ChildReplayEnds(c) => child[c] = "replay" /\ timer' = Resumed(timer) /\ now' = now
    BY DEF ChildReplayEnds, clock
  <2> QED BY <1>1, <1>2, <1>3, <1>6, <2>1, <2>2, <2>3, ChildQuiet, InReplay
<1>7. CASE Tick \/ UNCHANGED vars
  BY <1>1, <1>7 DEF Tick, vars
<1> QED BY <1>4, <1>5, <1>6, <1>7 DEF Next

\* The rest of the types.
LEMMA TypeStep == BudgetType /\ DepthInv /\ ReserveInv /\ [Next]_vars => BudgetType'
<1> SUFFICES ASSUME BudgetType, DepthInv, ReserveInv, [Next]_vars PROVE BudgetType'
  OBVIOUS
<1>1. now' \in Nat /\ active' \in Nat /\ allowed' \in Nat /\ before' \in Nat
  <2>1. Duration \in Nat /\ traced.ticks \in Nat
    BY BudgetAssumption DEF BudgetType
  <2>2. CASE Start \/ End
    BY <2>1, <2>2 DEF Start, End, Bigger
  <2>3. CASE UNCHANGED history /\ (Tick \/ UNCHANGED clock)
    BY <2>3 DEF Tick, clock, history, BudgetType
  <2> QED BY <2>2, <2>3, WhoTicks
<1>2. budget' \in Counts
  <2>1. CASE Start \/ End
    BY <2>1 DEF Start, End, NoSpend, Counts, BudgetType
  <2>2. CASE Spends
    BY <2>2, ClaimKeeps, ChargeKeeps DEF Spends, Claims, BudgetType
  <2> QED BY <2>1, <2>2, WhoSpends
<1>3. read' \in Nat /\ traced' \in [ticks : Nat, counts : Counts]
  <2>1. CASE Traced
    <3>1. before + Bigger(0, allowed - Remaining) \in Nat
      BY DEF Bigger, Remaining, BudgetType
    <3> QED BY <2>1, <3>1, BlockKeeps DEF Traced
  <2>2. CASE Trace
    BY <2>2 DEF Trace, BudgetType, Counts
  <2>3. CASE UNCHANGED block \/ Start \/ End
    BY <2>3 DEF Start, End, block, BudgetType
  <2> QED BY <2>1, <2>2, <2>3, WhoTraces
<1>4. /\ child' \in [Children -> Places]
      /\ after' \in {"down", "top", "act", "close", "closed"}
  <2>1. CASE Conversation
    <3>1. after' \in {"down", "top", "act", "close", "closed"}
      BY <2>1
      DEF Conversation, Top, Ask, Land, Fail, Compact, Compacted, Trace, Traced, Launch, Replay,
          Test, Other, Wait, WaitEnds, Close, Ends, ReplayEnds, TestEnds, Reported, BudgetType
    <3>2. child' = child => child' \in [Children -> Places]
      BY DEF BudgetType
    <3>3. Top \/ Launch => child' \in [Children -> Places]
      BY DEF Top, Launch, BudgetType, Places
    <3>4. child' = child \/ Top \/ Launch
      BY <2>1
      DEF Conversation, Ask, Land, Fail, Compact, Compacted, Trace, Traced, Replay,
          Test, Other, Wait, WaitEnds, Close, Ends, ReplayEnds, TestEnds
    <3> QED BY <3>1, <3>2, <3>3, <3>4
  <2>2. ASSUME NEW c \in Children, SubAgent(c)
        PROVE  child' \in [Children -> Places] /\ after' = after
    <3>1. after' = after
      BY <2>2
      DEF SubAgent, ChildTurn, ChildAsk, ChildCompact, ChildCompacted, ChildLand, ChildFail,
          ChildReplay, ChildReplayEnds
    <3>2. \E to \in Places : Moved(c, to)
      BY <2>2
      DEF SubAgent, ChildTurn, ChildAsk, ChildCompact, ChildCompacted, ChildLand, ChildFail,
          ChildReplay, ChildReplayEnds, Places
    <3> QED BY <3>1, <3>2, OneMoves
  <2>3. CASE Start \/ End \/ Tick \/ UNCHANGED vars
    BY <2>3 DEF Start, End, Tick, vars, BudgetType, Places
  <2>4. after \in {"down", "top", "act", "close", "closed"}
    BY DEF BudgetType
  <2> QED BY <2>1, <2>2, <2>3, <2>4 DEF Next
<1> QED BY <1>1, <1>2, <1>3, <1>4, TimerType DEF BudgetType

\* The strengthening is an invariant.
THEOREM BudgetInductive == Spec => []BudgetInv
<1>1. Init => BudgetInv
  <2> SUFFICES ASSUME Init PROVE BudgetInv
    OBVIOUS
  <2>1. /\ MaxCalls \in Nat /\ SubagentCap \in Nat /\ ParentReserve \in 0 .. MaxCalls
        /\ MaxSpend \in Nat \ {0} /\ Cardinality(Children) \in Nat
    BY BudgetAssumption, CountsOfThem
  <2>2. BudgetType
    BY DEF Init, BudgetType, NoClock, NoSpend, Counts, Places
  <2>3. ReserveInv
    BY <2>1 DEF Init, ReserveInv, Bounded, NoSpend
  <2>4. Replaying = {} /\ Paying = {} /\ MainPays = 0
    BY DEF Init, Replaying, Paying, MainPays
  <2>5. Cardinality(Replaying) = 0 /\ Cardinality(Paying) = 0
    BY <2>4, FS_EmptySet
  <2>6. DepthInv /\ ClockExact
    BY <2>5 DEF Init, DepthInv, Pauses, ClockExact, Remaining, NoClock
  <2>7. InFlight = 0
    BY <2>4, <2>5, InFlightIs
  <2>8. SpendInv
    BY <2>1, <2>7 DEF Init, SpendInv, SpendBounded, NoSpend
  <2> QED BY <2>2, <2>3, <2>6, <2>8 DEF BudgetInv
<1>2. BudgetInv /\ [Next]_vars => BudgetInv'
  BY TypeStep, ReserveStep, ClockStep, SpendStep DEF BudgetInv
<1> QED BY <1>1, <1>2, PTL DEF Spec

(* The active time is what no replay overlapped (time_budget.py:4-6): for any number of
   threads whose replays begin and end in any order. *)
THEOREM ClockIsExact == Spec => []ClockExact
<1>1. BudgetInv => ClockExact
  BY DEF BudgetInv
<1> QED BY <1>1, BudgetInductive, PTL

(* No sub-agent or compaction takes the main conversation's reserve, and the sub-agents
   stay within their cap (research_session.py:181-184), in a resumed session too. *)
THEOREM ReserveIsKept == Spec => []ReserveKept
<1>1. BudgetInv => ReserveKept
  BY DEF BudgetInv, ReserveInv, Bounded, ReserveKept
<1> QED BY <1>1, BudgetInductive, PTL

(* The spend passes its cap by no more than the calls in flight (research_session.py:
   184-187), whatever the threads that claimed theirs before it was reached. *)
THEOREM SpendIsBounded == Spec => []SpendBounded
<1>1. BudgetInv => SpendBounded
  BY DEF BudgetInv, SpendInv
<1> QED BY <1>1, BudgetInductive, PTL
=============================================================================
