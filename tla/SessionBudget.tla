----------------------------- MODULE SessionBudget -----------------------------
(* One session's shared budgets, and the threads that draw on them: the main
   conversation (agent/runner.py), the sub-agents it launches (agent/subagent.py) and
   the compactions of both.  SessionCallBudget (pipelines/research_session.py) counts
   the calls and the API spend, InferenceTimeBudget (environment/time_budget.py) the
   active time; replays pause it, the main conversation's and the sub-agents' alike.
   The trace carries what was spent, and the next attempt starts from its last block
   (pipelines/session_resume.py).

   Time is in ticks; a landed response costs one unit.  Claims, charges and pauses hold
   a lock; a trace block is put together without one. *)
EXTENDS Integers, FiniteSets

CONSTANTS Children,        \* sub-agents that may run at once
          MaxCalls,        \* max_llm_calls
          SubagentCap,     \* session_role_quotas: the sub-agents' cumulative cap
          ParentReserve,   \*   and the calls withheld for the main conversation
          MaxSpend,        \* max_api_spend_usd, in responses
          Duration,        \* deadline_seconds, in ticks
          Grace,           \* deadline_grace_seconds: the wrap-up window at the end
          Teardown,        \* SUBAGENT_TEARDOWN_WAIT_SECONDS
          MaxPaused,       \* bound: ticks spent in replays, per attempt
          MaxAttempts      \* bound: attempts of the session

ASSUME BudgetAssumption ==
    /\ IsFiniteSet(Children)
    /\ MaxCalls \in Nat \ {0} /\ SubagentCap \in Nat /\ ParentReserve \in 0..MaxCalls
    /\ MaxSpend \in Nat \ {0} /\ Duration \in Nat \ {0}
    /\ Grace \in Nat /\ Teardown \in Nat /\ MaxPaused \in Nat /\ MaxAttempts \in Nat

VARIABLES attempt,     \* of the session
          now,         \* the attempt's clock
          active,      \* of it, the ticks no replay was running in (history)
          timer,       \* InferenceTimeBudget: deadline, pause depth, pause start
          allowed,     \* the active ticks this attempt was given
          before,      \* the active ticks the earlier ones used
          budget,      \* SessionCallBudget: calls in all and by role, and the spend
          main,        \* where the main conversation is
          after,       \* where it goes once its event is on the trace
          child,       \* where each sub-agent is
          wrapUp,      \* the wrap-up prompt is out
          cancelled,   \* the session is closing
          read,        \* the call count of the block being put together
          traced       \* the last budget_used block on the trace

clock == <<now, active>>
history == <<attempt, allowed, before>>
flags == <<wrapUp, cancelled>>
block == <<read, traced>>
vars == <<attempt, now, active, timer, allowed, before, budget, main, after, child,
          wrapUp, cancelled, read, traced>>

Bigger(a, b) == IF a >= b THEN a ELSE b
Over == main \in {"down", "closed"}
Running == {c \in Children : child[c] \notin {"idle", "done"}}
InFlight == Cardinality({c \in Children : child[c] \in {"calling", "compacting"}})
            + (IF main \in {"calling", "compacting"} THEN 1 ELSE 0)

---------------------------------------------------------------------------------
(* The two budgets. *)

Remaining == timer.deadline - (IF timer.depth > 0 THEN timer.started ELSE now)

\* pause, and its exit: nested pauses extend the deadline by their union.
Paused(t) == [t EXCEPT !.depth = @ + 1, !.started = IF t.depth = 0 THEN now ELSE @]
MutantResumed(t) ==
    [t EXCEPT !.depth = @ - 1, !.deadline = @ + (now - t.started),
              !.started = IF t.depth = 1 THEN 0 ELSE @]
Resumed(t) ==
    IF t.depth = 1 THEN [deadline |-> t.deadline + (now - t.started), depth |-> 0, started |-> 0]
    ELSE [t EXCEPT !.depth = @ - 1]

\* claim: time, spend, calls, the sub-agents' cap, the main conversation's reserve.
ParentNeeded(b) == Bigger(0, ParentReserve - b.main)
MutantReserve(b, role) == role # "main" => MaxCalls - b.calls >= ParentNeeded(b)
LeavesReserve(b, role) == role # "main" => MaxCalls - b.calls - 1 >= ParentNeeded(b)
MutantAffordable(b) == b.spend <= MaxSpend
Affordable(b) == b.spend < MaxSpend
Granted(b, role) ==
    /\ Remaining > 0
    /\ Affordable(b)
    /\ b.calls < MaxCalls
    /\ role = "subagent" => b.subagent < SubagentCap
    /\ LeavesReserve(b, role)
Claimed(b, role) == [b EXCEPT !.calls = @ + 1, ![role] = @ + 1]
Charged(b) == [b EXCEPT !.spend = @ + 1]

NoSpend == [calls |-> 0, main |-> 0, subagent |-> 0, compact |-> 0, spend |-> 0]

NoClock == [deadline |-> 0, depth |-> 0, started |-> 0]

Init ==
    /\ attempt = 0 /\ now = 0 /\ active = 0 /\ allowed = 0 /\ before = 0
    /\ timer = NoClock
    /\ budget = NoSpend /\ traced = [ticks |-> 0, counts |-> NoSpend] /\ read = 0
    /\ main = "down" /\ after = "down" /\ child = [c \in Children |-> "idle"]
    /\ wrapUp = FALSE /\ cancelled = FALSE

\* The tail of this attempt that its sub-agents stop before, if it has one.
ChildReserve == IF Grace < allowed THEN Grace ELSE 0

---------------------------------------------------------------------------------
(* Attempts. *)

\* A new attempt, with fresh threads: its clock holds the rest, its counters the spend.
Start ==
    /\ main = "down" /\ attempt < MaxAttempts
    /\ attempt' = attempt + 1
    /\ before' = traced.ticks
    /\ allowed' = Bigger(Duration - traced.ticks, 1)
    /\ timer' = [deadline |-> allowed', depth |-> 0, started |-> 0]
    /\ now' = 0 /\ active' = 0
    /\ budget' = traced.counts
    /\ main' = "top" /\ child' = [c \in Children |-> "idle"]
    /\ wrapUp' = FALSE /\ cancelled' = FALSE
    /\ UNCHANGED <<after, block>>

\* The attempt raises, is terminated or killed: all but the trace is gone.
End ==
    /\ main # "down"
    /\ now' = 0 /\ active' = 0 /\ allowed' = 0 /\ before' = 0
    /\ timer' = NoClock /\ budget' = NoSpend /\ read' = 0
    /\ main' = "down" /\ after' = "down" /\ child' = [c \in Children |-> "idle"]
    /\ wrapUp' = FALSE /\ cancelled' = FALSE
    /\ UNCHANGED <<attempt, traced>>

Tick ==
    /\ main # "down"
    /\ IF timer.depth = 0 THEN Remaining > 0 ELSE now - active < MaxPaused
    /\ now' = now + 1
    /\ active' = IF timer.depth = 0 THEN active + 1 ELSE active
    /\ UNCHANGED <<history, timer, budget, main, after, child, flags, block>>

---------------------------------------------------------------------------------
(* The main conversation. *)

\* The loop's head: the deadline, the wrap-up prompt, the sub-agents that are done.
Top ==
    /\ main = "top"
    /\ IF Remaining <= 0 THEN main' = "close" /\ UNCHANGED <<wrapUp, child>>
       ELSE /\ main' = "ask"
            /\ wrapUp' = (wrapUp \/ Remaining <= Grace)
            /\ child' = [c \in Children |-> IF child[c] = "done" THEN "idle" ELSE child[c]]
    /\ UNCHANGED <<history, clock, timer, budget, after, cancelled, block>>

\* A model call: refused, the session closes; its failure is traced first.
Ask ==
    /\ main = "ask"
    /\ IF Granted(budget, "main")
       THEN main' = "calling" /\ budget' = Claimed(budget, "main") /\ UNCHANGED after
       ELSE main' = "trace" /\ after' = "close" /\ UNCHANGED budget
    /\ UNCHANGED <<history, clock, timer, child, flags, block>>

\* The reply is charged before the deadline is looked at.
Land ==
    /\ main = "calling"
    /\ budget' = Charged(budget)
    /\ main' = "trace"
    /\ after' = IF Remaining <= 0 THEN "close" ELSE "act"
    /\ UNCHANGED <<history, clock, timer, child, flags, block>>

\* The call fails, uncharged: another turn, or the last of a streak.
Fail ==
    /\ main = "calling"
    /\ main' = "trace"
    /\ after' \in IF Remaining <= 0 THEN {"close"} ELSE {"top", "close"}
    /\ UNCHANGED <<history, clock, timer, budget, child, flags, block>>

\* Compaction before a call; refused or failed, the conversation goes on without it.
Compact ==
    /\ main = "ask" /\ Granted(budget, "compact")
    /\ main' = "compacting" /\ budget' = Claimed(budget, "compact")
    /\ UNCHANGED <<history, clock, timer, after, child, flags, block>>
Compacted ==
    /\ main = "compacting"
    /\ main' = "ask"
    /\ budget' \in {budget, Charged(budget)}
    /\ UNCHANGED <<history, clock, timer, after, child, flags, block>>

\* A traced event: the counters are read one by one while sub-agents go on claiming.
Trace ==
    /\ main = "trace"
    /\ read' = budget.calls
    /\ main' = "tracing"
    /\ UNCHANGED <<history, clock, timer, budget, after, child, flags, traced>>
Traced ==
    /\ main = "tracing"
    /\ traced' = [ticks |-> before + Bigger(0, allowed - Remaining),
                  counts |-> [budget EXCEPT !.calls = read]]
    /\ read' = 0
    /\ main' = after /\ after' = "down"
    /\ UNCHANGED <<history, clock, timer, budget, child, flags>>

Reported == main' = "trace" /\ after' = "top"

\* What a reply asks for.  A launch beyond the pool queues until a slot is free.
Launch ==
    /\ main = "act"
    /\ \E c \in Children : child[c] = "idle" /\ child' = [child EXCEPT ![c] = "turn"]
    /\ Reported
    /\ UNCHANGED <<history, clock, timer, budget, flags, block>>
Replay ==
    /\ main = "act"
    /\ Remaining > 0
    /\ main' = "replay" /\ timer' = Paused(timer)
    /\ UNCHANGED <<history, clock, budget, after, child, flags, block>>
\* A replay returns, or ends the session on a failing environment.
ReplayEnds ==
    /\ main = "replay"
    /\ timer' = Resumed(timer)
    /\ \/ Reported
       \/ main' = "close" /\ UNCHANGED after
    /\ UNCHANGED <<history, clock, budget, child, flags, block>>
\* The last test waits for the sub-agents and is refused while any is running, but in
\* the tail and when a teardown is all that is left.
Test ==
    /\ main = "act"
    /\ Running = {} \/ wrapUp \/ Remaining <= Teardown
    /\ Remaining > 0
    /\ main' = "test" /\ timer' = Paused(timer)
    /\ UNCHANGED <<history, clock, budget, after, child, flags, block>>
TestEnds ==
    /\ main = "test"
    /\ timer' = Resumed(timer)
    /\ \/ main' = "trace" /\ after' \in {"top", "close"}
       \/ main' = "close" /\ UNCHANGED after
    /\ UNCHANGED <<history, clock, budget, child, flags, block>>
\* Any other tool; or no tool call, and no sub-agent worth waiting for.
Other ==
    /\ main = "act"
    /\ Reported \/ (main' = "top" /\ UNCHANGED after)
    /\ UNCHANGED <<history, clock, timer, budget, child, flags, block>>

\* A turn without a tool call waits for the first sub-agent to finish, down to the tail.
Wait ==
    /\ main = "act"
    /\ Running # {} /\ ~ wrapUp /\ Remaining > ChildReserve
    /\ \A c \in Children : child[c] # "done"
    /\ main' = "wait"
    /\ UNCHANGED <<history, clock, timer, budget, after, child, flags, block>>
MutantWaited == \E c \in Children : child[c] = "done"
Waited == (\E c \in Children : child[c] = "done") \/ Remaining <= ChildReserve
WaitEnds ==
    /\ main = "wait"
    /\ Waited
    /\ main' = "top"
    /\ UNCHANGED <<history, clock, timer, budget, after, child, flags, block>>

\* Closing cancels the sub-agents and waits a bounded while for them.
Close ==
    /\ main = "close"
    /\ cancelled' = TRUE
    /\ main' = "trace" /\ after' = "closed"
    /\ UNCHANGED <<history, clock, timer, budget, child, wrapUp, block>>

Ends == ReplayEnds \/ TestEnds
Conversation ==
    \/ Top \/ Ask \/ Land \/ Fail \/ Compact \/ Compacted \/ Trace \/ Traced
    \/ Launch \/ Replay \/ Test \/ Other \/ Wait \/ WaitEnds \/ Close \/ Ends

---------------------------------------------------------------------------------
(* A sub-agent. *)

Moved(c, to) == child' = [child EXCEPT ![c] = to]

\* Its share of the clock ends where the parent's tail begins.
ChildTurn(c) ==
    /\ child[c] = "turn"
    /\ IF cancelled \/ Remaining <= ChildReserve THEN Moved(c, "done") ELSE Moved(c, "ask")
    /\ UNCHANGED <<history, clock, timer, budget, main, after, flags, block>>
ChildAsk(c) ==
    /\ child[c] = "ask"
    /\ IF Granted(budget, "subagent")
       THEN Moved(c, "calling") /\ budget' = Claimed(budget, "subagent")
       ELSE Moved(c, "done") /\ UNCHANGED budget
    /\ UNCHANGED <<history, clock, timer, main, after, flags, block>>
ChildCompact(c) ==
    /\ child[c] = "ask" /\ Granted(budget, "compact")
    /\ Moved(c, "compacting") /\ budget' = Claimed(budget, "compact")
    /\ UNCHANGED <<history, clock, timer, main, after, flags, block>>
ChildCompacted(c) ==
    /\ child[c] = "compacting"
    /\ Moved(c, "ask")
    /\ budget' \in {budget, Charged(budget)}
    /\ UNCHANGED <<history, clock, timer, main, after, flags, block>>
\* A reply is charged, then a late or a cancelled one is the child's last; else it
\* reports, uses a tool and goes on, or replays.
ChildLand(c) ==
    /\ child[c] = "calling"
    /\ budget' = Charged(budget)
    /\ \E to \in {"done"} \cup (IF Remaining <= 0 \/ cancelled THEN {} ELSE {"turn", "act"}) :
          Moved(c, to)
    /\ UNCHANGED <<history, clock, timer, main, after, flags, block>>
ChildFail(c) ==
    /\ child[c] = "calling"
    /\ \E to \in {"done"} \cup (IF Remaining <= ChildReserve \/ cancelled THEN {} ELSE {"turn"}) :
          Moved(c, to)
    /\ UNCHANGED <<history, clock, timer, budget, main, after, flags, block>>
ChildReplay(c) ==
    /\ child[c] = "act"
    /\ IF ~ cancelled /\ Remaining > ChildReserve
       THEN Moved(c, "replay") /\ timer' = Paused(timer)
       ELSE Moved(c, "turn") /\ UNCHANGED timer
    /\ UNCHANGED <<history, clock, budget, main, after, flags, block>>
ChildReplayEnds(c) ==
    /\ child[c] = "replay"
    /\ Moved(c, "turn")
    /\ timer' = Resumed(timer)
    /\ UNCHANGED <<history, clock, budget, main, after, flags, block>>

SubAgent(c) ==
    /\ main # "down"
    /\ \/ ChildTurn(c) \/ ChildAsk(c) \/ ChildCompact(c) \/ ChildCompacted(c)
       \/ ChildLand(c) \/ ChildFail(c) \/ ChildReplay(c) \/ ChildReplayEnds(c)

Next == Start \/ End \/ Tick \/ Conversation \/ \E c \in Children : SubAgent(c)

\* The main conversation goes on, time passes, replays end; a sub-agent's model call or
\* tool may hang.
Fairness ==
    /\ WF_vars(Conversation) /\ WF_vars(Tick)
    /\ \A c \in Children : WF_vars(main # "down" /\ ChildReplayEnds(c))
Spec == Init /\ [][Next]_vars /\ Fairness

---------------------------------------------------------------------------------
(* The active time is what no replay overlapped: pauses of the main conversation and of
   several sub-agents, begun and ended in any order, extend the deadline once for their
   union (time_budget.py:4-6), and never by a tick too many or too few. *)
ClockExact == Remaining = allowed - active

(* What sub-agents and compactions leave is enough for the main conversation's reserve,
   and the sub-agents stay within their cumulative cap, whichever thread claims next and
   whatever block an earlier attempt left ("compact/subagent cannot consume the
   parent-main reserve", research_session.py:181-184). *)
ReserveKept ==
    /\ budget.calls <= MaxCalls /\ budget.subagent <= SubagentCap
    /\ MaxCalls - budget.calls >= ParentReserve - budget.main

(* The spend passes its cap by no more than the calls that were in flight when it was
   reached (research_session.py:184-187): what was charged and what is in flight never
   come to more than a last claim below the cap for every thread at once. *)
SpendBounded == budget.spend + InFlight < MaxSpend + Cardinality(Children) + 1

(* A session ends, though a sub-agent it waits for hangs in a model call for ever: no
   wait outlasts the tail's beginning (runner.py:1425-1430), and the clock a sub-agent's
   replay holds still goes on when that ends. *)
SessionEnds == ~ Over ~> Over
=================================================================================
