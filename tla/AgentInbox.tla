------------------------------ MODULE AgentInbox ------------------------------
(* The agent inbox of one research session (pipelines/agent_inbox.py): what a person
   writes to a running session from the console (webui/manager.py), what its attempts
   read at their safe points (agent/runner.py), and what the session's end does with the
   rest (pipelines/experiment.py).

   The file is an append-only log of events under the control lock; `inbox` is what
   _load_state folds it to, and every step that writes appends one event to it, so a
   worker may be killed between any two.  Message m is the m-th queued. *)
EXTENDS Naturals, Sequences, FiniteSets

CONSTANTS MaxMessages,   \* bound: messages
          MaxPending,    \* INBOX_MAX_PENDING
          MaxRuns        \* bound: attempts

ASSUME InboxAssumption ==
    MaxMessages \in Nat \ {0} /\ MaxPending \in Nat \ {0} /\ MaxRuns \in Nat \ {0}

VARIABLES inbox,      \* the folded log
          posting,    \* the console is between its check and its append
          pc,         \* the worker's attempt
          run,        \* its run id, the last one started
          todo,       \* the messages the attempt has listed and not consumed
          said,       \* run -> the messages in its conversation, in order
          committed   \* run ids with a research_session row: run -> outcome

vars == <<inbox, posting, pc, run, todo, said, committed>>

Runs == 1..MaxRuns
NoRun == 0
Queued(s) == DOMAIN s.by
Pending(s) == {m \in Queued(s) : s.by[m] = NoRun /\ m \notin s.expired}
First(m, S) == m \in S /\ \A n \in S : m <= n   \* in the order they were queued

---------------------------------------------------------------------------------
(* _load_state, one event at a time. *)

AddQueued(s) == [s EXCEPT !.by = Append(@, NoRun)]
AddConsumed(s, m, r) == IF s.by[m] # NoRun THEN s ELSE [s EXCEPT !.by[m] = r]
AddReopened(s, m) == IF m \in s.expired THEN s ELSE [s EXCEPT !.by[m] = NoRun]
AddExpired(s, m) == [s EXCEPT !.expired = @ \cup {m}]
SetClosed(s, closed) == [s EXCEPT !.closed = closed]

Init ==
    /\ inbox = [by |-> << >>, expired |-> {}, closed |-> FALSE]
    /\ posting = FALSE
    /\ pc = "down" /\ run = NoRun /\ todo = {}
    /\ said = [r \in Runs |-> << >>]
    /\ committed = << >>

\* The worker holds the control lock through these stages.
Locked == pc \in {"reopen", "expire"}

---------------------------------------------------------------------------------
(* The console: a live worker is seen first, the message is appended later. *)

Post ==
    /\ ~ posting /\ pc # "down" /\ Len(inbox.by) < MaxMessages
    /\ posting' = TRUE
    /\ UNCHANGED <<inbox, pc, run, todo, said, committed>>

MutantAccepts(s) == Cardinality(Pending(s)) < MaxPending
Accepts(s) == ~ s.closed /\ Cardinality(Pending(s)) < MaxPending
Enqueue ==
    /\ posting /\ ~ Locked
    /\ posting' = FALSE
    /\ inbox' = IF Accepts(inbox) THEN AddQueued(inbox) ELSE inbox
    /\ UNCHANGED <<pc, run, todo, said, committed>>

Console == Post \/ Enqueue

---------------------------------------------------------------------------------
(* The worker's attempts. *)

Final == \E r \in DOMAIN committed : committed[r] = "completed"

\* An attempt starts while the session is not complete: a retry, a resume, or a budget
\* raised after a block.  Binding its inbox comes first.
Start ==
    /\ pc = "down" /\ run < MaxRuns /\ ~ Final
    /\ run' = run + 1
    /\ pc' = "reopen"
    /\ UNCHANGED <<inbox, posting, todo, said, committed>>

\* What a run that never landed had consumed is pending again.
MutantUncommitted(s) == {m \in Queued(s) \ s.expired : s.by[m] # NoRun}
Uncommitted(s) == {m \in Queued(s) \ s.expired : s.by[m] \notin {NoRun} \cup DOMAIN committed}
Reopen ==
    /\ pc = "reopen"
    /\ IF Uncommitted(inbox) # {}
       THEN /\ \E m \in Queued(inbox) :
                  First(m, Uncommitted(inbox)) /\ inbox' = AddReopened(inbox, m)
            /\ UNCHANGED pc
       ELSE pc' = "open" /\ UNCHANGED inbox
    /\ UNCHANGED <<posting, run, todo, said, committed>>

Open ==
    /\ pc = "open"
    /\ inbox' = SetClosed(inbox, FALSE)
    /\ pc' = "apply"
    /\ UNCHANGED <<posting, run, todo, said, committed>>

\* A safe point lists what is pending; each message is said, then consumed.
MutantDue(s) == IF said[run] = << >> THEN Pending(s) ELSE {}
Due(s) == Pending(s)
List ==
    /\ pc = "apply"
    /\ todo' = Due(inbox)
    /\ pc' = IF todo' = {} THEN "call" ELSE "say"
    /\ UNCHANGED <<inbox, posting, run, said, committed>>

Say ==
    /\ pc = "say"
    /\ \E m \in todo : First(m, todo) /\ said' = [said EXCEPT ![run] = Append(@, m)]
    /\ pc' = "consume"
    /\ UNCHANGED <<inbox, posting, run, todo, committed>>

Consume ==
    /\ pc = "consume"
    /\ \E m \in todo :
          /\ First(m, todo)
          /\ inbox' = AddConsumed(inbox, m, run)
          /\ todo' = todo \ {m}
    /\ pc' = IF todo' = {} THEN "call" ELSE "say"
    /\ UNCHANGED <<posting, run, said, committed>>

\* One model call and its tools: the conversation goes on, or the session has its end.
Call ==
    /\ pc = "call"
    /\ pc' \in {"apply", "commit"}
    /\ UNCHANGED <<inbox, posting, run, todo, said, committed>>

\* The research_session row: completed, or blocked and open to another attempt.
Commit ==
    /\ pc = "commit"
    /\ \E outcome \in {"completed", "blocked"} :
          committed' = [r \in DOMAIN committed \cup {run} |->
                           IF r = run THEN outcome ELSE committed[r]]
    /\ pc' = "expire"
    /\ UNCHANGED <<inbox, posting, run, todo, said>>

\* Everything this run did not consume itself expires; then the session is closed.
Leftover(s) == {m \in Queued(s) \ s.expired : s.by[m] # run}
Expire ==
    /\ pc = "expire"
    /\ IF Leftover(inbox) # {}
       THEN /\ \E m \in Queued(inbox) :
                  First(m, Leftover(inbox)) /\ inbox' = AddExpired(inbox, m)
            /\ UNCHANGED pc
       ELSE inbox' = SetClosed(inbox, TRUE) /\ pc' = "down"
    /\ UNCHANGED <<posting, run, todo, said, committed>>

\* The attempt raises, is terminated or killed; what it had listed is gone.
End ==
    /\ pc # "down"
    /\ pc' = "down"
    /\ todo' = {}
    /\ UNCHANGED <<inbox, posting, run, said, committed>>

Worker == Reopen \/ Open \/ List \/ Say \/ Consume \/ Call \/ Commit \/ Expire

Next == Console \/ Start \/ Worker \/ End

\* A live worker keeps going; a request that reached the console is finished.
Fairness == WF_vars(Worker) /\ WF_vars(Enqueue)
Spec == Init /\ [][Next]_vars /\ Fairness

---------------------------------------------------------------------------------
(* A message is in the conversation of at most one run that landed, and the inbox names
   that run as its reader: an attempt that dies takes nothing with it and one that lands
   is never repeated (agent_inbox.py:233-268, 316-349), whatever the worker's deaths
   between the conversation, the log and the ledger.  Within a run messages come once
   and in the order they were queued. *)
DeliveredOnce ==
    /\ \A r \in DOMAIN committed : \A i \in DOMAIN said[r] : inbox.by[said[r][i]] = r
    /\ \A r \in Runs : \A i, j \in DOMAIN said[r] : i < j => said[r][i] < said[r][j]
    /\ \A m \in Queued(inbox) : inbox.by[m] # NoRun =>
          \E i \in DOMAIN said[inbox.by[m]] : said[inbox.by[m]][i] = m

(* A closed session keeps no message waiting (agent_inbox.py:172-215): one that the
   console accepted while the worker lived is refused once the session has closed, and
   nothing the session's runs had read comes back. *)
ClosedIsEmpty == inbox.closed => Pending(inbox) = {}

(* A message in the inbox of a live attempt does not wait for ever: the attempt reads it
   at its next safe point or expires it, or ends (runner.py:1102-1129). *)
Heard ==
    \A m \in 1..MaxMessages :
        m \in Pending(inbox) /\ pc # "down" ~> m \notin Pending(inbox) \/ pc = "down"
=================================================================================
