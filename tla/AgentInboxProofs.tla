---------------------------- MODULE AgentInboxProofs ----------------------------
(***************************************************************************)
(* Two theorems about the inbox, for every number of messages, attempts    *)
(* and pending messages: a closed session keeps no message waiting, and a  *)
(* message is in the conversation of at most one run that landed.          *)
(***************************************************************************)
EXTENDS AgentInbox, SequenceTheorems, TLAPS

Stages == {"down", "reopen", "open", "apply", "say", "consume", "call", "commit", "expire"}

InboxType ==
    /\ inbox \in [by : Seq(0 .. MaxRuns), expired : SUBSET Nat, closed : BOOLEAN]
    /\ pc \in Stages
    /\ run \in 0 .. MaxRuns
    /\ pc # "down" => run # NoRun

\* A worker that finds the session closed has not opened it yet.
ClosedIsNotWorkedOn == inbox.closed => pc \in {"down", "reopen", "open"}

\* The rest of the inbox expires behind the row of the run that ends the session.
RowBeforeExpiry == pc = "expire" => run \in DOMAIN committed

\* What a closed session leaves unexpired was read by runs that landed: the next
\* attempt finds nothing to reopen.
ClosedIsRead ==
    inbox.closed => \A m \in Queued(inbox) \ inbox.expired :
                       inbox.by[m] # NoRun /\ inbox.by[m] \in DOMAIN committed

InboxInv == InboxType /\ ClosedIsNotWorkedOn /\ RowBeforeExpiry /\ ClosedIsRead

-----------------------------------------------------------------------------
\* The session's closing, seen from its worker: the last message has been read by this
\* run or has expired.
LEMMA NothingLeft ==
    ASSUME InboxInv, pc = "expire", Leftover(inbox) = {}
    PROVE  \A m \in Queued(inbox) \ inbox.expired :
              inbox.by[m] # NoRun /\ inbox.by[m] \in DOMAIN committed
<1> SUFFICES ASSUME NEW m \in Queued(inbox) \ inbox.expired
             PROVE  inbox.by[m] # NoRun /\ inbox.by[m] \in DOMAIN committed
  OBVIOUS
<1>1. inbox.by[m] = run
  BY DEF Leftover
<1>2. run # NoRun /\ run \in DOMAIN committed
  BY DEF InboxInv, InboxType, RowBeforeExpiry
<1> QED BY <1>1, <1>2

\* A closed session has nothing to reopen.
LEMMA NothingToReopen == InboxInv /\ inbox.closed => Uncommitted(inbox) = {}
BY DEF InboxInv, ClosedIsRead, Uncommitted

\* The queue's events keep the log's shape.
LEMMA EventsKeepType ==
    ASSUME InboxInv
    PROVE  LET Shape == [by : Seq(0 .. MaxRuns), expired : SUBSET Nat, closed : BOOLEAN] IN
           /\ AddQueued(inbox) \in Shape
           /\ \A m : AddConsumed(inbox, m, run) \in Shape
           /\ \A m \in Nat : AddReopened(inbox, m) \in Shape
           /\ \A m \in Nat : AddExpired(inbox, m) \in Shape
           /\ \A closed \in BOOLEAN : SetClosed(inbox, closed) \in Shape
<1> DEFINE Shape == [by : Seq(0 .. MaxRuns), expired : SUBSET Nat, closed : BOOLEAN]
<1>0. MaxRuns \in Nat
  BY InboxAssumption
<1>1. inbox \in Shape /\ run \in 0 .. MaxRuns
  BY DEF InboxInv, InboxType
<1>2. NoRun \in 0 .. MaxRuns
  BY <1>0 DEF NoRun
<1>3. AddQueued(inbox) \in Shape
  <2> DEFINE queue == Append(inbox.by, NoRun)
  <2>1. queue \in Seq(0 .. MaxRuns)
    BY <1>1, <1>2
  <2>2. AddQueued(inbox) = [inbox EXCEPT !.by = queue]
    BY <1>1 DEF AddQueued
  <2> HIDE DEF queue
  <2> QED BY <1>1, <2>1, <2>2
<1>4. \A m, r : r \in 0 .. MaxRuns => [inbox.by EXCEPT ![m] = r] \in Seq(0 .. MaxRuns)
  <2> SUFFICES ASSUME NEW m, NEW r \in 0 .. MaxRuns
               PROVE  [inbox.by EXCEPT ![m] = r] \in Seq(0 .. MaxRuns)
    OBVIOUS
  <2>0. inbox.by \in Seq(0 .. MaxRuns)
    BY <1>1
  <2> DEFINE n == Len(inbox.by)
  <2>1. n \in Nat /\ inbox.by \in [1 .. n -> 0 .. MaxRuns]
    BY <2>0, LenProperties
  <2> HIDE DEF n
  <2>2. [inbox.by EXCEPT ![m] = r] \in [1 .. n -> 0 .. MaxRuns]
    BY <2>1
  <2> DEFINE new == [inbox.by EXCEPT ![m] = r]
  <2> HIDE DEF new
  <2>3. \A q : q \in [1 .. n -> 0 .. MaxRuns] => q \in Seq(0 .. MaxRuns)
    BY <2>1, SeqDef, Zenon
  <2>4. new \in Seq(0 .. MaxRuns)
    BY <2>2, <2>3, Zenon DEF new
  <2> QED BY <2>4 DEF new
<1>5. \A m : AddConsumed(inbox, m, run) \in Shape
  BY <1>1, <1>4 DEF AddConsumed
<1>6. \A m \in Nat : AddReopened(inbox, m) \in Shape
  BY <1>1, <1>2, <1>4 DEF AddReopened
<1>7. \A m \in Nat : AddExpired(inbox, m) \in Shape
  BY <1>1 DEF AddExpired
<1>8. \A closed \in BOOLEAN : SetClosed(inbox, closed) \in Shape
  BY <1>1 DEF SetClosed
<1> QED BY <1>3, <1>5, <1>6, <1>7, <1>8

\* Every action preserves the strengthening.
LEMMA InboxStep == InboxInv /\ [Next]_vars => InboxInv'
<1> SUFFICES ASSUME InboxInv, [Next]_vars PROVE InboxInv'
  OBVIOUS
<1> USE InboxAssumption
<1>0. /\ inbox.closed \in BOOLEAN /\ inbox.by \in Seq(0 .. MaxRuns)
      /\ run \in 0 .. MaxRuns
  BY DEF InboxInv, InboxType
<1>1. CASE Post
  BY <1>1 DEF Post, InboxInv, InboxType, ClosedIsNotWorkedOn, RowBeforeExpiry, ClosedIsRead, Queued
<1>2. CASE Enqueue
  <2>1. inbox'.closed = inbox.closed /\ inbox' \in {inbox, AddQueued(inbox)}
    BY <1>2 DEF Enqueue, AddQueued, InboxInv, InboxType
  <2>2. inbox.closed => inbox' = inbox
    BY <1>2 DEF Enqueue, Accepts
  <2>3. InboxType'
    BY <1>2, <2>1, EventsKeepType DEF Enqueue, InboxInv, InboxType
  <2> QED BY <1>2, <2>1, <2>2, <2>3
          DEF Enqueue, InboxInv, ClosedIsNotWorkedOn, RowBeforeExpiry, ClosedIsRead, Queued
<1>3. CASE Start
  <2>1. run' # NoRun /\ run' \in 0 .. MaxRuns
    BY <1>0, <1>3 DEF Start, NoRun
  <2> QED BY <1>3, <2>1
          DEF Start, InboxInv, InboxType, Stages, ClosedIsNotWorkedOn, RowBeforeExpiry, ClosedIsRead, Queued
<1>4. CASE Reopen
  <2>1. CASE Uncommitted(inbox) = {}
    BY <1>4, <2>1
    DEF Reopen, InboxInv, InboxType, Stages, ClosedIsNotWorkedOn, RowBeforeExpiry, ClosedIsRead, Queued
  <2>2. CASE Uncommitted(inbox) # {}
    <3>1. ~ inbox.closed
      BY <2>2, <1>0, NothingToReopen
    <3>2. PICK m \in Queued(inbox) : inbox' = AddReopened(inbox, m)
      BY <1>4, <2>2 DEF Reopen
    <3>3. m \in Nat
      BY <1>0, <3>2 DEF Queued
    <3>4. InboxType'
      BY <1>4, <2>2, <3>2, <3>3, EventsKeepType DEF Reopen, InboxInv, InboxType
    <3>5. inbox'.closed = inbox.closed
      BY <3>2 DEF AddReopened, InboxInv, InboxType
    <3> QED BY <1>4, <2>2, <3>1, <3>4, <3>5
            DEF Reopen, InboxInv, ClosedIsNotWorkedOn, RowBeforeExpiry, ClosedIsRead
  <2> QED BY <2>1, <2>2
<1>5. CASE Open
  <2>1. inbox'.closed = FALSE
    BY <1>5 DEF Open, SetClosed, InboxInv, InboxType
  <2>2. InboxType'
    BY <1>5, EventsKeepType DEF Open, InboxInv, InboxType, Stages
  <2> QED BY <1>5, <2>1, <2>2 DEF Open, InboxInv, ClosedIsNotWorkedOn, RowBeforeExpiry, ClosedIsRead
<1>6. CASE List \/ Say \/ Call
  <2>1. ~ inbox.closed /\ inbox' = inbox /\ run' = run /\ committed' = committed
    BY <1>6 DEF List, Say, Call, InboxInv, ClosedIsNotWorkedOn
  <2>2. pc \in Stages \ {"down"} /\ pc' \in Stages \ {"expire", "down"}
    BY <1>6 DEF List, Say, Call, Stages
  <2> QED BY <2>1, <2>2 DEF InboxInv, InboxType, ClosedIsNotWorkedOn, RowBeforeExpiry, ClosedIsRead
<1>7. CASE Consume
  <2>1. ~ inbox.closed
    BY <1>7 DEF Consume, InboxInv, ClosedIsNotWorkedOn
  <2>2. InboxType' /\ pc' \in {"say", "call"}
    BY <1>7, EventsKeepType DEF Consume, InboxInv, InboxType, Stages
  <2>3. inbox'.closed = inbox.closed
    BY <1>7 DEF Consume, AddConsumed, InboxInv, InboxType
  <2> QED BY <2>1, <2>2, <2>3 DEF InboxInv, ClosedIsNotWorkedOn, RowBeforeExpiry, ClosedIsRead
<1>8. CASE Commit
  <2>1. ~ inbox.closed /\ inbox' = inbox /\ run' = run /\ pc' = "expire" /\ pc # "down"
    BY <1>8 DEF Commit, InboxInv, ClosedIsNotWorkedOn
  <2>2. run \in DOMAIN committed'
    BY <1>8 DEF Commit
  <2> QED BY <2>1, <2>2
          DEF InboxInv, InboxType, Stages, ClosedIsNotWorkedOn, RowBeforeExpiry, ClosedIsRead
<1>9. CASE Expire
  <2>1. ~ inbox.closed /\ pc = "expire"
    BY <1>9 DEF Expire, InboxInv, ClosedIsNotWorkedOn
  <2>2. CASE Leftover(inbox) # {}
    <3>1. PICK m \in Queued(inbox) : inbox' = AddExpired(inbox, m)
      BY <1>9, <2>2 DEF Expire
    <3>2. m \in Nat
      BY <1>0, <3>1 DEF Queued
    <3>3. InboxType'
      BY <1>9, <2>2, <3>1, <3>2, EventsKeepType DEF Expire, InboxInv, InboxType
    <3>4. inbox'.closed = inbox.closed
      BY <3>1 DEF AddExpired, InboxInv, InboxType
    <3> QED BY <1>9, <2>1, <2>2, <3>3, <3>4
            DEF Expire, InboxInv, ClosedIsNotWorkedOn, RowBeforeExpiry, ClosedIsRead
  <2>3. CASE Leftover(inbox) = {}
    <3>1. /\ inbox' = SetClosed(inbox, TRUE) /\ pc' = "down"
          /\ run' = run /\ committed' = committed
      BY <1>9, <2>3 DEF Expire
    <3>2. InboxType'
      BY <3>1, EventsKeepType DEF InboxInv, InboxType, Stages
    <3>3. inbox'.by = inbox.by /\ inbox'.expired = inbox.expired
      BY <3>1 DEF SetClosed, InboxInv, InboxType
    <3>4. ClosedIsRead'
      BY <2>1, <2>3, <3>1, <3>3, NothingLeft DEF ClosedIsRead, Queued
    <3> QED BY <3>1, <3>2, <3>4 DEF InboxInv, ClosedIsNotWorkedOn, RowBeforeExpiry
  <2> QED BY <2>2, <2>3
<1>10. CASE End
  BY <1>10
  DEF End, InboxInv, InboxType, Stages, ClosedIsNotWorkedOn, RowBeforeExpiry, ClosedIsRead, Queued
<1>11. CASE UNCHANGED vars
  BY <1>11
  DEF vars, InboxInv, InboxType, ClosedIsNotWorkedOn, RowBeforeExpiry, ClosedIsRead, Queued
<1> QED
  BY <1>1, <1>2, <1>3, <1>4, <1>5, <1>6, <1>7, <1>8, <1>9, <1>10, <1>11
  DEF Next, Console, Worker

\* The strengthening is an invariant: types, who holds a closed session, and what it left.
THEOREM InboxInductive == Spec => []InboxInv
<1>1. Init => InboxInv
  BY InboxAssumption
  DEF Init, InboxInv, InboxType, Stages, ClosedIsNotWorkedOn, RowBeforeExpiry, ClosedIsRead, Queued, NoRun
<1> QED BY <1>1, InboxStep, PTL DEF Spec

(* A closed session keeps no message waiting (agent_inbox.py:172-215): whatever the
   console appends late, a closed inbox refuses; whatever an attempt had read when it
   died is reopened before the inbox opens again, so it never is while it is closed. *)
THEOREM ClosedSessionIsEmpty == Spec => []ClosedIsEmpty
<1>1. InboxInv => ClosedIsEmpty
  BY DEF InboxInv, ClosedIsRead, ClosedIsEmpty, Pending
<1> QED BY <1>1, InboxInductive, PTL
-----------------------------------------------------------------------------
(* Who said what. *)

Working == pc \in {"apply", "say", "consume", "call", "commit"}

SaidType ==
    /\ said \in [Runs -> Seq(Nat)]
    /\ DOMAIN committed \subseteq 1 .. run
    /\ \A r \in Runs : \A i \in DOMAIN said[r] : said[r][i] \in Queued(inbox)

\* A run begins with an empty conversation and without a row.
RunsBeginEmpty ==
    /\ \A r \in Runs : r > run => said[r] = << >>
    /\ pc \in {"reopen", "open"} => said[run] = << >> /\ run \notin DOMAIN committed

\* Whatever landed in a committed conversation is still marked as that run's.
LandedIsRead ==
    \A r \in DOMAIN committed : \A i \in DOMAIN said[r] : inbox.by[said[r][i]] = r

\* The attempt at work has read what it said, but for the message it is about to mark.
Marking(m) == pc = "consume" /\ First(m, todo)
SaidIsRead ==
    Working => /\ run \notin DOMAIN committed
               /\ \A i \in DOMAIN said[run] :
                     inbox.by[said[run][i]] = run \/ Marking(said[run][i])
               /\ pc = "consume" => \E i \in DOMAIN said[run] : First(said[run][i], todo)

\* What a safe point has listed and not consumed is pending, and what has come since is
\* behind it.
ListedIsPending ==
    pc \in {"say", "consume"} =>
        /\ todo \subseteq Pending(inbox)
        /\ \A p \in Pending(inbox) : p \in todo \/ \A t \in todo : t < p

\* What is pending was queued after all that the attempt has said.
PendingIsLater ==
    Working => \A p \in Pending(inbox) : \A i \in DOMAIN said[run] :
                  said[run][i] < p \/ (Marking(said[run][i]) /\ said[run][i] <= p)

InOrder == \A r \in Runs : \A i, j \in DOMAIN said[r] : i < j => said[r][i] < said[r][j]

ReadIsSaid ==
    \A m \in Queued(inbox) : inbox.by[m] # NoRun =>
        \E i \in DOMAIN said[inbox.by[m]] : said[inbox.by[m]][i] = m

DeliveryInv ==
    /\ SaidType /\ RunsBeginEmpty /\ LandedIsRead /\ SaidIsRead /\ ListedIsPending
    /\ PendingIsLater /\ InOrder /\ ReadIsSaid
-----------------------------------------------------------------------------
\* The events the worker appends, field by field.
LEMMA EventFields ==
    ASSUME InboxInv
    PROVE  /\ \A m \in Queued(inbox) :
                 /\ DOMAIN AddConsumed(inbox, m, run).by = Queued(inbox)
                 /\ AddConsumed(inbox, m, run).expired = inbox.expired
                 /\ \A n \in Queued(inbox) :
                       AddConsumed(inbox, m, run).by[n] =
                           IF n = m /\ inbox.by[m] = NoRun THEN run ELSE inbox.by[n]
           /\ \A m \in Queued(inbox) :
                 /\ DOMAIN AddReopened(inbox, m).by = Queued(inbox)
                 /\ \A n \in Queued(inbox) :
                       AddReopened(inbox, m).by[n] \in {inbox.by[n], NoRun}
                 /\ \A n \in Queued(inbox) \ {m} :
                       AddReopened(inbox, m).by[n] = inbox.by[n]
           /\ \A m : AddExpired(inbox, m).by = inbox.by
           /\ \A c : SetClosed(inbox, c).by = inbox.by /\ SetClosed(inbox, c).expired = inbox.expired
<1>1. inbox \in [by : Seq(0 .. MaxRuns), expired : SUBSET Nat, closed : BOOLEAN]
  BY DEF InboxInv, InboxType
<1> QED BY <1>1 DEF AddConsumed, AddReopened, AddExpired, SetClosed, Queued

\* A message the console appends comes last, unread.
LEMMA QueuedLast ==
    ASSUME InboxInv
    PROVE  LET n == Len(inbox.by) IN
           /\ n \in Nat /\ Queued(inbox) = 1 .. n
           /\ Queued(AddQueued(inbox)) = 1 .. (n + 1)
           /\ AddQueued(inbox).expired = inbox.expired
           /\ \A m \in 1 .. n : AddQueued(inbox).by[m] = inbox.by[m]
           /\ AddQueued(inbox).by[n + 1] = NoRun
<1>1. inbox \in [by : Seq(0 .. MaxRuns), expired : SUBSET Nat, closed : BOOLEAN]
  BY DEF InboxInv, InboxType
<1>2. inbox.by \in Seq(0 .. MaxRuns) /\ NoRun \in 0 .. MaxRuns
  BY <1>1, InboxAssumption DEF NoRun
<1>3. AddQueued(inbox).by = Append(inbox.by, NoRun) /\ AddQueued(inbox).expired = inbox.expired
  BY <1>1 DEF AddQueued
<1> QED BY <1>2, <1>3, AppendProperties, LenProperties DEF Queued

\* The runs that landed, and the one at work, are runs.
LEMMA RunsKnown ==
    InboxInv /\ DeliveryInv => DOMAIN committed \subseteq Runs /\ (pc # "down" => run \in Runs)
<1> SUFFICES ASSUME InboxInv, DeliveryInv
             PROVE  DOMAIN committed \subseteq Runs /\ (pc # "down" => run \in Runs)
  OBVIOUS
<1>1. MaxRuns \in Nat /\ run \in 0 .. MaxRuns /\ (pc # "down" => run # 0)
  BY InboxAssumption DEF InboxInv, InboxType, NoRun
<1>2. DOMAIN committed \subseteq 1 .. run
  BY DEF DeliveryInv, SaidType
<1> QED BY <1>1, <1>2 DEF Runs

\* What was appended is behind all that has been said or listed.
LEMMA EnqueueDelivers == InboxInv /\ DeliveryInv /\ Enqueue => DeliveryInv'
<1> SUFFICES ASSUME InboxInv, DeliveryInv, Enqueue PROVE DeliveryInv'
  OBVIOUS
<1>0. /\ pc' = pc /\ run' = run /\ todo' = todo /\ said' = said /\ committed' = committed
      /\ inbox' \in {inbox, AddQueued(inbox)}
  BY DEF Enqueue
<1>1. CASE inbox' = inbox
  BY <1>0, <1>1
  DEF DeliveryInv, SaidType, RunsBeginEmpty, LandedIsRead, SaidIsRead, ListedIsPending,
      PendingIsLater, InOrder, ReadIsSaid, Working, Marking, Queued, Pending, First
<1>2. CASE inbox' = AddQueued(inbox)
  <2> DEFINE n == Len(inbox.by)
  <2>1. /\ n \in Nat /\ Queued(inbox) = 1 .. n /\ Queued(inbox') = 1 .. (n + 1)
        /\ \A m \in 1 .. n : inbox'.by[m] = inbox.by[m]
        /\ inbox'.by[n + 1] = NoRun /\ inbox'.expired = inbox.expired
    BY <1>2, QueuedLast
  <2> HIDE DEF n
  <2>2. Pending(inbox) \subseteq Pending(inbox') /\ Pending(inbox') \subseteq Pending(inbox) \cup {n + 1}
    BY <2>1 DEF Pending
  <2>3. \A m \in Queued(inbox) : m \in Queued(inbox') /\ m < n + 1 /\ inbox'.by[m] = inbox.by[m]
    BY <2>1
  <2>4. Pending(inbox) \subseteq Queued(inbox)
    BY DEF Pending
  <2>5. SaidType' /\ RunsBeginEmpty' /\ InOrder'
    BY <1>0, <2>3 DEF DeliveryInv, SaidType, RunsBeginEmpty, InOrder
  <2>6. LandedIsRead'
    BY <1>0, <2>3, RunsKnown DEF DeliveryInv, SaidType, LandedIsRead
  <2>7. Working => run \in Runs
    BY RunsKnown DEF Working
  <2>8. SaidIsRead'
    BY <1>0, <2>3, <2>7 DEF DeliveryInv, SaidType, SaidIsRead, Working, Marking, First
  <2>9. ListedIsPending'
    BY <1>0, <2>2, <2>3, <2>4 DEF DeliveryInv, ListedIsPending
  <2>10. PendingIsLater'
    BY <1>0, <2>2, <2>3, <2>7 DEF DeliveryInv, SaidType, PendingIsLater, Working, Marking, First
  <2>11. ReadIsSaid'
    BY <1>0, <2>1, <2>3 DEF DeliveryInv, ReadIsSaid
  <2> QED BY <2>5, <2>6, <2>8, <2>9, <2>10, <2>11 DEF DeliveryInv
<1> QED BY <1>0, <1>1, <1>2

\* A message that is read was read by a run.
LEMMA ReaderIsRun ==
    InboxInv => \A m \in Queued(inbox) : inbox.by[m] # NoRun => inbox.by[m] \in Runs
<1> SUFFICES ASSUME InboxInv, NEW m \in Queued(inbox), inbox.by[m] # NoRun
             PROVE  inbox.by[m] \in Runs
  OBVIOUS
<1>1. inbox.by \in Seq(0 .. MaxRuns)
  BY DEF InboxInv, InboxType
<1>2. inbox.by[m] \in 0 .. MaxRuns
  BY <1>1, LenProperties, ElementOfSeq DEF Queued
<1> QED BY <1>2, InboxAssumption DEF Runs, NoRun

\* A message is said behind all that was said before it.
LEMMA SayDelivers == InboxInv /\ DeliveryInv /\ Say => DeliveryInv'
<1> SUFFICES ASSUME InboxInv, DeliveryInv, Say PROVE DeliveryInv'
  OBVIOUS
<1>0. /\ inbox' = inbox /\ run' = run /\ todo' = todo /\ committed' = committed
      /\ pc = "say" /\ pc' = "consume" /\ run \in Runs /\ Working
  BY RunsKnown DEF Say, Working
<1>1. PICK m \in todo : First(m, todo) /\ said' = [said EXCEPT ![run] = Append(@, m)]
  BY DEF Say
<1>2. /\ m \in Pending(inbox) /\ m \in Queued(inbox) /\ m \in Nat /\ Pending(inbox) \subseteq Nat
      /\ \A p \in Pending(inbox) : m <= p
  <2>1. m \in Pending(inbox) /\ todo \subseteq Pending(inbox)
    BY <1>0, <1>1 DEF DeliveryInv, ListedIsPending
  <2>2. Queued(inbox) \subseteq Nat /\ Pending(inbox) \subseteq Queued(inbox)
    BY QueuedLast DEF Pending
  <2>3. ASSUME NEW p \in Pending(inbox) PROVE m <= p
    <3>1. p \in todo \/ m < p
      BY <1>0, <1>1 DEF DeliveryInv, ListedIsPending
    <3> QED BY <1>1, <2>1, <2>2, <3>1 DEF First
  <2> QED BY <2>1, <2>2, <2>3
<1> DEFINE n == Len(said[run])
<1>3. /\ said \in [Runs -> Seq(Nat)] /\ said[run] \in Seq(Nat)
      /\ n \in Nat /\ DOMAIN said[run] = 1 .. n
  BY <1>0 DEF DeliveryInv, SaidType
<1>4. /\ said' \in [Runs -> Seq(Nat)]
      /\ \A r \in Runs \ {run} : said'[r] = said[r]
      /\ DOMAIN said'[run] = 1 .. (n + 1)
      /\ \A i \in 1 .. n : said'[run][i] = said[run][i]
      /\ said'[run][n + 1] = m
  <2>1. said'[run] = Append(said[run], m)
    BY <1>0, <1>1, <1>3
  <2> QED BY <1>0, <1>1, <1>2, <1>3, <2>1
<1> HIDE DEF n
<1>5. \A i \in 1 .. n : said[run][i] < m /\ said[run][i] \in Nat
  <2>1. \A i \in 1 .. n : said[run][i] < m
    BY <1>0, <1>2, <1>3 DEF DeliveryInv, PendingIsLater, Marking
  <2> QED BY <1>3, <2>1
<1>6. SaidType'
  <2>1. \A r \in Runs : \A i \in DOMAIN said[r] : said[r][i] \in Queued(inbox)
    BY DEF DeliveryInv, SaidType
  <2>2. \A i \in 1 .. (n + 1) : said'[run][i] \in Queued(inbox)
    BY <1>0, <1>2, <1>3, <1>4, <2>1
  <2> QED BY <1>0, <1>4, <2>1, <2>2 DEF DeliveryInv, SaidType
<1>7. RunsBeginEmpty'
  <2>1. run \in Nat /\ Runs \subseteq Nat /\ Runs' = Runs
    BY <1>0, InboxAssumption DEF Runs
  <2>2. \A r \in Runs : r > run => said[r] = << >>
    BY DEF DeliveryInv, RunsBeginEmpty
  <2>3. ASSUME NEW r \in Runs, r > run PROVE said'[r] = << >>
    <3>1. r # run
      BY <2>1, <2>3
    <3> QED BY <1>4, <2>2, <2>3, <3>1
  <2>4. pc' \notin {"reopen", "open"} /\ run' = run
    BY <1>0
  <2> QED BY <2>1, <2>3, <2>4 DEF RunsBeginEmpty
<1>8. LandedIsRead'
  <2>1. run \notin DOMAIN committed /\ DOMAIN committed \subseteq Runs
    BY <1>0, RunsKnown DEF DeliveryInv, SaidIsRead
  <2> QED BY <1>0, <1>4, <2>1 DEF DeliveryInv, LandedIsRead
<1>9. SaidIsRead'
  <2>1. run \notin DOMAIN committed /\ \A i \in 1 .. n : inbox.by[said[run][i]] = run
    BY <1>0, <1>3 DEF DeliveryInv, SaidIsRead, Marking
  <2>2. \A i \in 1 .. (n + 1) : i \in 1 .. n \/ i = n + 1
    BY <1>3
  <2>3. First(m, todo)' /\ n + 1 \in 1 .. (n + 1)
    BY <1>0, <1>1, <1>3 DEF First
  <2> QED BY <1>0, <1>4, <2>1, <2>2, <2>3 DEF SaidIsRead, Working, Marking
<1>10. ListedIsPending'
  BY <1>0 DEF DeliveryInv, ListedIsPending
<1>11. PendingIsLater'
  BY <1>0, <1>1, <1>2, <1>3, <1>4 DEF DeliveryInv, PendingIsLater, Working, Marking
<1>12. InOrder'
  <2>1. ASSUME NEW i \in DOMAIN said'[run], NEW j \in DOMAIN said'[run], i < j
        PROVE  said'[run][i] < said'[run][j]
    <3>1. i \in 1 .. n
      BY <1>3, <1>4, <2>1
    <3>2. CASE j = n + 1
      BY <1>4, <1>5, <3>1, <3>2
    <3>3. CASE j \in 1 .. n
      BY <1>0, <1>3, <1>4, <2>1, <3>1, <3>3 DEF DeliveryInv, InOrder
    <3> QED BY <1>3, <1>4, <3>2, <3>3
  <2> QED BY <1>4, <2>1 DEF DeliveryInv, InOrder
<1>13. ReadIsSaid'
  <2> SUFFICES ASSUME NEW k \in Queued(inbox), inbox.by[k] # NoRun
               PROVE  \E i \in DOMAIN said'[inbox.by[k]] : said'[inbox.by[k]][i] = k
    BY <1>0 DEF ReadIsSaid
  <2>1. PICK i \in DOMAIN said[inbox.by[k]] : said[inbox.by[k]][i] = k
    BY DEF DeliveryInv, ReadIsSaid
  <2>2. inbox.by[k] \in Runs
    BY ReaderIsRun
  <2>3. CASE inbox.by[k] = run
    <3>1. i \in 1 .. (n + 1) /\ said'[run][i] = k
      BY <1>3, <1>4, <2>1, <2>3
    <3> QED BY <1>4, <2>3, <3>1
  <2>4. CASE inbox.by[k] # run
    BY <1>4, <2>1, <2>2, <2>4
  <2> QED BY <2>3, <2>4
<1> QED BY <1>6, <1>7, <1>8, <1>9, <1>10, <1>11, <1>12, <1>13 DEF DeliveryInv

\* A message is marked as read by the run that has just said it.
LEMMA ConsumeDelivers == InboxInv /\ DeliveryInv /\ Consume => DeliveryInv'
<1> SUFFICES ASSUME InboxInv, DeliveryInv, Consume PROVE DeliveryInv'
  OBVIOUS
<1>0. /\ said' = said /\ run' = run /\ committed' = committed
      /\ pc = "consume" /\ pc' \in {"say", "call"} /\ run \in Runs /\ Working /\ Working'
      /\ Runs \subseteq Nat /\ NoRun \notin Runs
  BY RunsKnown, InboxAssumption DEF Consume, Working, Runs, NoRun
<1>1. PICK m \in todo :
         First(m, todo) /\ inbox' = AddConsumed(inbox, m, run) /\ todo' = todo \ {m}
  BY DEF Consume
<1>2. /\ todo \subseteq Pending(inbox) /\ Pending(inbox) \subseteq Queued(inbox)
      /\ Queued(inbox) \subseteq Nat
      /\ m \in Queued(inbox) /\ inbox.by[m] = NoRun
  <2>1. todo \subseteq Pending(inbox)
    BY <1>0 DEF DeliveryInv, ListedIsPending
  <2>2. Queued(inbox) \subseteq Nat
    BY QueuedLast
  <2> QED BY <1>1, <2>1, <2>2 DEF Pending
<1>3. /\ Queued(inbox') = Queued(inbox) /\ inbox'.expired = inbox.expired
      /\ inbox'.by[m] = run
      /\ \A k \in Queued(inbox) \ {m} : inbox'.by[k] = inbox.by[k]
  BY <1>1, <1>2, EventFields DEF Queued
<1>4. Pending(inbox') = Pending(inbox) \ {m}
  BY <1>0, <1>2, <1>3 DEF Pending
<1>5. \A k : First(k, todo) => k = m
  BY <1>1, <1>2 DEF First
<1>6. SaidType' /\ RunsBeginEmpty' /\ InOrder'
  BY <1>0, <1>3 DEF DeliveryInv, SaidType, RunsBeginEmpty, InOrder
<1>7. LandedIsRead'
  <2> SUFFICES ASSUME NEW r \in DOMAIN committed, NEW i \in DOMAIN said[r]
               PROVE  inbox'.by[said[r][i]] = r
    BY <1>0 DEF LandedIsRead
  <2>1. r \in Runs
    BY RunsKnown
  <2>2. said[r][i] \in Queued(inbox) /\ inbox.by[said[r][i]] = r
    BY <2>1 DEF DeliveryInv, SaidType, LandedIsRead
  <2> QED BY <1>0, <1>2, <1>3, <2>1, <2>2
<1>8. SaidIsRead'
  <2>1. run \notin DOMAIN committed
    BY <1>0 DEF DeliveryInv, SaidIsRead
  <2>2. ASSUME NEW i \in DOMAIN said[run] PROVE inbox'.by[said[run][i]] = run
    <3>1. said[run][i] \in Queued(inbox)
      BY <1>0 DEF DeliveryInv, SaidType
    <3>2. inbox.by[said[run][i]] = run \/ said[run][i] = m
      BY <1>0, <1>5 DEF DeliveryInv, SaidIsRead, Marking
    <3> QED BY <1>3, <3>1, <3>2
  <2> QED BY <1>0, <2>1, <2>2 DEF SaidIsRead
<1>9. ListedIsPending'
  BY <1>0, <1>1, <1>2, <1>4 DEF DeliveryInv, ListedIsPending
<1>10. PendingIsLater'
  <2> SUFFICES ASSUME NEW p \in Pending(inbox) \ {m}, NEW i \in DOMAIN said[run]
               PROVE  said[run][i] < p
    BY <1>0, <1>4 DEF PendingIsLater
  <2>1. said[run][i] < p \/ (First(said[run][i], todo) /\ said[run][i] <= p)
    BY <1>0 DEF DeliveryInv, PendingIsLater, Marking
  <2>2. said[run][i] = m => said[run][i] # p
    OBVIOUS
  <2>3. said[run][i] \in Nat /\ p \in Nat
    BY <1>0, <1>2 DEF DeliveryInv, SaidType
  <2> QED BY <1>5, <2>1, <2>2, <2>3
<1>11. ReadIsSaid'
  <2> SUFFICES ASSUME NEW k \in Queued(inbox), inbox'.by[k] # NoRun
               PROVE  \E i \in DOMAIN said[inbox'.by[k]] : said[inbox'.by[k]][i] = k
    BY <1>0, <1>3 DEF ReadIsSaid
  <2>1. CASE k = m
    <3>1. \E i \in DOMAIN said[run] : said[run][i] = m
      BY <1>0, <1>5 DEF DeliveryInv, SaidIsRead
    <3> QED BY <1>3, <2>1, <3>1
  <2>2. CASE k # m
    BY <1>3, <2>2 DEF DeliveryInv, ReadIsSaid
  <2> QED BY <2>1, <2>2
<1> QED BY <1>6, <1>7, <1>8, <1>9, <1>10, <1>11 DEF DeliveryInv

\* What an attempt that died had read is nobody's again.
LEMMA ReopenDelivers == InboxInv /\ DeliveryInv /\ Reopen => DeliveryInv'
<1> SUFFICES ASSUME InboxInv, DeliveryInv, Reopen PROVE DeliveryInv'
  OBVIOUS
<1>0. /\ said' = said /\ run' = run /\ committed' = committed /\ todo' = todo
      /\ pc = "reopen" /\ pc' \in {"reopen", "open"} /\ ~ Working' /\ NoRun \notin Runs
  BY InboxAssumption DEF Reopen, Working, Runs, NoRun
<1>1. CASE inbox' = inbox
  BY <1>0, <1>1
  DEF DeliveryInv, SaidType, RunsBeginEmpty, LandedIsRead, SaidIsRead, ListedIsPending,
      PendingIsLater, InOrder, ReadIsSaid
<1>2. CASE \E m \in Queued(inbox) : m \in Uncommitted(inbox) /\ inbox' = AddReopened(inbox, m)
  <2>1. PICK m \in Queued(inbox) : m \in Uncommitted(inbox) /\ inbox' = AddReopened(inbox, m)
    BY <1>2
  <2>2. /\ Queued(inbox') = Queued(inbox)
        /\ \A k \in Queued(inbox) : inbox'.by[k] \in {inbox.by[k], NoRun}
        /\ \A k \in Queued(inbox) \ {m} : inbox'.by[k] = inbox.by[k]
    BY <2>1, EventFields DEF Queued
  <2>3. LandedIsRead'
    <3> SUFFICES ASSUME NEW r \in DOMAIN committed, NEW i \in DOMAIN said[r]
                 PROVE  inbox'.by[said[r][i]] = r
      BY <1>0 DEF LandedIsRead
    <3>1. r \in Runs
      BY RunsKnown
    <3>2. said[r][i] \in Queued(inbox) /\ inbox.by[said[r][i]] = r
      BY <3>1 DEF DeliveryInv, SaidType, LandedIsRead
    <3>3. said[r][i] # m
      BY <2>1, <3>2 DEF Uncommitted
    <3> QED BY <2>2, <3>2, <3>3
  <2>4. ReadIsSaid'
    BY <1>0, <2>2 DEF DeliveryInv, ReadIsSaid
  <2>5. SaidType' /\ RunsBeginEmpty' /\ InOrder'
    BY <1>0, <2>2 DEF DeliveryInv, SaidType, RunsBeginEmpty, InOrder
  <2> QED BY <1>0, <2>3, <2>4, <2>5 DEF DeliveryInv, SaidIsRead, ListedIsPending, PendingIsLater
<1> QED BY <1>1, <1>2 DEF Reopen, First

\* An attempt begins: a conversation nobody has spoken in.
LEMMA StartDelivers == InboxInv /\ DeliveryInv /\ Start => DeliveryInv'
<1> SUFFICES ASSUME InboxInv, DeliveryInv, Start PROVE DeliveryInv'
  OBVIOUS
<1>0. /\ inbox' = inbox /\ said' = said /\ todo' = todo /\ committed' = committed
      /\ run' = run + 1 /\ pc' = "reopen" /\ run \in Nat /\ run + 1 \in Runs /\ Runs \subseteq Nat
      /\ ~ Working'
  <2>1. run \in 0 .. MaxRuns /\ run < MaxRuns
    BY DEF Start, InboxInv, InboxType
  <2> QED BY <2>1, InboxAssumption DEF Start, Runs, Working
<1>1. SaidType' /\ InOrder' /\ LandedIsRead' /\ ReadIsSaid'
  <2>1. 1 .. run \subseteq 1 .. (run + 1)
    BY <1>0
  <2> QED BY <1>0, <2>1 DEF DeliveryInv, SaidType, InOrder, LandedIsRead, ReadIsSaid
<1>2. RunsBeginEmpty'
  <2>1. run + 1 \notin DOMAIN committed
    BY <1>0 DEF DeliveryInv, SaidType
  <2>2. \A r \in Runs : r > run => said[r] = << >>
    BY DEF DeliveryInv, RunsBeginEmpty
  <2> QED BY <1>0, <2>1, <2>2 DEF RunsBeginEmpty
<1> QED BY <1>0, <1>1, <1>2 DEF DeliveryInv, SaidIsRead, ListedIsPending, PendingIsLater

\* A session opened again has said nothing yet; a safe point lists all that is pending.
LEMMA ListDelivers == InboxInv /\ DeliveryInv /\ (Open \/ List) => DeliveryInv'
<1> SUFFICES ASSUME InboxInv, DeliveryInv, Open \/ List PROVE DeliveryInv'
  OBVIOUS
<1>0. said' = said /\ run' = run /\ committed' = committed /\ run \in Runs /\ Runs \subseteq Nat
  <2>1. said' = said /\ run' = run /\ committed' = committed /\ pc # "down"
    BY DEF Open, List
  <2>2. Runs \subseteq Nat
    BY InboxAssumption DEF Runs
  <2> QED BY <2>1, <2>2, RunsKnown
<1>1. inbox'.by = inbox.by /\ inbox'.expired = inbox.expired
  BY EventFields DEF Open, List
<1>2. SaidType' /\ LandedIsRead' /\ InOrder' /\ ReadIsSaid'
  BY <1>0, <1>1 DEF DeliveryInv, SaidType, LandedIsRead, InOrder, ReadIsSaid, Queued
<1>3. CASE Open
  <2>1. pc' = "apply" /\ said[run] = << >> /\ run \notin DOMAIN committed
    BY <1>3 DEF Open, DeliveryInv, RunsBeginEmpty
  <2> QED BY <1>0, <1>2, <2>1
          DEF DeliveryInv, RunsBeginEmpty, SaidIsRead, ListedIsPending, PendingIsLater
<1>4. CASE List
  <2>1. /\ pc = "apply" /\ pc' \in {"call", "say"} /\ Working /\ Working'
        /\ inbox' = inbox /\ todo' = Pending(inbox)
    BY <1>4 DEF List, Working, Due
  <2> QED BY <1>0, <1>2, <2>1
          DEF DeliveryInv, RunsBeginEmpty, SaidIsRead, ListedIsPending, PendingIsLater, Marking
<1> QED BY <1>3, <1>4

\* A run lands with all it has said marked as its own.
LEMMA CommitDelivers == InboxInv /\ DeliveryInv /\ (Call \/ Commit) => DeliveryInv'
<1> SUFFICES ASSUME InboxInv, DeliveryInv, Call \/ Commit PROVE DeliveryInv'
  OBVIOUS
<1>0. /\ inbox' = inbox /\ said' = said /\ run' = run /\ todo' = todo /\ Working
      /\ run \in Runs /\ run \in Nat
  BY RunsKnown, InboxAssumption DEF Call, Commit, Working, Runs
<1>1. CASE Call
  <2>1. pc = "call" /\ pc' \in {"apply", "commit"} /\ committed' = committed
    BY <1>1 DEF Call
  <2> QED BY <1>0, <2>1
          DEF DeliveryInv, SaidType, RunsBeginEmpty, LandedIsRead, SaidIsRead, ListedIsPending,
              PendingIsLater, InOrder, ReadIsSaid, Marking
<1>2. CASE Commit
  <2>1. pc = "commit" /\ pc' = "expire" /\ ~ Working' /\ DOMAIN committed' = DOMAIN committed \cup {run}
    BY <1>2 DEF Commit, Working
  <2>2. SaidType' /\ RunsBeginEmpty' /\ InOrder' /\ ReadIsSaid'
    <3>1. run \in 1 .. run
      BY <1>0, InboxAssumption DEF Runs
    <3> QED BY <1>0, <2>1, <3>1 DEF DeliveryInv, SaidType, RunsBeginEmpty, InOrder, ReadIsSaid
  <2>3. LandedIsRead'
    <3>1. \A i \in DOMAIN said[run] : inbox.by[said[run][i]] = run
      BY <1>0, <2>1 DEF DeliveryInv, SaidIsRead, Marking
    <3> QED BY <1>0, <2>1, <3>1 DEF DeliveryInv, LandedIsRead
  <2> QED BY <2>1, <2>2, <2>3 DEF DeliveryInv, SaidIsRead, ListedIsPending, PendingIsLater
<1> QED BY <1>1, <1>2

\* The session's end, and an attempt's, take nothing from what was said or read.
LEMMA EndDelivers == InboxInv /\ DeliveryInv /\ (Expire \/ End) => DeliveryInv'
<1> SUFFICES ASSUME InboxInv, DeliveryInv, Expire \/ End PROVE DeliveryInv'
  OBVIOUS
<1>0. /\ said' = said /\ run' = run /\ committed' = committed
      /\ inbox'.by = inbox.by /\ pc' \in {"expire", "down"} /\ ~ Working'
  <2>1. CASE End
    BY <2>1 DEF End, Working
  <2>2. CASE Expire
    BY <2>2, EventFields DEF Expire, Working
  <2> QED BY <2>1, <2>2
<1>1. SaidType' /\ RunsBeginEmpty' /\ LandedIsRead' /\ InOrder' /\ ReadIsSaid'
  BY <1>0
  DEF DeliveryInv, SaidType, RunsBeginEmpty, LandedIsRead, InOrder, ReadIsSaid, Queued
<1>2. SaidIsRead' /\ ListedIsPending' /\ PendingIsLater'
  BY <1>0 DEF SaidIsRead, ListedIsPending, PendingIsLater
<1> QED BY <1>1, <1>2 DEF DeliveryInv

\* Every action preserves the strengthening.
LEMMA DeliveryStep == InboxInv /\ DeliveryInv /\ [Next]_vars => DeliveryInv'
<1> SUFFICES ASSUME InboxInv, DeliveryInv, [Next]_vars PROVE DeliveryInv'
  OBVIOUS
<1>1. CASE Post \/ UNCHANGED vars
  <2>1. /\ inbox' = inbox /\ pc' = pc /\ run' = run /\ todo' = todo /\ said' = said
        /\ committed' = committed
    BY <1>1 DEF Post, vars
  <2>2. SaidType' /\ RunsBeginEmpty' /\ LandedIsRead' /\ InOrder' /\ ReadIsSaid'
    BY <2>1
    DEF DeliveryInv, SaidType, RunsBeginEmpty, LandedIsRead, InOrder, ReadIsSaid
  <2>3. SaidIsRead' /\ ListedIsPending' /\ PendingIsLater'
    BY <2>1 DEF DeliveryInv, SaidIsRead, ListedIsPending, PendingIsLater, Working, Marking
  <2> QED BY <2>2, <2>3 DEF DeliveryInv
<1> QED
  BY <1>1, EnqueueDelivers, StartDelivers, ReopenDelivers, ListDelivers, SayDelivers,
     ConsumeDelivers, CommitDelivers, EndDelivers
  DEF Next, Console, Worker

(* A message is in the conversation of at most one run that landed, once and in the order
   it was queued, and the inbox names that run as its reader (agent_inbox.py:233-268,
   316-349): for any number of attempts that die between the conversation, the log and
   the ledger. *)
THEOREM MessagesDeliveredOnce == Spec => []DeliveredOnce
<1>1. Init => DeliveryInv
  <2>1. \A r \in Runs : << >> \in Seq(Nat)
    OBVIOUS
  <2> QED BY <2>1
          DEF Init, DeliveryInv, SaidType, RunsBeginEmpty, LandedIsRead, SaidIsRead,
              ListedIsPending, PendingIsLater, InOrder, ReadIsSaid, Working, Queued
<1>2. DeliveryInv => DeliveredOnce
  BY DEF DeliveryInv, LandedIsRead, InOrder, ReadIsSaid, DeliveredOnce
<1> QED BY <1>1, <1>2, DeliveryStep, InboxInductive, PTL DEF Spec
=============================================================================
