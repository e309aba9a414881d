------------------------ MODULE ResearchProtocolProofs ------------------------
(***************************************************************************)
(* Theorems about ResearchProtocol, for every value of its constants:      *)
(* types, the contiguity of the validation record, that a registration     *)
(* stands on the whole record; then one outcome of every run and none      *)
(* lost, an environment block only at the last attempt, and that the       *)
(* protocol implements ExperimentOutcome; and what holds besides when no   *)
(* process ends inside a group of writes, or is killed.                    *)
(***************************************************************************)
EXTENDS ResearchProtocol, FiniteSetTheorems, WellFoundedInduction, TLAPS

-----------------------------------------------------------------------------
(* Picking the last of some positions of a sequence. *)

\* A non-empty set of positions has a last one: LastSpend and LastRegistrable
\* read the entry at it.
LEMMA LastPosition ==
    ASSUME NEW n \in Nat, NEW S \in SUBSET (1 .. n), S # {}
    PROVE  \E i \in S : \A j \in S : j <= i
<1> DEFINE R == { ss \in Nat \X Nat : ss[1] < ss[2] }
<1> DEFINE T == { n - i : i \in S }
<1>1. T \subseteq Nat /\ T # {}
  <2>1. \A i \in S : n - i \in Nat
    BY SMT
  <2>2. PICK i \in S : TRUE
    OBVIOUS
  <2>3. n - i \in T
    BY <2>2
  <2> QED BY <2>1, <2>3
<1>2. IsWellFoundedOn(R, Nat)
  BY NatLessThanWellFounded, Zenon DEF OpToRel
<1>3. \A x, y \in Nat : y < x => <<y, x>> \in R
  OBVIOUS
<1> HIDE DEF R
<1>4. PICK x \in T : \A y \in T : ~ (<<y, x>> \in R)
  BY <1>1, <1>2, WFMin
<1>5. \A y \in T : ~ (y < x)
  BY <1>1, <1>3, <1>4
<1>6. PICK i \in S : x = n - i
  BY <1>4
<1>7. \A j \in S : n - j \in T
  OBVIOUS
<1>8. \A j \in S : j <= i
  BY <1>5, <1>6, <1>7
<1> QED BY <1>8

\* What earlier attempts spent is a number of turns.
LEMMA LastSpendType == LedgerType /\ DiskType => LastSpend \in Nat
<1> SUFFICES ASSUME LedgerType, DiskType PROVE LastSpend \in Nat
  OBVIOUS
<1> DEFINE S == { i \in Attempts : traced[failed[i].run] > 0 }
<1>1. failed \in Seq(Attempt) /\ traced \in [Runs -> Nat]
  BY DEF LedgerType, DiskType
<1>2. S \subseteq 1 .. Len(failed) /\ Len(failed) \in Nat
  BY <1>1 DEF Attempts
<1>3. CASE S = {}
  BY <1>3 DEF LastSpend
<1>4. CASE S # {}
  <2> DEFINE last == CHOOSE i \in S : \A j \in S : j <= i
  <2>1. \E i \in S : \A j \in S : j <= i
    <3> HIDE DEF S
    <3> QED BY <1>2, <1>4, LastPosition
  <2>2. last \in S
    <3> HIDE DEF S
    <3> QED BY <2>1
  <2>3. LastSpend = traced[failed[last].run]
    BY <1>4 DEF LastSpend
  <2> HIDE DEF S, last
  <2>4. failed[last] \in Attempt
    BY <1>1, <1>2, <2>2
  <2> QED BY <1>1, <2>3, <2>4 DEF Attempt
<1> QED BY <1>3, <1>4

\* What a session that ran out of budget registers is a node or none.
LEMMA LastRegistrableType == steps \in Seq(Nat) => LastRegistrable \in Nat
<1> SUFFICES ASSUME steps \in Seq(Nat) PROVE LastRegistrable \in Nat
  OBVIOUS
<1>1. Registrables \subseteq 1 .. Len(steps) /\ Len(steps) \in Nat
  BY DEF Registrables
<1>2. CASE Registrables = {}
  BY <1>2 DEF LastRegistrable, None
<1>3. CASE Registrables # {}
  <2> DEFINE last ==
        CHOOSE i \in Registrables : \A j \in Registrables : j <= i
  <2>1. \E i \in Registrables : \A j \in Registrables : j <= i
    BY <1>1, <1>3, LastPosition
  <2>2. last \in Registrables
    BY <2>1
  <2>3. LastRegistrable = steps[last]
    BY <1>3 DEF LastRegistrable
  <2>4. \A i \in 1 .. Len(steps) : steps[i] \in Nat
    OBVIOUS
  <2> HIDE DEF last
  <2> QED BY <1>1, <2>2, <2>3, <2>4
<1> QED BY <1>2, <1>3

\* The candidate a session registers is a node or none.
LEMMA CandidateType ==
    LedgerType /\ SessionType /\ EndingType => Candidate \in Nat
<1> SUFFICES ASSUME LedgerType, SessionType, EndingType
             PROVE  Candidate \in Nat
  OBVIOUS
<1>1. LastRegistrable \in Nat
  BY LastRegistrableType DEF SessionType
<1>2. tests # <<>> => tests[Len(tests)].cand \in Nat
  <2>1. tests \in Seq(TestRows)
    BY DEF LedgerType
  <2>2. tests # <<>> => tests[Len(tests)] \in TestRows
    BY <2>1
  <2> QED BY <2>2 DEF TestRows
<1> QED BY <1>1, <1>2 DEF Candidate, EndingType

\* The attempts a resume reads are finitely many.
LEMMA AttemptsFinite == LedgerType => Cardinality(Attempts) \in Nat
<1> SUFFICES ASSUME LedgerType PROVE Cardinality(Attempts) \in Nat
  OBVIOUS
<1>1. Attempts \in SUBSET (1 .. Len(failed)) /\ Len(failed) \in Nat
  BY DEF LedgerType, Attempts
<1>2. IsFiniteSet(1 .. Len(failed))
  BY <1>1, FS_Interval
<1> QED BY <1>1, <1>2, FS_Subset, FS_CardinalityType

-----------------------------------------------------------------------------
(* Who writes what: every other step leaves the part alone. *)

LedgerWrite == RecoverRecord \/ Test \/ CompleteRow \/ RecordResearch
                 \/ RecordForward \/ RecordMutation \/ RecordFailure

\* Only these steps append to the ledger.
LEMMA LedgerWriters == Next => LedgerWrite \/ UNCHANGED ledger
  BY DEF Next, Work, LedgerWrite, ledger, StartWorker, RecoverRecord,
         RecoverDrop, Recovered, NextSession, BeginRefused, BeginResearch,
         Resolve, Seed, Think, Validate, RecordSidecar, Unpublish, Publish,
         ValidateFails, Test, TestFails, Deadline, Collect, Register,
         CompleteRow, RecordResearch, FinishRun, BeginForward, RecordForward,
         RecordMutation, AttemptError, RecordFailure, Unmark, Terminate, Kill,
         RaiseLimit

\* An attempt under way has a run id that was given out.
LEMMA RunIsKnown == TypeOK /\ (Attempting \/ pc = "failing") => run \in Runs
  BY DEF TypeOK, WorkerType

\* Appending a well-typed row keeps every log well-typed.
LEMMA LedgerTypeKept == TypeOK /\ Next => LedgerType'
<1> SUFFICES ASSUME TypeOK, Next PROVE LedgerType'
  OBVIOUS
<1> USE DEF TypeOK
<1>1. CASE RecoverRecord
  <2>1. PICK m \in markers :
          failed' = Append(failed, [run |-> m.run, phase |-> m.phase])
    BY <1>1 DEF RecoverRecord
  <2>2. [run |-> m.run, phase |-> m.phase] \in Attempt
    BY <2>1 DEF DiskType, Attempt
  <2>3. failed' \in Seq(Attempt)
    BY <2>1, <2>2 DEF LedgerType
  <2> QED BY <1>1, <2>3 DEF RecoverRecord, LedgerType
<1>2. CASE Test
  <2>1. PICK i \in DOMAIN steps :
          tests' = Append(tests, [step |-> NextStep, cand |-> steps[i],
                                  source |-> "test", run |-> run])
    BY <1>2 DEF Test
  <2>2. steps[i] \in Nat
    BY <2>1 DEF SessionType
  <2>3. [step |-> NextStep, cand |-> steps[i], source |-> "test",
         run |-> run] \in TestRows
    BY <1>2, <2>2, RunIsKnown
       DEF TestRows, NextStep, SessionType, Test, Turn, Attempting, Sessions
  <2>4. tests' \in Seq(TestRows)
    BY <2>1, <2>3 DEF LedgerType
  <2> QED BY <1>2, <2>4 DEF Test, LedgerType
<1>3. CASE CompleteRow
  <2>1. [step |-> NextStep, cand |-> nominee, source |-> "host_completion",
         run |-> run] \in TestRows
    BY <1>3, RunIsKnown DEF TestRows, NextStep, SessionType, EndingType,
       CompleteRow, Attempting, Sessions
  <2>2. tests' \in Seq(TestRows)
    BY <1>3, <2>1 DEF LedgerType, CompleteRow
  <2> QED BY <1>3, <2>2 DEF CompleteRow, LedgerType
<1>4. CASE RecordResearch
  <2>1. run \in Runs /\ nominee \in Nat
          /\ EndStatus \in {"none", "no_deliverable", "environment_blocked"}
    BY <1>4, RunIsKnown DEF RecordResearch, Attempting, Sessions, EndingType,
       EndStatus
  <2> QED BY <1>4, <2>1 DEF RecordResearch, LedgerType
<1>5. CASE RecordForward
  <2>1. run \in Runs
    BY <1>5, RunIsKnown DEF RecordForward, Attempting
  <2> QED BY <1>5, <2>1 DEF RecordForward, LedgerType
<1>6. CASE RecordMutation
  <2>1. run \in Runs
    BY <1>6, RunIsKnown DEF RecordMutation, Attempting
  <2> QED BY <1>6, <2>1 DEF RecordMutation, LedgerType
<1>7. CASE RecordFailure
  <2>1. [run |-> run, phase |-> phase] \in Attempt
    BY <1>7, RunIsKnown DEF RecordFailure, WorkerType, Attempt
  <2>2. failed' \in Seq(Attempt)
    BY <1>7, <2>1 DEF RecordFailure, LedgerType
  <2> QED BY <1>7, <2>2 DEF RecordFailure, LedgerType
<1>8. CASE UNCHANGED ledger
  BY <1>8 DEF ledger, LedgerType
<1> QED
  BY <1>1, <1>2, <1>3, <1>4, <1>5, <1>6, <1>7, <1>8, LedgerWriters
     DEF LedgerWrite

DiskWrite == RecoverDrop \/ BeginResearch \/ Resolve \/ Seed \/ Turn
               \/ RecordSidecar \/ Unpublish \/ Publish \/ FinishRun
               \/ BeginForward \/ Unmark \/ Kill \/ RaiseLimit

\* Only these steps write markers, the session's files or the limit.
LEMMA DiskWriters == Next => DiskWrite \/ UNCHANGED <<markers, disk, limit>>
  BY DEF Next, Work, DiskWrite, disk, StartWorker, RecoverRecord,
         RecoverDrop, Recovered, NextSession, BeginRefused, BeginResearch,
         Resolve, Seed, Think, Validate, RecordSidecar, Unpublish, Publish,
         ValidateFails, Test, TestFails, Deadline, Collect, Register,
         CompleteRow, RecordResearch, FinishRun, BeginForward, RecordForward,
         RecordMutation, AttemptError, RecordFailure, Unmark, Terminate, Kill,
         RaiseLimit

\* What a model turn leaves on disk: its trace, and a Validation's node.
LEMMA TurnWrites ==
    Next /\ Turn =>
        /\ UNCHANGED <<markers, root, sidecars, published, limit>>
        /\ tree' = tree \/ \E registers \in BOOLEAN : tree' = Append(tree, registers)
<1> SUFFICES ASSUME Next, Turn
             PROVE  /\ UNCHANGED <<markers, root, sidecars, published, limit>>
                    /\ \/ tree' = tree
                       \/ \E registers \in BOOLEAN : tree' = Append(tree, registers)
  OBVIOUS
<1>1. pc = "session"
  BY DEF Turn
<1>2. Think \/ Validate \/ ValidateFails \/ Test \/ TestFails \/ Deadline
        \/ AttemptError \/ Terminate \/ Kill
  BY <1>1 DEF Next, Work, StartWorker, RecoverRecord,
         RecoverDrop, Recovered, NextSession, BeginRefused, BeginResearch,
         Resolve, Seed, RecordSidecar, Unpublish, Publish, Collect, Register,
         CompleteRow, RecordResearch, FinishRun, BeginForward, RecordForward,
         RecordMutation, RecordFailure, Unmark, RaiseLimit
<1> QED BY <1>1, <1>2 DEF Think, Validate, ValidateFails, Test, TestFails,
   Deadline, AttemptError, Terminate, Kill, disk, Turn

\* What a step writes to disk has its type.
LEMMA DiskTypeKept == TypeOK /\ Next => DiskType'
<1> SUFFICES ASSUME TypeOK, Next PROVE DiskType'
  OBVIOUS
<1> USE DEF TypeOK
<1>1. CASE BeginResearch \/ BeginForward
  <2>1. [run |-> lastRun + 1, phase |-> "research"] \in Attempt
          /\ [run |-> lastRun + 1, phase |-> "forward"] \in Attempt
    BY <1>1, ConstantsAssumption
       DEF BeginResearch, BeginForward, Attempt, Runs, WorkerType
  <2> QED BY <1>1, <2>1 DEF BeginResearch, BeginForward, DiskType, disk
<1>2. CASE Kill
  <2>1. { [m EXCEPT !.phase = "unknown"] : m \in markers } \subseteq Attempt
    BY DEF DiskType, Attempt
  <2> QED BY <1>2, <2>1 DEF Kill, DiskType, disk
<1>3. CASE Turn
  <2>1. traced' \in [Runs -> Nat]
    <3>1. used + 1 \in Nat /\ traced \in [Runs -> Nat]
      BY DEF SessionType, DiskType
    <3>2. traced' = [traced EXCEPT ![run] = used + 1]
      BY <1>3 DEF Turn
    <3> QED BY <3>1, <3>2
  <2>2. tree' \in Seq(BOOLEAN)
    BY <1>3, TurnWrites DEF DiskType
  <2> QED BY <1>3, <2>1, <2>2, TurnWrites DEF DiskType
<1>4. CASE RecoverDrop \/ FinishRun \/ Unmark
  BY <1>4 DEF RecoverDrop, FinishRun, Unmark, DiskType, disk
<1>5. CASE Resolve \/ Seed
  BY <1>5 DEF Resolve, Seed, DiskType
<1>6. CASE RecordSidecar \/ Unpublish \/ Publish
  <2>1. Len(tree) \in Nat
    BY DEF DiskType
  <2>2. markers' = markers /\ limit' = limit /\ root' = root
          /\ tree' = tree /\ traced' = traced
    BY <1>6 DEF RecordSidecar, Unpublish, Publish
  <2>3. sidecars' \in { sidecars, sidecars \cup {Len(tree)} }
          /\ published' \in { published, 0, Len(tree) }
    BY <1>6 DEF RecordSidecar, WithSidecar, Unpublish, Publish
  <2> QED BY <2>1, <2>2, <2>3 DEF DiskType
<1>7. CASE RaiseLimit
  BY <1>7, ConstantsAssumption DEF RaiseLimit, DiskType, disk
<1>8. CASE UNCHANGED <<markers, disk, limit>>
  BY <1>8 DEF disk, DiskType
<1> QED
  BY <1>1, <1>2, <1>3, <1>4, <1>5, <1>6, <1>7, <1>8, DiskWriters DEF DiskWrite

SessionWrite == BeginResearch \/ Resolve \/ Turn \/ Publish \/ CompleteRow

\* Only these steps change what a session remembers.
LEMMA SessionWriters == Next => SessionWrite \/ UNCHANGED session
  BY DEF Next, Work, SessionWrite, session, StartWorker, RecoverRecord,
         RecoverDrop, Recovered, NextSession, BeginRefused, BeginResearch,
         Resolve, Seed, Think, Validate, RecordSidecar, Unpublish, Publish,
         ValidateFails, Test, TestFails, Deadline, Collect, Register,
         CompleteRow, RecordResearch, FinishRun, BeginForward, RecordForward,
         RecordMutation, AttemptError, RecordFailure, Unmark, Terminate, Kill,
         RaiseLimit

\* A model turn counts at most one test or one failure.
LEMMA TurnRemembers ==
    Next /\ Turn =>
        /\ UNCHANGED <<resume, attempt, steps>>
        /\ known' \in {known, known + 1}
        /\ batchFails' \in {batchFails, batchFails + 1}
        /\ testFails' \in {0, testFails, testFails + 1}
<1> SUFFICES ASSUME Next, Turn
             PROVE  /\ UNCHANGED <<resume, attempt, steps>>
                    /\ known' \in {known, known + 1}
                    /\ batchFails' \in {batchFails, batchFails + 1}
                    /\ testFails' \in {0, testFails, testFails + 1}
  OBVIOUS
<1>1. pc = "session"
  BY DEF Turn
<1>2. Think \/ Validate \/ ValidateFails \/ Test \/ TestFails \/ Deadline
        \/ AttemptError \/ Terminate \/ Kill
  BY <1>1 DEF Next, Work, StartWorker, RecoverRecord,
         RecoverDrop, Recovered, NextSession, BeginRefused, BeginResearch,
         Resolve, Seed, RecordSidecar, Unpublish, Publish, Collect, Register,
         CompleteRow, RecordResearch, FinishRun, BeginForward, RecordForward,
         RecordMutation, RecordFailure, Unmark, RaiseLimit
<1> QED BY <1>1, <1>2 DEF Think, Validate, ValidateFails, Test, TestFails,
   Deadline, AttemptError, Terminate, Kill, session

\* What a session remembers has its type.
LEMMA SessionTypeKept == TypeOK /\ Next => SessionType'
<1> SUFFICES ASSUME TypeOK, Next PROVE SessionType'
  OBVIOUS
<1> USE DEF TypeOK
<1>1. CASE BeginResearch
  <2>1. LastSpend \in Nat /\ Cardinality(Attempts) + 1 \in Nat
    BY LastSpendType, AttemptsFinite
  <2>2. [i \in Published |-> i] \in Seq(Nat)
    BY DEF Published, DiskType
  <2>3. TestsOnRecord \in Nat
    BY DEF TestsOnRecord, LedgerType
  <2> QED BY <1>1, <2>1, <2>2, <2>3 DEF BeginResearch, SessionType
<1>2. CASE Resolve
  BY <1>2 DEF Resolve, SessionType
<1>3. CASE Turn
  <2>1. used' \in Nat
    BY <1>3 DEF Turn, SessionType
  <2> QED BY <1>3, <2>1, TurnRemembers DEF SessionType
<1>4. CASE Publish
  <2>1. Append(steps, Len(tree)) \in Seq(Nat)
    BY DEF SessionType, DiskType
  <2> QED BY <1>4, <2>1 DEF Publish, SessionType
<1>5. CASE CompleteRow
  BY <1>5 DEF CompleteRow, SessionType
<1>6. CASE UNCHANGED session
  BY <1>6 DEF session, SessionType
<1> QED BY <1>1, <1>2, <1>3, <1>4, <1>5, <1>6, SessionWriters DEF SessionWrite

\* How a session ends, and with what, has its type.
LEMMA EndingTypeKept == TypeOK /\ Next => EndingType'
<1> SUFFICES ASSUME TypeOK, Next PROVE EndingType'
  OBVIOUS
<1> USE DEF TypeOK
<1>1. CASE BeginResearch
  BY <1>1 DEF BeginResearch, EndingType, None
<1>2. CASE RecordSidecar \/ Collect
  BY <1>2 DEF RecordSidecar, Collect, EndingType
<1>3. CASE ValidateFails \/ TestFails \/ Deadline
  BY <1>3 DEF ValidateFails, TestFails, Deadline, EndingType
<1>4. CASE Test
  <2>1. PICK i \in DOMAIN steps :
          IF known + 1 = N THEN outcome' = "completed" /\ nominee' = steps[i]
                           ELSE UNCHANGED <<outcome, nominee>>
    BY <1>4 DEF Test
  <2>2. steps[i] \in Nat
    BY <2>1 DEF SessionType
  <2> QED BY <1>4, <2>1, <2>2 DEF Test, EndingType
<1>5. CASE Register
  <2>1. nominee' \in { nominee, None, Candidate }
    BY <1>5 DEF Register
  <2>2. outcome' = outcome /\ after' = after
    BY <1>5 DEF Register
  <2> QED BY <2>1, <2>2, CandidateType DEF EndingType, None
<1>6. CASE UNCHANGED ending
  BY <1>6 DEF ending, EndingType
<1> QED
  <2>1. \/ BeginResearch \/ RecordSidecar \/ Collect \/ ValidateFails
        \/ TestFails \/ Deadline \/ Test \/ Register \/ UNCHANGED ending
    BY DEF Next, Work, ending, StartWorker, RecoverRecord,
         RecoverDrop, Recovered, NextSession, BeginRefused, Resolve, Seed,
         Think, Validate, Unpublish, Publish, CompleteRow, RecordResearch,
         FinishRun, BeginForward, RecordForward, RecordMutation, AttemptError,
         RecordFailure, Unmark, Terminate, Kill, RaiseLimit
  <2> QED BY <2>1, <1>1, <1>2, <1>3, <1>4, <1>5, <1>6

\* A run id is given out only with the marker, and stays the run's until the
\* next one is.
LEMMA WorkerTypeKept == TypeOK /\ Next => WorkerType'
<1> SUFFICES ASSUME TypeOK, Next PROVE WorkerType'
  OBVIOUS
<1> USE DEF TypeOK
<1>1. pc \in PCs /\ after \in {"keep", "session", "closing", "collected"}
        /\ phase \in {"research", "forward"} /\ tries \in Nat
        /\ exiting \in BOOLEAN
  BY DEF WorkerType, EndingType
<1>2. pc' \in PCs
  BY <1>1 DEF PCs, Sessions, Attempting, UnwindsTo, Next, Work, StartWorker,
         RecoverRecord, RecoverDrop, Recovered, NextSession, BeginRefused,
         BeginResearch, Resolve, Seed, Think, Validate, RecordSidecar,
         Unpublish, Publish, ValidateFails, Test, TestFails, Deadline, Collect,
         Register, CompleteRow, RecordResearch, FinishRun, BeginForward,
         RecordForward, RecordMutation, AttemptError, RecordFailure, Unmark,
         Terminate, Kill, RaiseLimit, Turn
<1>3. phase' \in {"research", "forward"} /\ tries' \in Nat
  BY <1>1 DEF Next, Work, StartWorker,
         RecoverRecord, RecoverDrop, Recovered, NextSession, BeginRefused,
         BeginResearch, Resolve, Seed, Think, Validate, RecordSidecar,
         Unpublish, Publish, ValidateFails, Test, TestFails, Deadline, Collect,
         Register, CompleteRow, RecordResearch, FinishRun, BeginForward,
         RecordForward, RecordMutation, AttemptError, RecordFailure, Unmark,
         Terminate, Kill, RaiseLimit, Turn
<1>6. exiting' \in BOOLEAN
  BY <1>1, Zenon DEF Next, Work, StartWorker,
         RecoverRecord, RecoverDrop, Recovered, NextSession, BeginRefused,
         BeginResearch, Resolve, Seed, Think, Validate, RecordSidecar,
         Unpublish, Publish, ValidateFails, Test, TestFails, Deadline, Collect,
         Register, CompleteRow, RecordResearch, FinishRun, BeginForward,
         RecordForward, RecordMutation, AttemptError, RecordFailure, Unmark,
         Terminate, Kill, RaiseLimit
<1>4. /\ lastRun' \in Nat /\ lastRun' <= MaxRuns
      /\ spent' \in Nat /\ kills' \in Nat /\ terms' \in Nat
  <2>1. UNCHANGED history \/ Turn \/ BeginResearch \/ BeginForward
          \/ Terminate \/ Kill
    BY DEF history, Next, Work, StartWorker,
         RecoverRecord, RecoverDrop, Recovered, NextSession, BeginRefused,
         Resolve, Seed, Think, Validate, RecordSidecar, Unpublish, Publish,
         ValidateFails, Test, TestFails, Deadline, Collect, Register,
         CompleteRow, RecordResearch, FinishRun, RecordForward, RecordMutation,
         AttemptError, RecordFailure, Unmark, RaiseLimit
  <2>2. CASE Turn
    <3>1. spent' = spent + 1
      BY <2>2 DEF Turn
    <3>2. lastRun' = lastRun /\ kills' \in {kills, kills + 1}
            /\ terms' \in {terms, terms + 1}
      <4>1. pc = "session"
        BY <2>2 DEF Turn
      <4>2. Think \/ Validate \/ ValidateFails \/ Test \/ TestFails
              \/ Deadline \/ AttemptError \/ Terminate \/ Kill
        BY <4>1 DEF Next, Work, StartWorker, RecoverRecord, RecoverDrop,
         Recovered, NextSession, BeginRefused, BeginResearch, Resolve, Seed,
         RecordSidecar, Unpublish, Publish, Collect, Register, CompleteRow,
         RecordResearch, FinishRun, BeginForward, RecordForward,
         RecordMutation, RecordFailure, Unmark, RaiseLimit
      <4> QED BY <4>2 DEF Think, Validate, ValidateFails, Test, TestFails,
         Deadline, AttemptError, Terminate, Kill, history
    <3> QED BY <3>1, <3>2 DEF WorkerType
  <2>3. CASE ~Turn
    BY <2>1, <2>3, ConstantsAssumption
       DEF WorkerType, history, BeginResearch, BeginForward, Terminate, Kill
  <2> QED BY <2>2, <2>3
<1>5. run' \in Nat
        /\ ((Attempting \/ pc \in {"failing", "unmark", "finish"}) => run \in Runs)'
  <2>1. CASE BeginResearch \/ BeginForward
    BY <2>1, ConstantsAssumption
       DEF BeginResearch, BeginForward, WorkerType, Runs
  <2>2. CASE ~(BeginResearch \/ BeginForward)
    <3>1. run' = run
      BY <2>2 DEF Next, Work, StartWorker,
         RecoverRecord, RecoverDrop, Recovered, NextSession, BeginRefused,
         Resolve, Seed, Think, Validate, RecordSidecar, Unpublish, Publish,
         ValidateFails, Test, TestFails, Deadline, Collect, Register,
         CompleteRow, RecordResearch, FinishRun, RecordForward, RecordMutation,
         AttemptError, RecordFailure, Unmark, Terminate, Kill, RaiseLimit
    <3>2. (Attempting \/ pc \in {"failing", "unmark", "finish"})'
            => Attempting \/ pc \in {"failing", "unmark", "finish"}
      BY <1>1, <2>2 DEF Attempting, Sessions, UnwindsTo, Next, Work, StartWorker,
         RecoverRecord, RecoverDrop, Recovered, NextSession, BeginRefused,
         Resolve, Seed, Think, Validate, RecordSidecar, Unpublish, Publish,
         ValidateFails, Test, TestFails, Deadline, Collect, Register,
         CompleteRow, RecordResearch, FinishRun, RecordForward, RecordMutation,
         AttemptError, RecordFailure, Unmark, Terminate, Kill, RaiseLimit, Turn
    <3>3. run \in Nat
            /\ (Attempting \/ pc \in {"failing", "unmark", "finish"}
                  => run \in Runs)
      BY DEF WorkerType
    <3>4. Runs' = Runs
      BY DEF Runs
    <3> QED BY <3>1, <3>2, <3>3, <3>4
  <2> QED BY <2>1, <2>2
<1> QED BY <1>2, <1>3, <1>4, <1>5, <1>6 DEF WorkerType

\* The types hold of a fresh experiment.
LEMMA TypeOnInit == Init => TypeOK
<1> SUFFICES ASSUME Init PROVE TypeOK
  OBVIOUS
<1>1. LedgerType
  BY DEF Init, LedgerType
<1>2. DiskType
  BY ConstantsAssumption DEF Init, DiskType, Runs
<1>3. SessionType
  <2>1. resume \in BOOLEAN
    BY Zenon DEF Init
  <2> QED BY <2>1 DEF Init, SessionType
<1>4. EndingType
  BY DEF Init, EndingType, None
<1>5. WorkerType
  <2>1. exiting \in BOOLEAN
    BY Zenon DEF Init
  <2> QED BY <2>1, ConstantsAssumption
      DEF Init, WorkerType, PCs, Sessions, Attempting, None
<1> QED BY <1>1, <1>2, <1>3, <1>4, <1>5 DEF TypeOK

\* Every step, and a stutter, keeps the types.
LEMMA TypeOnStep == TypeOK /\ [Next]_vars => TypeOK'
<1>1. TypeOK /\ Next => TypeOK'
  BY LedgerTypeKept, DiskTypeKept, SessionTypeKept, EndingTypeKept,
     WorkerTypeKept DEF TypeOK
<1>2. TypeOK /\ UNCHANGED vars => TypeOK'
  BY DEF TypeOK, vars, ledger, disk, session, ending, history, LedgerType,
     DiskType, SessionType, EndingType, WorkerType, Attempting, Runs
<1> QED BY <1>1, <1>2

\* Every variable keeps its type, whatever happens to the worker.
THEOREM TypeCorrect == Spec => []TypeOK
  BY TypeOnInit, TypeOnStep, PTL DEF Spec

-----------------------------------------------------------------------------
(* The inductive invariant of the validation record and the registration.   *)
(* RecordContiguous and RegisteredOnFullRecord speak of the ledger alone and *)
(* are not inductive: a step number comes from the session's own count, and *)
(* a registration from what the session decided some steps before.          *)

\* A session runs only before any research record; a replay is the forward
\* stage's.
StageInv ==
    /\ \A i \in DOMAIN research :
         research[i].registered # None \/ research[i].end # "none"
    /\ pc \in Sessions => phase = "research"
    /\ pc = "replay" => phase = "forward"
    /\ pc \in Sessions \cup {"begin", "failing", "unmark"} /\ phase = "research"
         => research = <<>>

\* A session knows how many steps its ledger holds, and they never exceed N.
CountInv ==
    /\ Len(tests) <= N
    /\ pc \in Sessions => known = Len(tests)
    /\ pc = "completing" => known < N

\* A session that closes has an outcome.
ClosingInv ==
    \/ pc \in {"closing", "collected"}
    \/ pc \in {"unpublish", "publish"} /\ after \in {"closing", "collected"}
    => outcome # "open"

\* A completed session nominated what the record's last step replayed, and a
\* nominee about to be recorded is that too.
NomineeInv ==
    /\ pc = "completing" => nominee # None
    /\ \/ pc \in Sessions /\ outcome = "completed"
       \/ pc = "record" /\ nominee # None
       => Len(tests) = N /\ tests[N].cand = nominee

IInv == /\ TypeOK /\ StageInv /\ CountInv /\ ClosingInv /\ NomineeInv
        /\ RecordContiguous /\ RegisteredOnFullRecord

\* Every step keeps the stages apart.
LEMMA StageKept == TypeOK /\ StageInv /\ Next => StageInv'
<1> SUFFICES ASSUME TypeOK, StageInv, Next PROVE StageInv'
  OBVIOUS
<1>1. pc \in PCs /\ after \in {"keep", "session", "closing", "collected"}
        /\ phase \in {"research", "forward"}
  BY DEF TypeOK, WorkerType, EndingType
<1>2. (\A i \in DOMAIN research :
         research[i].registered # None \/ research[i].end # "none")'
  <2>1. CASE RecordResearch
    <3>1. research' = Append(research, [run |-> run, registered |-> nominee,
                                        end |-> EndStatus])
      BY <2>1 DEF RecordResearch
    <3>2. nominee # None \/ EndStatus # "none"
      BY DEF EndStatus
    <3>3. research \in Seq([run : Runs, registered : Nat,
                end : {"none", "no_deliverable", "environment_blocked"}])
      BY DEF TypeOK, LedgerType
    <3>4. /\ DOMAIN research' = 1 .. Len(research) + 1
          /\ \A i \in 1 .. Len(research) : research'[i] = research[i]
          /\ research'[Len(research) + 1].registered = nominee
          /\ research'[Len(research) + 1].end = EndStatus
      BY <3>1, <3>3
    <3>5. ASSUME NEW i \in 1 .. Len(research) + 1
          PROVE  research'[i].registered # None \/ research'[i].end # "none"
      <4>1. CASE i = Len(research) + 1
        BY <3>2, <3>4, <4>1
      <4>2. CASE i # Len(research) + 1
        <5>1. i \in 1 .. Len(research) /\ i \in DOMAIN research
          BY <3>3, <4>2
        <5> QED BY <3>4, <5>1 DEF StageInv
      <4> QED BY <4>1, <4>2
    <3>6. None' = None
      BY DEF None
    <3> QED BY <3>4, <3>5, <3>6
  <2>2. CASE UNCHANGED research
    BY <2>2 DEF StageInv, None
  <2> QED BY <2>1, <2>2, LedgerWriters DEF LedgerWrite, ledger, RecoverRecord,
          Test, CompleteRow, RecordForward, RecordMutation, RecordFailure
<1>3. (pc \in Sessions => phase = "research")'
        /\ (pc = "replay" => phase = "forward")'
  <2>1. NextSession \/ phase' = phase
    BY DEF Next, Work, StartWorker,
         RecoverRecord, RecoverDrop, Recovered, BeginRefused,
         BeginResearch, Resolve, Seed, Think, Validate, RecordSidecar,
         Unpublish, Publish, ValidateFails, Test, TestFails, Deadline, Collect,
         Register, CompleteRow, RecordResearch, FinishRun, BeginForward,
         RecordForward, RecordMutation, AttemptError, RecordFailure, Unmark,
         Terminate, Kill, RaiseLimit, Turn, ledger
  <2>2. pc' \in Sessions => BeginResearch \/ (pc \in Sessions /\ ~NextSession)
    BY <1>1 DEF PCs, Sessions, Attempting, UnwindsTo, Next, Work, StartWorker,
         RecoverRecord, RecoverDrop, Recovered, NextSession, BeginRefused,
         Resolve, Seed, Think, Validate, RecordSidecar,
         Unpublish, Publish, ValidateFails, Test, TestFails, Deadline, Collect,
         Register, CompleteRow, RecordResearch, FinishRun, BeginForward,
         RecordForward, RecordMutation, AttemptError, RecordFailure, Unmark,
         Terminate, Kill, RaiseLimit, Turn
  <2>3. pc' = "replay" => BeginForward \/ (pc = "replay" /\ ~NextSession)
    <3> SUFFICES ASSUME pc' = "replay", ~BeginForward
                 PROVE  pc = "replay" /\ ~NextSession
      OBVIOUS
    <3>1. CASE Work
      BY <1>1, <3>1 DEF PCs, Sessions, Work, RecoverRecord, RecoverDrop, Recovered,
         NextSession, BeginRefused, BeginResearch, Resolve, Seed, Think, Validate,
         RecordSidecar, Unpublish, Publish, ValidateFails, Test, TestFails,
         Deadline, Collect, Register, CompleteRow, RecordResearch, FinishRun,
         RecordForward, RecordMutation, RecordFailure, Unmark, Turn
    <3>2. CASE ~Work
      BY <1>1, <3>2 DEF PCs, Sessions, Attempting, UnwindsTo, Next, StartWorker,
         NextSession, AttemptError, Terminate, Kill, RaiseLimit
    <3> QED BY <3>1, <3>2
  <2>4. /\ BeginResearch => phase = "research" /\ ~NextSession
        /\ BeginForward => phase = "forward" /\ ~NextSession
    BY DEF BeginResearch, BeginForward, NextSession
  <2>5. (pc \in Sessions => phase = "research")'
    BY <2>1, <2>2, <2>4 DEF StageInv
  <2>6. (pc = "replay" => phase = "forward")'
    BY <2>1, <2>3, <2>4 DEF StageInv
  <2> QED BY <2>5, <2>6
<1>4. ~ResearchOver => research = <<>>
  BY DEF StageInv, ResearchOver, Registered, TypeOK, LedgerType
<1>5. (pc \in Sessions \cup {"begin", "failing", "unmark"} /\ phase = "research"
         => research = <<>>)'
  BY <1>1, <1>4 DEF StageInv, PCs, Sessions, Attempting, UnwindsTo, Next, Work, StartWorker,
         RecoverRecord, RecoverDrop, Recovered, NextSession, BeginRefused,
         BeginResearch, Resolve, Seed, Think, Validate, RecordSidecar,
         Unpublish, Publish, ValidateFails, Test, TestFails, Deadline, Collect,
         Register, CompleteRow, RecordResearch, FinishRun, BeginForward,
         RecordForward, RecordMutation, AttemptError, RecordFailure, Unmark,
         Terminate, Kill, RaiseLimit, Turn, ledger
<1> QED BY <1>2, <1>3, <1>5 DEF StageInv

\* Every way to close a session sets its outcome.
LEMMA ClosingKept == TypeOK /\ ClosingInv /\ Next => ClosingInv'
<1> SUFFICES ASSUME TypeOK, ClosingInv, Next PROVE ClosingInv'
  OBVIOUS
<1>1. pc \in PCs /\ after \in {"keep", "session", "closing", "collected"}
  BY DEF TypeOK, WorkerType, EndingType
<1>2. CASE pc' \in {"closing", "collected"}
  BY <1>1, <1>2 DEF ClosingInv, PCs, Sessions, Attempting, UnwindsTo, ending,
         Next, Work, StartWorker,
         RecoverRecord, RecoverDrop, Recovered, NextSession, BeginRefused,
         BeginResearch, Resolve, Seed, Think, Validate, RecordSidecar,
         Unpublish, Publish, ValidateFails, Test, TestFails, Deadline, Collect,
         Register, CompleteRow, RecordResearch, FinishRun, BeginForward,
         RecordForward, RecordMutation, AttemptError, RecordFailure, Unmark,
         Terminate, Kill, RaiseLimit, Turn, ledger
<1>3. CASE pc' = "unpublish"
  <2>1. RecordSidecar \/ ValidateFails \/ Collect
    BY <1>1, <1>3 DEF Attempting, Sessions, UnwindsTo,Next, Work, StartWorker,
         RecoverRecord, RecoverDrop, Recovered, NextSession, BeginRefused,
         BeginResearch, Resolve, Seed, Think, Validate, RecordSidecar,
         Unpublish, Publish, ValidateFails, Test, TestFails, Deadline, Collect,
         Register, CompleteRow, RecordResearch, FinishRun, BeginForward,
         RecordForward, RecordMutation, AttemptError, RecordFailure, Unmark,
         Terminate, Kill, RaiseLimit, Turn, ledger
  <2> QED BY <1>1, <1>3, <2>1
      DEF RecordSidecar, ValidateFails, Collect, Turn, ClosingInv
<1>4. CASE pc' = "publish"
  <2>1. Unpublish
    BY <1>1, <1>4 DEF Attempting, Sessions, UnwindsTo,Next, Work, StartWorker,
         RecoverRecord, RecoverDrop, Recovered, NextSession, BeginRefused,
         BeginResearch, Resolve, Seed, Think, Validate, RecordSidecar,
         Unpublish, Publish, ValidateFails, Test, TestFails, Deadline, Collect,
         Register, CompleteRow, RecordResearch, FinishRun, BeginForward,
         RecordForward, RecordMutation, AttemptError, RecordFailure, Unmark,
         Terminate, Kill, RaiseLimit, Turn, ledger
  <2> QED BY <1>1, <1>4, <2>1 DEF Unpublish, ending, ClosingInv
<1> QED BY <1>2, <1>3, <1>4 DEF ClosingInv

\* A step other than a test, a host row or a new attempt leaves the record
\* and the session's count of it alone.
LEMMA OtherStep ==
    TypeOK /\ Next /\ ~Test /\ ~CompleteRow /\ ~BeginResearch =>
        /\ tests' = tests /\ known' = known
        /\ pc' \in Sessions => pc \in Sessions
        /\ pc' = "completing" => pc = "completing" \/ Register
<1> SUFFICES ASSUME TypeOK, Next, ~Test, ~CompleteRow, ~BeginResearch
             PROVE  /\ tests' = tests /\ known' = known
                    /\ pc' \in Sessions => pc \in Sessions
                    /\ pc' = "completing" => pc = "completing" \/ Register
  OBVIOUS
<1>1. pc \in PCs /\ after \in {"keep", "session", "closing", "collected"}
  BY DEF TypeOK, WorkerType, EndingType
<1>2. tests' = tests /\ known' = known
  BY DEF Next, Work, StartWorker, RecoverRecord, RecoverDrop,
         Recovered, NextSession, BeginRefused, Resolve, Seed, Think, Validate,
         RecordSidecar, Unpublish, Publish, ValidateFails, TestFails, Deadline,
         Collect, Register, RecordResearch, FinishRun, BeginForward,
         RecordForward, RecordMutation, AttemptError, RecordFailure, Unmark,
         Terminate, Kill, RaiseLimit, Turn, ledger, session
<1>3. pc' \in Sessions => pc \in Sessions
  BY <1>1 DEF PCs, Sessions, Attempting, UnwindsTo, Next, Work, StartWorker, RecoverRecord, RecoverDrop,
         Recovered, NextSession, BeginRefused, Resolve, Seed, Think, Validate,
         RecordSidecar, Unpublish, Publish, ValidateFails, TestFails, Deadline,
         Collect, Register, RecordResearch, FinishRun, BeginForward,
         RecordForward, RecordMutation, AttemptError, RecordFailure, Unmark,
         Terminate, Kill, RaiseLimit, Turn, ledger, session
<1>4. pc' = "completing" => pc = "completing" \/ Register
  BY <1>1 DEF PCs, Sessions, Attempting, UnwindsTo, Next, Work, StartWorker, RecoverRecord, RecoverDrop,
         Recovered, NextSession, BeginRefused, Resolve, Seed, Think, Validate,
         RecordSidecar, Unpublish, Publish, ValidateFails, TestFails, Deadline,
         Collect, Register, RecordResearch, FinishRun, BeginForward,
         RecordForward, RecordMutation, AttemptError, RecordFailure, Unmark,
         Terminate, Kill, RaiseLimit, Turn, ledger, session
<1> QED BY <1>2, <1>3, <1>4

\* A row added to the record is the step after the last.
LEMMA RowAdded ==
    ASSUME TypeOK, CountInv, Test \/ CompleteRow
    PROVE  /\ pc \in Sessions /\ known < N /\ Len(tests) = known
           /\ known' = known + 1 /\ Len(tests') = known'
           /\ \A i \in 1 .. Len(tests) : tests'[i] = tests[i]
           /\ tests'[known'].step = known'
<1>1. PICK row \in [step : {NextStep}, cand : Nat,
                    source : {"test", "host_completion"}, run : Runs] :
        tests' = Append(tests, row)
  <2>1. CASE Test
    <3>1. PICK i \in DOMAIN steps :
            tests' = Append(tests, [step |-> NextStep, cand |-> steps[i],
                                    source |-> "test", run |-> run])
      BY <2>1 DEF Test
    <3>2. steps[i] \in Nat /\ run \in Runs
      BY <2>1, <3>1, RunIsKnown
         DEF TypeOK, SessionType, Test, Turn, Attempting, Sessions
    <3> QED BY <3>1, <3>2
  <2>2. CASE CompleteRow
    <3>1. nominee \in Nat /\ run \in Runs
      BY <2>2, RunIsKnown
         DEF TypeOK, EndingType, CompleteRow, Attempting, Sessions
    <3> QED BY <2>2, <3>1 DEF CompleteRow
  <2> QED BY <2>1, <2>2
<1>2. tests \in Seq(TestRows) /\ known \in Nat /\ N \in Nat
  BY ConstantsAssumption DEF TypeOK, LedgerType, SessionType
<1>3. pc \in Sessions /\ known' = known + 1
  BY DEF Test, CompleteRow, Turn, Sessions
<1>4. Len(tests) = known /\ known < N
  BY <1>2, <1>3 DEF CountInv, Test, CompleteRow
<1>5. row.step = known + 1
  BY DEF NextStep
<1>6. /\ Len(tests') = known + 1
      /\ \A i \in 1 .. Len(tests) : tests'[i] = tests[i]
      /\ tests'[known + 1] = row
  BY <1>1, <1>2, <1>4
<1> QED BY <1>3, <1>4, <1>5, <1>6

\* Every step keeps the session's count equal to the ledger's.
LEMMA CountKept == TypeOK /\ CountInv /\ Next => CountInv'
<1> SUFFICES ASSUME TypeOK, CountInv, Next PROVE CountInv'
  OBVIOUS
<1>1. N \in Nat /\ known \in Nat /\ Len(tests) \in Nat
  BY ConstantsAssumption DEF TypeOK, SessionType, LedgerType
<1>2. CASE Test \/ CompleteRow
  <2>1. /\ known < N /\ Len(tests) = known
        /\ known' = known + 1 /\ Len(tests') = known'
    BY <1>2, RowAdded
  <2>2. pc' = "completing" => known + 1 < N
    BY <1>2 DEF Test, CompleteRow, Turn
  <2> QED BY <1>1, <2>1, <2>2 DEF CountInv
<1>3. CASE BeginResearch
  BY <1>1, <1>3 DEF BeginResearch, CountInv, TestsOnRecord, ledger
<1>4. CASE Register
  BY <1>1, <1>4 DEF Register, CountInv, HostCompletes, session, ledger, Sessions
<1>5. CASE ~(Test \/ CompleteRow \/ BeginResearch \/ Register)
  BY <1>5, OtherStep DEF CountInv, Sessions
<1> QED BY <1>2, <1>3, <1>4, <1>5

\* The row a test or the host adds is the record's next step.
LEMMA ContiguousKept ==
    TypeOK /\ CountInv /\ RecordContiguous /\ Next => RecordContiguous'
<1> SUFFICES ASSUME TypeOK, CountInv, RecordContiguous, Next
             PROVE  RecordContiguous'
  OBVIOUS
<1>1. tests \in Seq(TestRows) /\ tests' \in Seq(TestRows) /\ known \in Nat
  BY LedgerTypeKept DEF TypeOK, LedgerType, SessionType
<1>2. CASE Test \/ CompleteRow
  <2>1. /\ Len(tests) = known /\ known' = known + 1 /\ Len(tests') = known'
        /\ \A i \in 1 .. Len(tests) : tests'[i] = tests[i]
        /\ tests'[known'].step = known'
    BY <1>2, RowAdded
  <2>2. ASSUME NEW i \in 1 .. known + 1 PROVE tests'[i].step = i
    <3>1. CASE i = known + 1
      BY <2>1, <3>1
    <3>2. CASE i # known + 1
      <4>1. i \in 1 .. Len(tests) /\ i \in DOMAIN tests
        BY <1>1, <2>1, <3>2
      <4> QED BY <2>1, <4>1 DEF RecordContiguous
    <3> QED BY <3>1, <3>2
  <2>3. DOMAIN tests' = 1 .. known + 1
    BY <1>1, <2>1
  <2> QED BY <2>2, <2>3 DEF RecordContiguous
<1>3. CASE ~Test /\ ~CompleteRow
  <2>1. tests' = tests
    BY <1>3, OtherStep DEF BeginResearch, ledger
  <2> QED BY <2>1 DEF RecordContiguous
<1> QED BY <1>2, <1>3

\* A registered candidate is what the record's last step replayed: the last
\* test's, or the one the host goes on to replay.
LEMMA NomineeKept ==
    ASSUME TypeOK, CountInv, ClosingInv, NomineeInv, Next
    PROVE  NomineeInv'
<1>1. N \in Nat \ {0} /\ tests \in Seq(TestRows) /\ known \in Nat
        /\ pc \in PCs /\ after \in {"keep", "session", "closing", "collected"}
        /\ outcome \in {"open", "completed", "deadline", "environment_blocked"}
  BY ConstantsAssumption
     DEF TypeOK, LedgerType, SessionType, WorkerType, EndingType
<1>2. CASE Test
  <2>1. PICK i \in DOMAIN steps :
          /\ tests' = Append(tests, [step |-> NextStep, cand |-> steps[i],
                                     source |-> "test", run |-> run])
          /\ IF known + 1 = N
             THEN outcome' = "completed" /\ nominee' = steps[i] /\ pc' = "closing"
             ELSE UNCHANGED <<outcome, nominee, pc>>
    BY <1>2 DEF Test
  <2>2. Len(tests) = known /\ pc = "session"
    BY <1>2, RowAdded DEF Test, Turn
  <2>3. CASE known + 1 = N
    <3>1. Len(tests') = N /\ tests'[N].cand = steps[i]
      BY <1>1, <2>1, <2>2, <2>3
    <3> QED BY <2>1, <2>3, <3>1 DEF NomineeInv
  <2>4. CASE known + 1 # N
    <3>1. UNCHANGED <<outcome, nominee, pc>>
      BY <2>1, <2>4
    <3>2. outcome # "completed"
      BY <1>1, <1>2, <2>2 DEF NomineeInv, Test, Sessions
    <3> QED BY <2>2, <3>1, <3>2 DEF NomineeInv
  <2> QED BY <2>3, <2>4
<1>3. CASE CompleteRow
  <2>1. /\ Len(tests) = known /\ known < N /\ pc = "completing"
        /\ Len(tests') = known + 1
    BY <1>3, RowAdded DEF CompleteRow
  <2>2. tests'[known + 1].cand = nominee
    BY <1>1, <1>3, <2>1 DEF CompleteRow
  <2>3. outcome # "completed" /\ nominee # None
    BY <1>1, <2>1 DEF NomineeInv, Sessions
  <2>4. /\ outcome' = outcome /\ nominee' = nominee
        /\ pc' = IF known + 1 < N THEN "completing" ELSE "record"
    BY <1>3 DEF CompleteRow, ending
  <2>5. pc' = "record" => known + 1 = N
    BY <1>1, <2>1, <2>4
  <2> QED BY <2>1, <2>2, <2>3, <2>4, <2>5 DEF NomineeInv, None
<1>4. CASE BeginResearch
  BY <1>4 DEF BeginResearch, NomineeInv
<1>5. CASE Register
  <2>1. /\ pc = "collected" /\ tests' = tests /\ outcome' = outcome
        /\ pc' \in {"failing", "completing", "record"}
    BY <1>5 DEF Register, ledger
  <2>2. CASE pc' = "failing"
    BY <2>2 DEF NomineeInv, Sessions
  <2>3. CASE pc' # "failing"
    <3>1. /\ nominee' = IF outcome = "environment_blocked" THEN None
                        ELSE Candidate
          /\ pc' = IF HostCompletes(nominee') THEN "completing" ELSE "record"
      BY <1>5, <2>1, <2>3 DEF Register
    <3>2. CASE outcome = "completed"
      <4>1. Len(tests) = N /\ tests[N].cand = nominee
        BY <2>1, <3>2 DEF NomineeInv, Sessions
      <4>2. nominee' = nominee /\ pc' = "record"
        BY <3>1, <3>2 DEF Candidate, HostCompletes
      <4> QED BY <2>1, <4>1, <4>2 DEF NomineeInv
    <3>3. CASE outcome = "environment_blocked"
      <4>1. nominee' = None /\ pc' = "record"
        BY <3>1, <3>3 DEF HostCompletes
      <4> QED BY <2>1, <3>3, <4>1 DEF NomineeInv, None
    <3>4. CASE outcome = "deadline"
      <4>1. pc' = "completing" => nominee' # None
        BY <3>1 DEF HostCompletes
      <4>2. pc' = "record" /\ nominee' # None
              => Len(tests) = N /\ tests[N].cand = nominee'
        <5>1. SUFFICES ASSUME pc' = "record", nominee' # None
                       PROVE  Len(tests) = N /\ tests[N].cand = nominee'
          OBVIOUS
        <5>2. ~(Len(tests) < N) /\ Len(tests) <= N
          BY <3>1, <3>4, <5>1 DEF HostCompletes, CountInv
        <5>3. Len(tests) = N /\ tests # <<>>
          BY <1>1, <5>2
        <5> QED BY <3>1, <3>4, <5>3 DEF Candidate
      <4> QED BY <2>1, <3>4, <4>1, <4>2 DEF NomineeInv, None
    <3>5. outcome # "open"
      BY <2>1 DEF ClosingInv
    <3> QED BY <1>1, <3>2, <3>3, <3>4, <3>5
  <2> QED BY <2>2, <2>3
<1>6. CASE ~(Test \/ CompleteRow \/ BeginResearch \/ Register)
  <2>1. tests' = tests /\ (pc' \in Sessions => pc \in Sessions)
    BY <1>6, OtherStep
  <2>2. pc' = "completing" => pc = "completing"
    BY <1>6, OtherStep
  <2>3. pc' \in {"completing", "record"} => pc' = pc /\ nominee' = nominee
    BY <1>1, <1>6 DEF Attempting, Sessions, UnwindsTo,
         Next, Work, StartWorker,
         RecoverRecord, RecoverDrop, Recovered, NextSession, BeginRefused,
         Resolve, Seed, Think, Validate, RecordSidecar,
         Unpublish, Publish, ValidateFails, TestFails, Deadline, Collect,
         RecordResearch, FinishRun, BeginForward,
         RecordForward, RecordMutation, AttemptError, RecordFailure, Unmark,
         Terminate, Kill, RaiseLimit, Turn, ending
  <2>4. pc' \in Sessions /\ outcome' = "completed"
          => outcome = "completed" /\ nominee' = nominee
    BY <1>1, <1>6 DEF Attempting, Sessions, UnwindsTo,
         Next, Work, StartWorker,
         RecoverRecord, RecoverDrop, Recovered, NextSession, BeginRefused,
         Resolve, Seed, Think, Validate, RecordSidecar,
         Unpublish, Publish, ValidateFails, TestFails, Deadline, Collect,
         RecordResearch, FinishRun, BeginForward,
         RecordForward, RecordMutation, AttemptError, RecordFailure, Unmark,
         Terminate, Kill, RaiseLimit, Turn, ending
  <2> QED BY <2>1, <2>2, <2>3, <2>4 DEF NomineeInv, None
<1> QED BY <1>2, <1>3, <1>4, <1>5, <1>6

\* A registration is written from a nominee that has the whole record.
LEMMA RegisteredKept ==
    ASSUME TypeOK, StageInv, CountInv, NomineeInv, RegisteredOnFullRecord, Next
    PROVE  RegisteredOnFullRecord'
<1>1. N \in Nat /\ research \in Seq([run : Runs, registered : Nat,
                end : {"none", "no_deliverable", "environment_blocked"}])
  BY ConstantsAssumption DEF TypeOK, LedgerType
<1>2. CASE RecordResearch
  <2>1. /\ research' = Append(research, [run |-> run, registered |-> nominee,
                                         end |-> EndStatus])
        /\ tests' = tests /\ pc = "record"
    BY <1>2 DEF RecordResearch
  <2>2. nominee # None => Len(tests) = N /\ tests[N].cand = nominee
    BY <2>1 DEF NomineeInv
  <2>3. research = <<>>
    BY <2>1 DEF StageInv, Sessions
  <2>4. DOMAIN research' = {1} /\ research'[1].registered = nominee
    BY <2>1, <2>3
  <2> QED BY <2>1, <2>2, <2>4 DEF RegisteredOnFullRecord, None
<1>3. CASE Test \/ CompleteRow
  <2>1. research' = research /\ pc \in Sessions
    BY <1>3 DEF Test, CompleteRow, Turn, Sessions
  <2>2. research = <<>>
    BY <2>1 DEF StageInv
  <2> QED BY <2>1, <2>2 DEF RegisteredOnFullRecord
<1>4. CASE ~(RecordResearch \/ Test \/ CompleteRow)
  <2>1. research' = research /\ tests' = tests
    BY <1>4, LedgerWriters DEF LedgerWrite, ledger, RecoverRecord,
       RecordForward, RecordMutation, RecordFailure
  <2> QED BY <2>1 DEF RegisteredOnFullRecord, None
<1> QED BY <1>2, <1>3, <1>4

\* The invariant holds initially and every step keeps it.
THEOREM Inductive == Spec => []IInv
<1>1. Init => IInv
  <2> SUFFICES ASSUME Init PROVE StageInv /\ CountInv /\ ClosingInv
                 /\ NomineeInv /\ RecordContiguous /\ RegisteredOnFullRecord
    BY TypeOnInit DEF IInv
  <2>1. N \in Nat /\ Len(tests) = 0
    BY ConstantsAssumption DEF Init
  <2> QED BY <2>1 DEF Init, StageInv, CountInv, ClosingInv, NomineeInv,
          RecordContiguous, RegisteredOnFullRecord, Sessions, None
<1>2. IInv /\ [Next]_vars => IInv'
  <2>1. IInv /\ Next => IInv'
    <3> SUFFICES ASSUME IInv, Next PROVE IInv'
      OBVIOUS
    <3>1. TypeOK'
      BY TypeOnStep DEF IInv
    <3>2. StageInv' /\ CountInv' /\ ClosingInv'
      BY StageKept, CountKept, ClosingKept DEF IInv
    <3>3. NomineeInv'
      BY NomineeKept DEF IInv
    <3>4. RecordContiguous' /\ RegisteredOnFullRecord'
      BY ContiguousKept, RegisteredKept DEF IInv
    <3> QED BY <3>1, <3>2, <3>3, <3>4 DEF IInv
  <2>2. IInv /\ UNCHANGED vars => IInv'
    <3> SUFFICES ASSUME IInv, UNCHANGED vars PROVE IInv'
      OBVIOUS
    <3>1. TypeOK'
      BY TypeOnStep DEF IInv
    <3>2. StageInv' /\ CountInv' /\ ClosingInv' /\ NomineeInv'
            /\ RecordContiguous' /\ RegisteredOnFullRecord'
      BY DEF IInv, vars, ledger, session, ending, StageInv, CountInv,
         ClosingInv, NomineeInv, RecordContiguous, RegisteredOnFullRecord, None
    <3> QED BY <3>1, <3>2 DEF IInv
  <2> QED BY <2>1, <2>2
<1> QED BY <1>1, <1>2, PTL DEF Spec

\* The validation record is 1..k in order, however many attempts, crashes and
\* host completions wrote it.
THEOREM RecordIsContiguous == Spec => []RecordContiguous
<1>1. IInv => RecordContiguous
  BY DEF IInv
<1> QED BY <1>1, Inductive, PTL

\* A registration stands on all N steps, and is of the candidate the last of
\* them replayed.
THEOREM RegistrationOnFullRecord == Spec => []RegisteredOnFullRecord
<1>1. IInv => RegisteredOnFullRecord
  BY DEF IInv
<1> QED BY <1>1, Inductive, PTL

-----------------------------------------------------------------------------
(* The logs. *)

Distinct(log) == \A i, j \in DOMAIN log : log[i].run = log[j].run => i = j

LEMMA RowAppended ==
    ASSUME NEW S, NEW log \in Seq(S), NEW row \in S
    PROVE  /\ DOMAIN Append(log, row) = 1 .. Len(log) + 1
           /\ \A i \in DOMAIN log : i \in 1 .. Len(log) /\ Append(log, row)[i] = log[i]
           /\ Append(log, row)[Len(log) + 1] = row
           /\ RunsIn(Append(log, row)) = RunsIn(log) \cup {row.run}
<1>1. /\ Len(log) \in Nat /\ DOMAIN log = 1 .. Len(log)
      /\ DOMAIN Append(log, row) = 1 .. Len(log) + 1
      /\ \A i \in 1 .. Len(log) : Append(log, row)[i] = log[i]
      /\ Append(log, row)[Len(log) + 1] = row
  OBVIOUS
<1>2. 1 .. Len(log) + 1 = (1 .. Len(log)) \cup {Len(log) + 1}
  BY <1>1
<1>3. RunsIn(Append(log, row)) = RunsIn(log) \cup {row.run}
  <2> DEFINE new == Append(log, row)
  <2>1. /\ DOMAIN new = DOMAIN log \cup {Len(log) + 1}
        /\ \A i \in DOMAIN log : new[i] = log[i]
        /\ new[Len(log) + 1] = row
    BY <1>1, <1>2, Zenon
  <2> HIDE DEF new
  <2>2. \A r \in RunsIn(new) : r \in RunsIn(log) \cup {row.run}
    BY <2>1 DEF RunsIn
  <2>3. \A r \in RunsIn(log) \cup {row.run} : r \in RunsIn(new)
    BY <2>1 DEF RunsIn
  <2>4. RunsIn(new) = RunsIn(log) \cup {row.run}
    BY <2>2, <2>3
  <2> QED BY <2>4 DEF new
<1> QED BY <1>1, <1>3

LEMMA StillDistinct ==
    ASSUME NEW S, NEW log \in Seq(S), NEW row \in S, Distinct(log),
           row.run \notin RunsIn(log)
    PROVE  Distinct(Append(log, row))
<1>1. /\ DOMAIN Append(log, row) = 1 .. Len(log) + 1 /\ Len(log) \in Nat
      /\ DOMAIN log = 1 .. Len(log)
      /\ \A i \in DOMAIN log : Append(log, row)[i] = log[i]
      /\ Append(log, row)[Len(log) + 1] = row
  BY RowAppended
<1> DEFINE new == Append(log, row)
<1> HIDE DEF new
<1>2. \A i \in 1 .. Len(log) : log[i].run # row.run
  BY <1>1 DEF RunsIn
<1>3. ASSUME NEW i \in 1 .. Len(log) + 1, NEW j \in 1 .. Len(log) + 1,
             new[i].run = new[j].run
      PROVE  i = j
  <2>1. i \in 1 .. Len(log) \/ i = Len(log) + 1
    BY <1>1
  <2>2. j \in 1 .. Len(log) \/ j = Len(log) + 1
    BY <1>1
  <2> QED BY <1>1, <1>2, <1>3, <2>1, <2>2 DEF Distinct, new
<1> QED BY <1>1, <1>3 DEF Distinct, new

-----------------------------------------------------------------------------
(* The invariant of the runs.  A run that is at work has no outcome yet, and *)
(* one that is about to drop its marker has one.                             *)

Outcomes == RunsIn(failed) \cup RunsIn(research) \cup RunsIn(forwards)
AtWork   == Attempting \/ pc = "failing"

RunInv ==
    /\ AtWork => run \in 1 .. lastRun /\ run \notin Outcomes
    /\ pc \in {"finish", "unmark"} => run \in Outcomes
    /\ Recorded \subseteq 1 .. lastRun
    /\ \A m \in markers : m.run \in 1 .. lastRun

Disjoint ==
    /\ RunsIn(failed) \cap RunsIn(research) = {}
    /\ RunsIn(failed) \cap RunsIn(forwards) = {}
    /\ RunsIn(research) \cap RunsIn(forwards) = {}

LogRow == [run : Runs, registered : Nat,
           end : {"none", "no_deliverable", "environment_blocked"}]
ReadingRow == [run : Runs, status : {"ok", "strategy_error", "integrity_failure"}]

\* What a row adds to the runs the ledger names.
LEMMA LedgerGrows ==
    ASSUME TypeOK, RunInv, Next
    PROVE  \/ UNCHANGED <<failed, research, forwards>>
              /\ RunsIn(tests') \subseteq RunsIn(tests) \cup {run}
              /\ (tests' # tests => AtWork)
           \/ /\ RecoverRecord /\ UNCHANGED <<tests, research, forwards>>
              /\ \E m \in markers : /\ m.run \notin Recorded
                                    /\ RunsIn(failed') = RunsIn(failed) \cup {m.run}
                                    /\ Distinct(failed) => Distinct(failed')
           \/ /\ RecordFailure /\ UNCHANGED <<tests, research, forwards>>
              /\ RunsIn(failed') = RunsIn(failed) \cup {run}
              /\ Distinct(failed) => Distinct(failed')
           \/ /\ RecordResearch /\ UNCHANGED <<tests, failed, forwards>>
              /\ RunsIn(research') = RunsIn(research) \cup {run}
              /\ Distinct(research) => Distinct(research')
           \/ /\ RecordForward \/ RecordMutation
              /\ UNCHANGED <<tests, failed, research>>
              /\ RunsIn(forwards') = RunsIn(forwards) \cup {run}
              /\ Distinct(forwards) => Distinct(forwards')
<1>1. /\ tests \in Seq(TestRows) /\ failed \in Seq(Attempt)
      /\ research \in Seq(LogRow) /\ forwards \in Seq(ReadingRow)
  BY DEF TypeOK, LedgerType, LogRow, ReadingRow
<1>2. CASE RecoverRecord
  <2>1. PICK m \in markers : /\ m.run \notin Recorded
                             /\ failed' = Append(failed, [run |-> m.run, phase |-> m.phase])
    BY <1>2 DEF RecoverRecord
  <2>2. [run |-> m.run, phase |-> m.phase] \in Attempt
    BY DEF TypeOK, DiskType, Attempt
  <2>3. m.run \notin RunsIn(failed)
    BY <2>1 DEF Recorded
  <2>4. RunsIn(failed') = RunsIn(failed) \cup {m.run}
    BY <1>1, <2>1, <2>2, RowAppended
  <2>5. Distinct(failed) => Distinct(failed')
    BY <1>1, <2>1, <2>2, <2>3, StillDistinct
  <2> QED BY <1>2, <2>1, <2>4, <2>5 DEF RecoverRecord
<1>3. CASE RecordFailure
  <2>1. [run |-> run, phase |-> phase] \in Attempt /\ run \notin RunsIn(failed)
    BY <1>3, RunIsKnown DEF RecordFailure, TypeOK, WorkerType, Attempt, RunInv, AtWork, Outcomes
  <2>2. failed' = Append(failed, [run |-> run, phase |-> phase])
    BY <1>3 DEF RecordFailure
  <2>3. RunsIn(failed') = RunsIn(failed) \cup {run}
    BY <1>1, <2>1, <2>2, RowAppended
  <2>4. Distinct(failed) => Distinct(failed')
    BY <1>1, <2>1, <2>2, StillDistinct
  <2> QED BY <1>3, <2>3, <2>4 DEF RecordFailure
<1>4. CASE RecordResearch
  <2> DEFINE row == [run |-> run, registered |-> nominee, end |-> EndStatus]
  <2>1. row \in LogRow /\ run \notin RunsIn(research)
    BY <1>4, RunIsKnown DEF RecordResearch, TypeOK, EndingType, EndStatus, LogRow,
       RunInv, AtWork, Attempting, Sessions, Outcomes
  <2>2. research' = Append(research, row)
    BY <1>4 DEF RecordResearch
  <2>3. RunsIn(research') = RunsIn(research) \cup {run}
    BY <1>1, <2>1, <2>2, RowAppended
  <2>4. Distinct(research) => Distinct(research')
    BY <1>1, <2>1, <2>2, StillDistinct
  <2> QED BY <1>4, <2>3, <2>4 DEF RecordResearch
<1>5. CASE RecordForward \/ RecordMutation
  <2>1. run \in Runs /\ run \notin RunsIn(forwards)
    BY <1>5, RunIsKnown DEF RecordForward, RecordMutation, RunInv, AtWork, Attempting, Outcomes
  <2>2. PICK s \in {"ok", "strategy_error", "integrity_failure"} :
          forwards' = Append(forwards, [run |-> run, status |-> s])
    BY <1>5 DEF RecordForward, RecordMutation
  <2>3. [run |-> run, status |-> s] \in ReadingRow
    BY <2>1 DEF ReadingRow
  <2>4. RunsIn(forwards') = RunsIn(forwards) \cup {run}
    BY <1>1, <2>2, <2>3, RowAppended
  <2>5. Distinct(forwards) => Distinct(forwards')
    BY <1>1, <2>1, <2>2, <2>3, StillDistinct
  <2> QED BY <1>5, <2>4, <2>5 DEF RecordForward, RecordMutation
<1>6. CASE Test
  <2>1. run \in Runs /\ AtWork
    BY <1>6, RunIsKnown DEF Test, Turn, Attempting, Sessions, AtWork
  <2>2. PICK i \in DOMAIN steps :
          tests' = Append(tests, [step |-> NextStep, cand |-> steps[i],
                                  source |-> "test", run |-> run])
    BY <1>6 DEF Test
  <2>3. [step |-> NextStep, cand |-> steps[i], source |-> "test", run |-> run] \in TestRows
    BY <2>1 DEF TestRows, NextStep, TypeOK, SessionType
  <2>4. RunsIn(tests') = RunsIn(tests) \cup {run}
    BY <1>1, <2>2, <2>3, RowAppended
  <2> QED BY <1>6, <2>1, <2>4 DEF Test
<1>7. CASE CompleteRow
  <2>1. run \in Runs /\ AtWork
    BY <1>7, RunIsKnown DEF CompleteRow, Attempting, Sessions, AtWork
  <2>2. [step |-> NextStep, cand |-> nominee, source |-> "host_completion", run |-> run]
          \in TestRows
    BY <2>1 DEF TestRows, NextStep, TypeOK, SessionType, EndingType
  <2>3. tests' = Append(tests, [step |-> NextStep, cand |-> nominee,
                                source |-> "host_completion", run |-> run])
    BY <1>7 DEF CompleteRow
  <2>4. RunsIn(tests') = RunsIn(tests) \cup {run}
    BY <1>1, <2>2, <2>3, RowAppended
  <2> QED BY <1>7, <2>1, <2>4 DEF CompleteRow
<1>8. CASE UNCHANGED ledger
  BY <1>8 DEF ledger
<1> QED BY <1>2, <1>3, <1>4, <1>5, <1>6, <1>7, <1>8, LedgerWriters DEF LedgerWrite

\* A run id is given out only with a marker.
LEMMA RunWriters ==
    Next => \/ /\ BeginResearch \/ BeginForward
               /\ run' = lastRun + 1 /\ lastRun' = lastRun + 1
               /\ UNCHANGED ledger /\ pc' \in {"resolve", "replay"}
               /\ \E p \in {"research", "forward"} :
                    markers' = markers \cup {[run |-> lastRun + 1, phase |-> p]}
            \/ run' = run /\ lastRun' = lastRun
  BY DEF Next, Work, ledger, history, StartWorker, RecoverRecord,
         RecoverDrop, Recovered, NextSession, BeginRefused, BeginResearch,
         Resolve, Seed, Think, Validate, RecordSidecar, Unpublish, Publish,
         ValidateFails, Test, TestFails, Deadline, Collect, Register,
         CompleteRow, RecordResearch, FinishRun, BeginForward, RecordForward,
         RecordMutation, AttemptError, RecordFailure, Unmark, Terminate, Kill,
         RaiseLimit

\* A run at work stays the run at work until its record or its failure; only
\* those come to drop its marker.
LEMMA RunEnds ==
    TypeOK /\ Next =>
        /\ AtWork' => AtWork \/ BeginResearch \/ BeginForward
        /\ pc' = "unmark" => RecordFailure
        /\ pc' = "finish" =>
             \/ pc = "finish" \/ RecordResearch \/ RecordForward
             \/ RecordMutation
<1> SUFFICES ASSUME TypeOK, Next
             PROVE  /\ AtWork' => AtWork \/ BeginResearch \/ BeginForward
                    /\ pc' = "unmark" => RecordFailure
                    /\ pc' = "finish" => \/ pc = "finish" \/ RecordResearch
                                         \/ RecordForward \/ RecordMutation
  OBVIOUS
<1>1. pc \in PCs /\ after \in {"keep", "session", "closing", "collected"}
  BY DEF TypeOK, WorkerType, EndingType
<1>2. AtWork' => AtWork \/ BeginResearch \/ BeginForward
  <2>1. CASE RecoverRecord \/ RecoverDrop \/ Recovered \/ NextSession \/ BeginRefused \/
            BeginResearch \/ Resolve \/ Seed \/ Think \/ Validate \/ RecordSidecar \/
            Unpublish \/ Publish
    BY <1>1, <2>1 DEF AtWork, Attempting, PCs, Sessions, RecoverRecord, RecoverDrop,
       Recovered, NextSession, BeginRefused, BeginResearch, Resolve, Seed, Think,
       Validate, RecordSidecar, Unpublish, Publish, ending, Turn, UnwindsTo
  <2>2. CASE ValidateFails \/ Test \/ TestFails \/ Deadline \/ Collect \/ Register \/
            CompleteRow \/ RecordResearch \/ FinishRun \/ BeginForward \/ RecordForward
            \/ RecordMutation \/ RecordFailure \/ Unmark
    BY <1>1, <2>2 DEF AtWork, Attempting, PCs, Sessions, ValidateFails, Test, TestFails,
       Deadline, Collect, Register, CompleteRow, RecordResearch, FinishRun,
       BeginForward, RecordForward, RecordMutation, RecordFailure, Unmark, Turn,
       UnwindsTo, ending
  <2>3. CASE StartWorker \/ AttemptError \/ Terminate \/ Kill \/ RaiseLimit
    BY <1>1, <2>3 DEF AtWork, Attempting, PCs, Sessions, StartWorker, AttemptError,
       Terminate, Kill, RaiseLimit, UnwindsTo, ending, Turn
  <2> QED BY <2>1, <2>2, <2>3, Zenon DEF Next, Work
<1>3. pc' = "unmark" => RecordFailure
  <2>1. CASE RecoverRecord \/ RecoverDrop \/ Recovered \/ NextSession \/ BeginRefused \/
            BeginResearch \/ Resolve \/ Seed \/ Think \/ Validate \/ RecordSidecar \/
            Unpublish \/ Publish
    BY <1>1, <2>1 DEF Attempting, PCs, Sessions, RecoverRecord, RecoverDrop, Recovered,
       NextSession, BeginRefused, BeginResearch, Resolve, Seed, Think, Validate,
       RecordSidecar, Unpublish, Publish, ending, Turn, UnwindsTo
  <2>2. CASE ValidateFails \/ Test \/ TestFails \/ Deadline \/ Collect \/ Register \/
            CompleteRow \/ RecordResearch \/ FinishRun \/ BeginForward \/ RecordForward
            \/ RecordMutation \/ RecordFailure \/ Unmark
    BY <1>1, <2>2 DEF Attempting, PCs, Sessions, ValidateFails, Test, TestFails,
       Deadline, Collect, Register, CompleteRow, RecordResearch, FinishRun,
       BeginForward, RecordForward, RecordMutation, RecordFailure, Unmark, Turn,
       UnwindsTo, ending
  <2>3. CASE StartWorker \/ AttemptError \/ Terminate \/ Kill \/ RaiseLimit
    BY <1>1, <2>3 DEF Attempting, PCs, Sessions, StartWorker, AttemptError, Terminate,
       Kill, RaiseLimit, UnwindsTo, ending, Turn
  <2> QED BY <2>1, <2>2, <2>3, Zenon DEF Next, Work
<1>4. pc' = "finish" => \/ pc = "finish" \/ RecordResearch
                       \/ RecordForward \/ RecordMutation
  <2>1. CASE RecoverRecord \/ RecoverDrop \/ Recovered \/ NextSession \/ BeginRefused \/
            BeginResearch \/ Resolve \/ Seed \/ Think \/ Validate \/ RecordSidecar \/
            Unpublish \/ Publish
    BY <1>1, <2>1 DEF Attempting, PCs, Sessions, RecoverRecord, RecoverDrop, Recovered,
       NextSession, BeginRefused, BeginResearch, Resolve, Seed, Think, Validate,
       RecordSidecar, Unpublish, Publish, ending, Turn, UnwindsTo
  <2>2. CASE ValidateFails \/ Test \/ TestFails \/ Deadline \/ Collect \/ Register \/
            CompleteRow \/ RecordResearch \/ FinishRun \/ BeginForward \/ RecordForward
            \/ RecordMutation \/ RecordFailure \/ Unmark
    BY <1>1, <2>2 DEF Attempting, PCs, Sessions, ValidateFails, Test, TestFails,
       Deadline, Collect, Register, CompleteRow, RecordResearch, FinishRun,
       BeginForward, RecordForward, RecordMutation, RecordFailure, Unmark, Turn,
       UnwindsTo, ending
  <2>3. CASE StartWorker \/ AttemptError \/ Terminate \/ Kill \/ RaiseLimit
    BY <1>1, <2>3 DEF Attempting, PCs, Sessions, StartWorker, AttemptError, Terminate,
       Kill, RaiseLimit, UnwindsTo, ending, Turn
  <2> QED BY <2>1, <2>2, <2>3, Zenon DEF Next, Work
<1> QED BY <1>2, <1>3, <1>4

\* Who drops or tears markers.
LEMMA MarkerWriters ==
    Next => \/ BeginResearch \/ BeginForward
            \/ markers' = markers
            \/ RecoverDrop /\ UNCHANGED <<ledger, run, lastRun>>
            \/ (FinishRun \/ Unmark) /\ UNCHANGED <<ledger, run, lastRun>>
            \/ /\ Kill /\ UNCHANGED <<ledger, run, lastRun>>
               /\ markers' = { [m EXCEPT !.phase = "unknown"] : m \in markers }
  BY DEF Next, Work, ledger, history, StartWorker, RecoverRecord,
         RecoverDrop, Recovered, NextSession, BeginRefused, BeginResearch,
         Resolve, Seed, Think, Validate, RecordSidecar, Unpublish, Publish,
         ValidateFails, Test, TestFails, Deadline, Collect, Register,
         CompleteRow, RecordResearch, FinishRun, BeginForward, RecordForward,
         RecordMutation, AttemptError, RecordFailure, Unmark, Terminate, Kill,
         RaiseLimit

\* The runs named by markers after a step.
LEMMA MarkedRuns ==
    ASSUME TypeOK, Next
    PROVE  /\ \A m \in markers' : \/ \E k \in markers : k.run = m.run
                                  \/ /\ BeginResearch \/ BeginForward
                                     /\ m.run = lastRun + 1
           /\ \A m \in markers : \/ \E k \in markers' : k.run = m.run
                                 \/ RecoverDrop /\ m.run \in Recorded
                                 \/ (FinishRun \/ Unmark) /\ m.run = run
           /\ BeginResearch \/ BeginForward =>
                \E k \in markers' : k.run = lastRun + 1
<1>0. BeginResearch \/ BeginForward => \E k \in markers' : k.run = lastRun + 1
  <2> SUFFICES ASSUME BeginResearch \/ BeginForward
               PROVE  \E k \in markers' : k.run = lastRun + 1
    OBVIOUS
  <2>1. PICK p \in {"research", "forward"} :
          markers' = markers \cup {[run |-> lastRun + 1, phase |-> p]}
    BY DEF BeginResearch, BeginForward
  <2>2. [run |-> lastRun + 1, phase |-> p] \in markers'
    BY <2>1
  <2> QED BY <2>2
<1>1. CASE BeginResearch \/ BeginForward
  <2>1. PICK p \in {"research", "forward"} :
          markers' = markers \cup {[run |-> lastRun + 1, phase |-> p]}
    BY <1>1 DEF BeginResearch, BeginForward
  <2> QED BY <1>0, <1>1, <2>1
<1>2. CASE markers' = markers
  BY <1>0, <1>2
<1>3. CASE RecoverDrop
  BY <1>0, <1>3 DEF RecoverDrop, Droppable
<1>4. CASE FinishRun \/ Unmark
  BY <1>0, <1>4 DEF FinishRun, Unmark
<1>5. CASE Kill /\ markers' = { [m EXCEPT !.phase = "unknown"] : m \in markers }
  <2>1. \A m \in markers : [m EXCEPT !.phase = "unknown"].run = m.run
    BY DEF TypeOK, DiskType, Attempt
  <2>2. \A m \in markers' : \E k \in markers : k.run = m.run
    BY <1>5, <2>1, Zenon
  <2>3. \A m \in markers : \E k \in markers' : k.run = m.run
    BY <1>5, <2>1, Zenon
  <2> QED BY <1>0, <2>2, <2>3, Zenon
<1> QED BY <1>1, <1>2, <1>3, <1>4, <1>5, MarkerWriters

-----------------------------------------------------------------------------
\* Every step keeps the runs accounted for.
LEMMA RunKept ==
    ASSUME TypeOK, RunInv, Next
    PROVE  RunInv'
<1>1. lastRun \in Nat
  BY DEF TypeOK, WorkerType
<1>2. CASE BeginResearch \/ BeginForward
  <2>1. /\ run' = lastRun + 1 /\ lastRun' = lastRun + 1
        /\ UNCHANGED ledger /\ pc' \in {"resolve", "replay"}
    BY <1>2 DEF BeginResearch, BeginForward, ledger
  <2>2. Outcomes' = Outcomes /\ Recorded' = Recorded /\ Outcomes \subseteq Recorded
    BY <2>1 DEF ledger, Outcomes, Recorded, RunsIn
  <2>3. Recorded \subseteq 1 .. lastRun
    BY DEF RunInv
  <2>4. lastRun + 1 \notin 1 .. lastRun /\ 1 .. lastRun \subseteq 1 .. lastRun + 1
          /\ lastRun + 1 \in 1 .. lastRun + 1
    BY <1>1
  <2>5. run' \in 1 .. lastRun' /\ run' \notin Outcomes'
    BY <2>1, <2>2, <2>3, <2>4
  <2>6. \A m \in markers' : m.run \in 1 .. lastRun'
    BY <2>1, <2>4, MarkedRuns DEF RunInv
  <2>7. Recorded' \subseteq 1 .. lastRun'
    BY <2>1, <2>2, <2>3, <2>4
  <2> QED BY <2>1, <2>5, <2>6, <2>7 DEF RunInv
<1>3. CASE ~(BeginResearch \/ BeginForward)
  <2>1. run' = run /\ lastRun' = lastRun
    BY <1>3, RunWriters
  <2>2. \A m \in markers' : m.run \in 1 .. lastRun'
    BY <1>3, <2>1, MarkedRuns DEF RunInv
  <2>3. /\ AtWork' => AtWork
        /\ pc' = "unmark" => RecordFailure
        /\ pc' = "finish" => \/ pc = "finish" \/ RecordResearch
                             \/ RecordForward \/ RecordMutation
    BY <1>3, RunEnds
  <2>4. CASE /\ UNCHANGED <<failed, research, forwards>>
             /\ RunsIn(tests') \subseteq RunsIn(tests) \cup {run}
             /\ tests' # tests => AtWork
    <3>1. Outcomes' = Outcomes
      BY <2>4 DEF Outcomes, RunsIn
    <3>2. Recorded' \subseteq 1 .. lastRun'
      <4>1. /\ RunsIn(failed') = RunsIn(failed) /\ RunsIn(research') = RunsIn(research)
            /\ RunsIn(forwards') = RunsIn(forwards)
        BY <2>4, Zenon
      <4>2. CASE AtWork
        <5>1. Recorded' \subseteq Recorded \cup {run}
          BY <2>4, <4>1 DEF Recorded
        <5> QED BY <2>1, <4>2, <5>1, Zenon DEF RunInv
      <4>3. CASE ~AtWork
        <5>1. RunsIn(tests') = RunsIn(tests)
          BY <2>4, <4>3, Zenon
        <5>2. Recorded' = Recorded
          BY <4>1, <5>1, Zenon DEF Recorded
        <5> QED BY <2>1, <5>2, Zenon DEF RunInv
      <4> QED BY <4>2, <4>3
    <3>3. ~RecordFailure /\ ~RecordResearch /\ ~RecordForward /\ ~RecordMutation
      <4>1. \A S : \A log \in Seq(S) : \A r : Append(log, r) # log
        <5> SUFFICES ASSUME NEW S, NEW log \in Seq(S), NEW r, Append(log, r) = log
                     PROVE  FALSE
          OBVIOUS
        <5>1. Len(Append(log, r)) = Len(log) + 1 /\ Len(log) \in Nat
          OBVIOUS
        <5> QED BY <5>1
      <4>2. /\ failed \in Seq(Attempt) /\ research \in Seq(LogRow)
            /\ forwards \in Seq(ReadingRow)
        BY DEF TypeOK, LedgerType, LogRow, ReadingRow
      <4> QED BY <2>4, <4>1, <4>2 DEF RecordFailure, RecordResearch,
              RecordForward, RecordMutation
    <3> QED BY <2>1, <2>2, <2>3, <3>1, <3>2, <3>3 DEF RunInv
  <2>5. CASE /\ RecoverRecord /\ UNCHANGED <<tests, research, forwards>>
             /\ \E m \in markers : /\ m.run \notin Recorded
                                   /\ RunsIn(failed') = RunsIn(failed) \cup {m.run}
    <3>1. pc' = "recovering"
      BY <2>5 DEF RecoverRecord
    <3>2. Recorded' \subseteq 1 .. lastRun'
      BY <2>1, <2>5 DEF Recorded, RunInv, RunsIn
    <3> QED BY <2>1, <2>2, <3>1, <3>2 DEF RunInv, AtWork, Attempting, Sessions
  <2>6. ASSUME RecordFailure \/ RecordResearch \/ RecordForward \/ RecordMutation,
               Outcomes' = Outcomes \cup {run}, RunsIn(tests') = RunsIn(tests)
        PROVE  RunInv'
    <3>1. pc' \in {"finish", "unmark"} /\ AtWork
      BY <2>6 DEF RecordFailure, RecordResearch, RecordForward, RecordMutation,
         AtWork, Attempting, Sessions
    <3>2. Recorded' = Recorded \cup {run}
      BY <2>6 DEF Recorded, Outcomes
    <3>3. Recorded' \subseteq 1 .. lastRun'
      BY <2>1, <3>1, <3>2 DEF RunInv
    <3> QED BY <2>1, <2>2, <2>6, <3>1, <3>3 DEF RunInv, AtWork, Attempting, Sessions
  <2> QED BY <2>4, <2>5, <2>6, LedgerGrows DEF Outcomes
<1> QED BY <1>2, <1>3

RunsOnce == /\ Distinct(failed) /\ Distinct(research) /\ Distinct(forwards)
            /\ Disjoint

\* A row is only ever written for a run that has none.
LEMMA OnceKept ==
    ASSUME TypeOK, RunInv, RunsOnce, Next
    PROVE  RunsOnce'
<1>0. /\ failed' = failed => /\ RunsIn(failed') = RunsIn(failed)
                             /\ Distinct(failed) => Distinct(failed')
      /\ research' = research => /\ RunsIn(research') = RunsIn(research)
                                 /\ Distinct(research) => Distinct(research')
      /\ forwards' = forwards => /\ RunsIn(forwards') = RunsIn(forwards)
                                 /\ Distinct(forwards) => Distinct(forwards')
  BY DEF RunsIn, Distinct
<1>1. CASE UNCHANGED <<failed, research, forwards>>
  BY <1>0, <1>1 DEF RunsOnce, Disjoint
<1>2. CASE /\ UNCHANGED <<tests, research, forwards>>
           /\ \E m \in markers : /\ m.run \notin Recorded
                                 /\ RunsIn(failed') = RunsIn(failed) \cup {m.run}
                                 /\ Distinct(failed) => Distinct(failed')
  <2>1. PICK m \in markers : /\ m.run \notin Recorded
                             /\ RunsIn(failed') = RunsIn(failed) \cup {m.run}
    BY <1>2
  <2>2. m.run \notin RunsIn(research) /\ m.run \notin RunsIn(forwards)
    BY <2>1 DEF Recorded
  <2> QED BY <1>0, <1>2, <2>1, <2>2 DEF RunsOnce, Disjoint
<1>3. CASE /\ RecordFailure /\ UNCHANGED <<tests, research, forwards>>
           /\ RunsIn(failed') = RunsIn(failed) \cup {run}
           /\ Distinct(failed) => Distinct(failed')
  <2>1. run \notin Outcomes
    BY <1>3 DEF RecordFailure, RunInv, AtWork
  <2>2. run \notin RunsIn(failed) /\ run \notin RunsIn(research)
          /\ run \notin RunsIn(forwards)
    BY <2>1 DEF Outcomes
  <2> QED BY <1>0, <1>3, <2>2 DEF RunsOnce, Disjoint
<1>4. CASE /\ RecordResearch /\ UNCHANGED <<tests, failed, forwards>>
           /\ RunsIn(research') = RunsIn(research) \cup {run}
           /\ Distinct(research) => Distinct(research')
  <2>1. run \notin Outcomes
    BY <1>4 DEF RecordResearch, RunInv, AtWork, Attempting, Sessions
  <2>2. run \notin RunsIn(failed) /\ run \notin RunsIn(research)
          /\ run \notin RunsIn(forwards)
    BY <2>1 DEF Outcomes
  <2> QED BY <1>0, <1>4, <2>2 DEF RunsOnce, Disjoint
<1>5. CASE /\ RecordForward \/ RecordMutation
           /\ UNCHANGED <<tests, failed, research>>
           /\ RunsIn(forwards') = RunsIn(forwards) \cup {run}
           /\ Distinct(forwards) => Distinct(forwards')
  <2>1. run \notin Outcomes
    BY <1>5 DEF RecordForward, RecordMutation, RunInv, AtWork, Attempting
  <2>2. run \notin RunsIn(failed) /\ run \notin RunsIn(research)
          /\ run \notin RunsIn(forwards)
    BY <2>1 DEF Outcomes
  <2> QED BY <1>0, <1>5, <2>2 DEF RunsOnce, Disjoint
<1> QED BY <1>1, <1>2, <1>3, <1>4, <1>5, LedgerGrows

\* A marker is dropped only once the ledger names its run.
LEMMA NoneVanishes ==
    ASSUME TypeOK, RunInv, NoRunVanishes, Next
    PROVE  NoRunVanishes'
<1>1. Recorded \subseteq Recorded'
  <2>1. /\ RunsIn(failed) \subseteq RunsIn(failed')
        /\ RunsIn(research) \subseteq RunsIn(research')
        /\ RunsIn(forwards) \subseteq RunsIn(forwards')
    BY LedgerGrows DEF RunsIn
  <2>2. RunsIn(tests) \subseteq RunsIn(tests')
    <3>1. CASE tests' = tests
      BY <3>1 DEF RunsIn
    <3>2. CASE Test
      <4>1. PICK i \in DOMAIN steps :
              tests' = Append(tests, [step |-> NextStep, cand |-> steps[i],
                                      source |-> "test", run |-> run])
        BY <3>2 DEF Test
      <4>2. [step |-> NextStep, cand |-> steps[i], source |-> "test", run |-> run]
              \in TestRows
        BY <3>2, RunIsKnown DEF TestRows, NextStep, TypeOK, SessionType, Test,
           Turn, Attempting, Sessions
      <4> QED BY <4>1, <4>2, RowAppended DEF TypeOK, LedgerType
    <3>3. CASE CompleteRow
      <4>1. [step |-> NextStep, cand |-> nominee, source |-> "host_completion",
             run |-> run] \in TestRows
        BY <3>3, RunIsKnown DEF TestRows, NextStep, TypeOK, SessionType,
           EndingType, CompleteRow, Attempting, Sessions
      <4> QED BY <3>3, <4>1, RowAppended DEF CompleteRow, TypeOK, LedgerType
    <3> QED BY <3>1, <3>2, <3>3, LedgerWriters DEF LedgerWrite, ledger,
            RecoverRecord, RecordResearch, RecordForward, RecordMutation,
            RecordFailure
  <2> QED BY <2>1, <2>2 DEF Recorded
<1>2. ASSUME NEW m \in markers
      PROVE  m.run \in Recorded' \/ \E k \in markers' : k.run = m.run
  <2>1. CASE (FinishRun \/ Unmark) /\ m.run = run
    BY <1>1, <2>1 DEF FinishRun, Unmark, RunInv, Outcomes, Recorded
  <2> QED BY <1>1, <2>1, MarkedRuns
<1>3. ASSUME NEW r \in 1 .. lastRun'
      PROVE  r \in Recorded' \/ \E m \in markers' : m.run = r
  <2>1. lastRun \in Nat
    BY DEF TypeOK, WorkerType
  <2>2. r \in 1 .. lastRun \/ ((BeginResearch \/ BeginForward) /\ r = lastRun + 1)
    BY <2>1, RunWriters
  <2>3. CASE r \in 1 .. lastRun
    BY <1>1, <1>2, <2>3 DEF NoRunVanishes
  <2>4. CASE (BeginResearch \/ BeginForward) /\ r = lastRun + 1
    BY <2>4, MarkedRuns
  <2> QED BY <2>2, <2>3, <2>4
<1> QED BY <1>3 DEF NoRunVanishes

-----------------------------------------------------------------------------
(* The end of an experiment: what an attempt that closes may conclude.       *)

\* An attempt counts the failed ones before it; only a session whose budget
\* ran out is completed by the host; an environment block is recorded by the
\* last attempt, and without a nominee.
BlockInv ==
    /\ pc \in Sessions => attempt = Cardinality(Attempts) + 1
    /\ pc = "completing" => outcome = "deadline"
    /\ pc = "record" /\ outcome = "environment_blocked" =>
         attempt >= MaxAttempts /\ nominee = None

\* A session is entered by BeginResearch alone, and while it lasts no attempt
\* fails and research stays open.
LEMMA InSession ==
    TypeOK /\ Next /\ pc' \in Sessions =>
        \/ BeginResearch
        \/ /\ pc \in Sessions
           /\ UNCHANGED <<attempt, run, failed, research, forwards>>
<1> SUFFICES ASSUME TypeOK, Next, pc' \in Sessions, ~BeginResearch
             PROVE  /\ pc \in Sessions
                    /\ UNCHANGED <<attempt, run, failed, research, forwards>>
  OBVIOUS
<1>1. pc \in Sessions
  BY OtherStep DEF Test, CompleteRow, Turn, Sessions
<1>2. UNCHANGED <<failed, research, forwards>>
  BY LedgerWriters DEF LedgerWrite, ledger, Test, CompleteRow, RecoverRecord,
     RecordResearch, RecordForward, RecordMutation, RecordFailure, Sessions
<1>3. attempt' = attempt
  BY SessionWriters, TurnRemembers DEF SessionWrite, session, Resolve, Publish,
     CompleteRow
<1>4. run' = run
  BY <1>1, RunWriters DEF BeginForward, Sessions
<1> QED BY <1>1, <1>2, <1>3, <1>4

\* Only the registration and the host's rows lead to the research record.
LEMMA ToRecord ==
    TypeOK /\ Next /\ pc' \in {"completing", "record"} => Register \/ CompleteRow
<1> SUFFICES ASSUME TypeOK, Next, pc' \in {"completing", "record"}
             PROVE  Register \/ CompleteRow
  OBVIOUS
<1>1. pc \in PCs /\ after \in {"keep", "session", "closing", "collected"}
  BY DEF TypeOK, WorkerType, EndingType
<1> QED
  BY <1>1 DEF PCs, Attempting, Sessions, UnwindsTo, Next, Work, StartWorker,
         RecoverRecord, RecoverDrop, Recovered, NextSession, BeginRefused,
         BeginResearch, Resolve, Seed, Think, Validate, RecordSidecar,
         Unpublish, Publish, ValidateFails, Test, TestFails, Deadline, Collect,
         RecordResearch, FinishRun, BeginForward, RecordForward,
         RecordMutation, AttemptError, RecordFailure, Unmark, Terminate, Kill,
         RaiseLimit, Turn

\* Every step keeps what an attempt knows of those before it.
LEMMA BlockKept ==
    ASSUME TypeOK, BlockInv, Next
    PROVE  BlockInv'
<1>1. (pc \in Sessions => attempt = Cardinality(Attempts) + 1)'
  <2>1. ASSUME pc' \in Sessions PROVE Attempts' = Attempts
    BY <2>1, InSession DEF Attempts, BeginResearch, ledger
  <2> QED BY <2>1, InSession DEF BlockInv, BeginResearch, Sessions
<1>2. CASE pc' \notin {"completing", "record"}
  BY <1>1, <1>2 DEF BlockInv
<1>3. CASE Register
  <2>1. outcome' = outcome /\ attempt' = attempt /\ attempt \in Nat
          /\ MaxAttempts \in Nat
    BY <1>3, ConstantsAssumption DEF Register, session, TypeOK, SessionType
  <2>2. pc' = "completing" => outcome = "deadline"
    BY <1>3 DEF Register, HostCompletes
  <2>3. pc' = "record" /\ outcome = "environment_blocked" =>
          attempt >= MaxAttempts /\ nominee' = None
    BY <1>3, <2>1 DEF Register, EndRefused
  <2> QED BY <1>1, <2>1, <2>2, <2>3 DEF BlockInv, None
<1>4. CASE CompleteRow
  <2>1. outcome' = outcome /\ outcome = "deadline"
    BY <1>4 DEF CompleteRow, ending, BlockInv
  <2> QED BY <1>1, <2>1 DEF BlockInv
<1> QED BY <1>2, <1>3, <1>4, ToRecord

\* Failed attempts are never forgotten.
LEMMA AttemptsGrow ==
    ASSUME TypeOK, TypeOK', Next
    PROVE  /\ Cardinality(Attempts) \in Nat /\ Cardinality(Attempts') \in Nat
           /\ Cardinality(Attempts) <= Cardinality(Attempts')
<1>1. /\ failed \in Seq(Attempt) /\ failed' \in Seq(Attempt)
      /\ Len(failed) \in Nat /\ Len(failed') \in Nat
  <2>1. Attempt' = Attempt
    BY DEF Attempt, Runs
  <2> QED BY <2>1 DEF TypeOK, LedgerType
<1>2. failed' = failed \/ \E row \in Attempt : failed' = Append(failed, row)
  <2>1. CASE RecoverRecord
    <3>1. PICK m \in markers :
            failed' = Append(failed, [run |-> m.run, phase |-> m.phase])
      BY <2>1 DEF RecoverRecord
    <3>2. [run |-> m.run, phase |-> m.phase] \in Attempt
      BY DEF TypeOK, DiskType, Attempt
    <3> QED BY <3>1, <3>2
  <2>2. CASE RecordFailure
    <3>1. [run |-> run, phase |-> phase] \in Attempt
      BY <2>2, RunIsKnown DEF RecordFailure, TypeOK, WorkerType, Attempt
    <3> QED BY <2>2, <3>1 DEF RecordFailure
  <2> QED BY <2>1, <2>2, LedgerWriters DEF LedgerWrite, ledger, Test,
          CompleteRow, RecordResearch, RecordForward, RecordMutation
<1>3. Attempts \subseteq Attempts'
  <2>1. CASE failed' = failed
    BY <2>1 DEF Attempts
  <2>2. ASSUME NEW row \in Attempt, failed' = Append(failed, row)
        PROVE  Attempts \subseteq Attempts'
    <3>1. \A i \in DOMAIN failed : i \in DOMAIN failed' /\ failed'[i] = failed[i]
      BY <1>1, <2>2
    <3> QED BY <3>1 DEF Attempts
  <2> QED BY <1>2, <2>1, <2>2
<1>4. IsFiniteSet(Attempts')
  <2>1. Attempts' \in SUBSET (1 .. Len(failed'))
    BY <1>1 DEF Attempts
  <2>2. IsFiniteSet(1 .. Len(failed'))
    BY <1>1, FS_Interval
  <2> QED BY <2>1, <2>2, FS_Subset
<1> QED BY <1>3, <1>4, FS_Subset, FS_CardinalityType

\* The row that says "blocked" is the last attempt's.
LEMMA BlockedKept ==
    ASSUME TypeOK, TypeOK', BlockInv, BlockedOnlyWhenSpent, Next
    PROVE  BlockedOnlyWhenSpent'
<1>1. /\ Cardinality(Attempts) \in Nat /\ Cardinality(Attempts') \in Nat
      /\ Cardinality(Attempts) <= Cardinality(Attempts') /\ MaxAttempts \in Nat
  BY AttemptsGrow, ConstantsAssumption
<1>2. CASE RecordResearch
  <2>1. research \in Seq(LogRow)
    BY DEF TypeOK, LedgerType, LogRow
  <2> DEFINE row == [run |-> run, registered |-> nominee, end |-> EndStatus]
  <2>2. research' = Append(research, row) /\ pc = "record" /\ failed' = failed
    BY <1>2 DEF RecordResearch
  <2>3. row.end = "environment_blocked" =>
          row.registered = None /\ Cardinality(Attempts) + 1 >= MaxAttempts
    BY <1>1, <2>2 DEF EndStatus, BlockInv, Sessions
  <2>4. row \in LogRow
    BY <1>2, RunIsKnown DEF RecordResearch, TypeOK, EndingType, EndStatus,
       LogRow, Attempting, Sessions
  <2>5. \A i \in DOMAIN research' :
          research'[i] = row \/ (i \in DOMAIN research /\ research'[i] = research[i])
    BY <2>1, <2>2, <2>4
  <2>6. Attempts' = Attempts
    BY <2>2 DEF Attempts
  <2> HIDE DEF row
  <2> QED BY <2>3, <2>5, <2>6 DEF BlockedOnlyWhenSpent, None
<1>3. CASE research' = research
  BY <1>1, <1>3 DEF BlockedOnlyWhenSpent, None
<1> QED BY <1>2, <1>3, LedgerGrows, LedgerWriters DEF LedgerWrite, ledger, Test,
        CompleteRow, RecoverRecord, RecordForward, RecordMutation, RecordFailure

-----------------------------------------------------------------------------
(* Candidates are nodes: the session's record names one at every step, and   *)
(* only an untested session, or a blocked one, ends without one.             *)

CandInv ==
    /\ \A i \in DOMAIN tests : tests[i].cand # None
    /\ \A i \in DOMAIN steps : steps[i] # None
    /\ pc = "sidecar" => tree # <<>>
    /\ pc \in {"unpublish", "publish"} /\ after = "keep" => tree # <<>>
    /\ pc = "record" /\ nominee = None =>
         tests = <<>> \/ outcome = "environment_blocked"

\* Every step of the record still names a node.
LEMMA TestedIsNode ==
    ASSUME TypeOK, NomineeInv, CandInv, Next
    PROVE  \A i \in DOMAIN tests' : tests'[i].cand # None
<1>1. tests \in Seq(TestRows)
  BY DEF TypeOK, LedgerType
<1>2. ASSUME NEW row \in TestRows, tests' = Append(tests, row), row.cand # None
      PROVE  \A i \in DOMAIN tests' : tests'[i].cand # None
  <2>1. \A i \in DOMAIN tests' :
          tests'[i] = row \/ (i \in DOMAIN tests /\ tests'[i] = tests[i])
    BY <1>1, <1>2
  <2> QED BY <1>2, <2>1 DEF CandInv
<1>3. CASE Test
  <2>1. PICK i \in DOMAIN steps :
          tests' = Append(tests, [step |-> NextStep, cand |-> steps[i],
                                  source |-> "test", run |-> run])
    BY <1>3 DEF Test
  <2>2. steps[i] # None
    BY DEF CandInv
  <2>3. [step |-> NextStep, cand |-> steps[i], source |-> "test", run |-> run]
          \in TestRows
    BY <1>3, RunIsKnown DEF TestRows, NextStep, TypeOK, SessionType, Test,
       Turn, Attempting, Sessions
  <2> QED BY <1>2, <2>1, <2>2, <2>3
<1>4. CASE CompleteRow
  <2>1. [step |-> NextStep, cand |-> nominee, source |-> "host_completion",
         run |-> run] \in TestRows
    BY <1>4, RunIsKnown DEF TestRows, NextStep, TypeOK, SessionType,
       EndingType, CompleteRow, Attempting, Sessions
  <2>2. nominee # None
    BY <1>4 DEF CompleteRow, NomineeInv
  <2> QED BY <1>2, <1>4, <2>1, <2>2 DEF CompleteRow
<1>5. CASE tests' = tests
  BY <1>5 DEF CandInv
<1> QED BY <1>3, <1>4, <1>5, LedgerWriters DEF LedgerWrite, ledger,
        RecoverRecord, RecordResearch, RecordForward, RecordMutation,
        RecordFailure

\* Every step keeps the session's candidates nodes of its tree.
LEMMA CandKept ==
    ASSUME TypeOK, ClosingInv, CountInv, NomineeInv, CandInv, Next
    PROVE  CandInv'
<1>1. /\ pc \in PCs /\ after \in {"keep", "session", "closing", "collected"}
      /\ steps \in Seq(Nat) /\ tree \in Seq(BOOLEAN) /\ published \in Nat
      /\ tests \in Seq(TestRows) /\ N \in Nat \ {0}
      /\ outcome \in {"open", "completed", "deadline", "environment_blocked"}
  BY ConstantsAssumption DEF TypeOK, WorkerType, EndingType, SessionType,
     DiskType, LedgerType
<1>2. \A i \in DOMAIN steps' : steps'[i] # None
  <2>1. CASE BeginResearch
    BY <2>1 DEF BeginResearch, Published, None
  <2>2. CASE Publish
    <3>1. CASE after = "keep"
      <4>1. Len(tree) # None
        BY <1>1, <2>2, <3>1 DEF Publish, CandInv, None
      <4>2. steps' = Append(steps, Len(tree)) /\ Len(tree) \in Nat
        BY <1>1, <2>2, <3>1 DEF Publish
      <4>3. \A i \in DOMAIN steps' :
              steps'[i] = Len(tree) \/ (i \in DOMAIN steps /\ steps'[i] = steps[i])
        BY <1>1, <4>2
      <4> QED BY <4>1, <4>3 DEF CandInv
    <3>2. CASE after # "keep"
      BY <2>2, <3>2 DEF Publish, CandInv
    <3> QED BY <3>1, <3>2
  <2>3. CASE steps' = steps
    BY <2>3 DEF CandInv
  <2> QED BY <2>1, <2>2, <2>3, SessionWriters, TurnRemembers
          DEF SessionWrite, session, Resolve, CompleteRow
<1>3. pc' = "sidecar" => tree' # <<>>
  <2>1. pc' = "sidecar" => Validate
    <3> SUFFICES ASSUME pc' = "sidecar", ~Validate PROVE FALSE
      OBVIOUS
    <3>1. CASE Work
      BY <1>1, <3>1 DEF PCs, Sessions, Work, RecoverRecord, RecoverDrop, Recovered,
         NextSession, BeginRefused, BeginResearch, Resolve, Seed, Think,
         RecordSidecar, Unpublish, Publish, ValidateFails, Test, TestFails,
         Deadline, Collect, Register, CompleteRow, RecordResearch, FinishRun,
         BeginForward, RecordForward, RecordMutation, RecordFailure, Unmark, Turn
    <3>2. CASE ~Work
      BY <1>1, <3>2 DEF PCs, Sessions, Attempting, UnwindsTo, Next, StartWorker,
         AttemptError, Terminate, Kill, RaiseLimit
    <3> QED BY <3>1, <3>2
  <2>2. ASSUME Validate PROVE tree' # <<>>
    <3>1. PICK registers \in BOOLEAN : tree' = Append(tree, registers)
      BY <2>2 DEF Validate
    <3>2. Len(tree') = Len(tree) + 1 /\ Len(tree) \in Nat
      BY <1>1, <3>1
    <3> QED BY <3>2
  <2> QED BY <2>1, <2>2
<1>4. pc' \in {"unpublish", "publish"} /\ after' = "keep" => tree' # <<>>
  <2> SUFFICES ASSUME pc' \in {"unpublish", "publish"}, after' = "keep"
               PROVE  tree' # <<>>
    OBVIOUS
  <2>1. RecordSidecar \/ Unpublish \/ ValidateFails \/ Collect
    BY <1>1 DEF PCs, Attempting, Sessions, UnwindsTo, Next, Work, StartWorker,
         RecoverRecord, RecoverDrop, Recovered, NextSession, BeginRefused,
         BeginResearch, Resolve, Seed, Think, Validate,
         Publish, Test, TestFails, Deadline,
         Register, CompleteRow, RecordResearch, FinishRun, BeginForward,
         RecordForward, RecordMutation, AttemptError, RecordFailure, Unmark,
         Terminate, Kill, RaiseLimit, Turn
  <2>2. RecordSidecar \/ Unpublish
    BY <2>1 DEF ValidateFails, Collect
  <2> QED BY <2>2 DEF RecordSidecar, Unpublish, ending, CandInv
<1>5. pc' = "record" /\ nominee' = None =>
        tests' = <<>> \/ outcome' = "environment_blocked"
  <2> SUFFICES ASSUME pc' = "record", nominee' = None,
                      outcome' # "environment_blocked"
               PROVE  tests' = <<>>
    OBVIOUS
  <2>1. ~CompleteRow
    BY DEF CompleteRow, ending, NomineeInv, None
  <2>2. Register
    BY <2>1, ToRecord
  <2>3. tests' = tests /\ outcome' = outcome /\ Candidate = None /\ pc = "collected"
    BY <2>2 DEF Register, ledger
  <2>4. outcome # "completed"
    <3> SUFFICES ASSUME outcome = "completed" PROVE FALSE
      OBVIOUS
    <3>1. Len(tests) = N /\ tests[N].cand = nominee /\ nominee = None
      BY <2>3 DEF NomineeInv, Sessions, Candidate
    <3>2. N \in DOMAIN tests
      BY <1>1, <3>1
    <3> QED BY <3>1, <3>2 DEF CandInv
  <2>5. tests = <<>>
    <3> SUFFICES ASSUME tests # <<>> PROVE FALSE
      OBVIOUS
    <3>1. Len(tests) \in DOMAIN tests
      BY <1>1
    <3>2. tests[Len(tests)].cand = None
      BY <2>3, <2>4 DEF Candidate
    <3> QED BY <3>1, <3>2 DEF CandInv
  <2> QED BY <2>3, <2>5
<1>6. \A i \in DOMAIN tests' : tests'[i].cand # None
  BY TestedIsNode
<1> QED BY <1>2, <1>3, <1>4, <1>5, <1>6 DEF CandInv, None

-----------------------------------------------------------------------------
(* The forward stage: due once, and never past an integrity failure.        *)

ForwardInv ==
    /\ phase = "forward" /\ pc \in {"begin", "replay", "failing", "unmark"} =>
         Registered /\ forwards = <<>>
    /\ pc \notin {"down", "finish"} => ~Mutated
    /\ pc = "finish" /\ Mutated => exiting

\* How a worker comes to the forward stage.
LEMMA ToForward ==
    TypeOK /\ StageInv /\ Next /\ phase' = "forward"
        /\ pc' \in {"begin", "replay", "failing", "unmark"} =>
      /\ UNCHANGED <<research, forwards>>
      /\ \/ NextSession
         \/ phase = "forward" /\ pc \in {"begin", "replay", "failing", "unmark"}
<1> SUFFICES ASSUME TypeOK, StageInv, Next, phase' = "forward",
                    pc' \in {"begin", "replay", "failing", "unmark"}
             PROVE  /\ UNCHANGED <<research, forwards>>
                    /\ \/ NextSession
                       \/ /\ phase = "forward"
                          /\ pc \in {"begin", "replay", "failing", "unmark"}
  OBVIOUS
<1>1. pc \in PCs /\ after \in {"keep", "session", "closing", "collected"}
        /\ (pc \in Sessions => phase = "research")
  BY DEF TypeOK, WorkerType, EndingType, StageInv
<1> QED
  BY <1>1 DEF PCs, Attempting, Sessions, UnwindsTo, Next, Work, StartWorker,
         RecoverRecord, RecoverDrop, Recovered, BeginRefused, NextSession,
         BeginResearch, Resolve, Seed, Think, Validate, RecordSidecar,
         Unpublish, Publish, ValidateFails, Test, TestFails, Deadline, Collect,
         Register, CompleteRow, RecordResearch, FinishRun, BeginForward,
         RecordForward, RecordMutation, AttemptError, RecordFailure, Unmark,
         Terminate, Kill, RaiseLimit, Turn, ledger

\* A worker goes on past a record only if it is not exiting.
LEMMA GoesOn ==
    TypeOK /\ Next /\ pc' \notin {"down", "finish"} =>
        /\ forwards' = forwards
        /\ \/ pc \notin {"down", "finish"}
           \/ StartWorker
           \/ FinishRun /\ ~exiting
<1> SUFFICES ASSUME TypeOK, Next, pc' \notin {"down", "finish"}
             PROVE  /\ forwards' = forwards
                    /\ \/ pc \notin {"down", "finish"}
                       \/ StartWorker
                       \/ FinishRun /\ ~exiting
  OBVIOUS
<1>1. forwards' = forwards
  BY LedgerWriters DEF LedgerWrite, ledger, Test, CompleteRow, RecoverRecord,
     RecordResearch, RecordForward, RecordMutation, RecordFailure
<1>2. \/ pc \notin {"down", "finish"} \/ StartWorker \/ FinishRun
  BY DEF Attempting, Sessions, UnwindsTo, Next, Work,
         RecoverRecord, RecoverDrop, Recovered, BeginRefused, NextSession,
         BeginResearch, Resolve, Seed, Think, Validate, RecordSidecar,
         Unpublish, Publish, ValidateFails, Test, TestFails, Deadline, Collect,
         Register, CompleteRow, RecordResearch, BeginForward,
         RecordForward, RecordMutation, AttemptError, RecordFailure, Unmark,
         Terminate, Kill, RaiseLimit, Turn
<1>3. FinishRun => ~exiting
  BY DEF FinishRun
<1> QED BY <1>1, <1>2, <1>3

\* Every step keeps the forward stage due once.
LEMMA ForwardKept ==
    ASSUME TypeOK, StageInv, ForwardInv, Next
    PROVE  ForwardInv'
<1>1. forwards \in Seq(ReadingRow) /\ exiting \in BOOLEAN
  BY DEF TypeOK, LedgerType, WorkerType, ReadingRow
<1>2. ASSUME phase' = "forward",
             pc' \in {"begin", "replay", "failing", "unmark"}
      PROVE  Registered' /\ forwards' = <<>>
  <2>1. research' = research /\ forwards' = forwards
    BY <1>2, ToForward
  <2>2. Registered' = Registered
    BY <2>1 DEF Registered, None
  <2>3. CASE NextSession
    <3>1. Registered /\ ~ForwardDone /\ ~Mutated
      BY <1>2, <2>3 DEF NextSession, ForwardInv
    <3>2. forwards = <<>>
      BY <1>1, <3>1 DEF ForwardDone, Mutated
    <3> QED BY <2>1, <2>2, <3>1, <3>2
  <2> QED BY <1>2, <2>1, <2>2, <2>3, ToForward DEF ForwardInv
<1>3. ASSUME pc' \notin {"down", "finish"} PROVE ~Mutated'
  <2>1. ~Mutated
    BY <1>3, GoesOn DEF StartWorker, FinishRun, ForwardInv
  <2> QED BY <1>3, <2>1, GoesOn DEF Mutated
<1>4. ASSUME pc' = "finish", Mutated' PROVE exiting' = TRUE
  <2>1. CASE RecordResearch
    BY <1>4, <2>1 DEF RecordResearch, ForwardInv, Mutated
  <2>2. CASE RecordForward
    <3>1. ~Mutated
      BY <2>2 DEF RecordForward, ForwardInv
    <3>2. PICK status \in {"ok", "strategy_error"} :
            forwards' = Append(forwards, [run |-> run, status |-> status])
      BY <2>2 DEF RecordForward
    <3>3. \A i \in DOMAIN forwards' :
            \/ forwards'[i] = [run |-> run, status |-> status]
            \/ i \in DOMAIN forwards /\ forwards'[i] = forwards[i]
      BY <1>1, <3>2
    <3> QED BY <1>4, <3>1, <3>3 DEF Mutated
  <2>3. CASE RecordMutation
    BY <2>3 DEF RecordMutation
  <2>4. CASE pc = "finish"
    <3>1. FinishRun \/ Terminate \/ Kill
      BY <2>4 DEF Attempting, Sessions, Next, Work, StartWorker,
         RecoverRecord, RecoverDrop, Recovered, BeginRefused, NextSession,
         BeginResearch, Resolve, Seed, Think, Validate, RecordSidecar,
         Unpublish, Publish, ValidateFails, Test, TestFails, Deadline, Collect,
         Register, CompleteRow, RecordResearch, BeginForward,
         RecordForward, RecordMutation, AttemptError, RecordFailure, Unmark,
         RaiseLimit, Turn
    <3>2. ~FinishRun /\ ~Kill
      BY <1>4 DEF FinishRun, Kill
    <3> QED BY <3>1, <3>2 DEF Terminate
  <2> QED BY <1>4, <2>1, <2>2, <2>3, <2>4, RunEnds
<1> QED BY <1>2, <1>3, <1>4 DEF ForwardInv

-----------------------------------------------------------------------------
OutcomeInv == /\ IInv /\ RunInv /\ RunsOnce /\ NoRunVanishes
              /\ BlockInv /\ BlockedOnlyWhenSpent /\ CandInv /\ ForwardInv

\* The invariant of the outcomes holds initially and every step keeps it.
THEOREM OutcomeInductive == Spec => []OutcomeInv
<1>1. Init => /\ RunInv /\ RunsOnce /\ NoRunVanishes /\ BlockInv
              /\ BlockedOnlyWhenSpent /\ CandInv /\ ForwardInv
  <2> SUFFICES ASSUME Init
               PROVE  /\ RunInv /\ RunsOnce /\ NoRunVanishes /\ BlockInv
                      /\ BlockedOnlyWhenSpent /\ CandInv /\ ForwardInv
    OBVIOUS
  <2>1. RunInv
    BY DEF Init, RunInv, AtWork, Attempting, Sessions, Recorded, RunsIn
  <2>2. RunsOnce /\ NoRunVanishes
    BY DEF Init, RunsOnce, Distinct, Disjoint, RunsIn, NoRunVanishes
  <2>3. BlockInv /\ BlockedOnlyWhenSpent
    BY DEF Init, BlockInv, BlockedOnlyWhenSpent, Sessions
  <2>4. CandInv /\ ForwardInv
    BY DEF Init, CandInv, ForwardInv, Mutated
  <2> QED BY <2>1, <2>2, <2>3, <2>4
<1>2. IInv /\ IInv' /\ OutcomeInv /\ Next => OutcomeInv'
  <2> SUFFICES ASSUME IInv, IInv', OutcomeInv, Next PROVE OutcomeInv'
    OBVIOUS
  <2>1. TypeOK /\ TypeOK' /\ StageInv /\ CountInv /\ ClosingInv /\ NomineeInv
    BY DEF IInv
  <2>2. RunInv' /\ RunsOnce' /\ NoRunVanishes'
    BY <2>1, RunKept, OnceKept, NoneVanishes DEF OutcomeInv
  <2>3. BlockInv' /\ BlockedOnlyWhenSpent'
    BY <2>1, BlockKept, BlockedKept DEF OutcomeInv
  <2>4. CandInv' /\ ForwardInv'
    BY <2>1, CandKept, ForwardKept DEF OutcomeInv
  <2> QED BY <2>2, <2>3, <2>4 DEF OutcomeInv
<1>3. IInv /\ IInv' /\ OutcomeInv /\ UNCHANGED vars => OutcomeInv'
  <2> SUFFICES ASSUME IInv', OutcomeInv, UNCHANGED vars PROVE OutcomeInv'
    OBVIOUS
  <2>1. RunInv'
    <3>1. UNCHANGED <<ledger, markers, pc, run, lastRun>>
      BY DEF vars, disk, history
    <3>2. Recorded' = Recorded /\ Outcomes' = Outcomes
      BY <3>1 DEF ledger, Recorded, Outcomes, RunsIn
    <3>3. AtWork' = AtWork
      BY <3>1 DEF AtWork, Attempting
    <3> QED BY <3>1, <3>2, <3>3 DEF OutcomeInv, RunInv
  <2>2. RunsOnce' /\ NoRunVanishes'
    <3>1. UNCHANGED <<ledger, markers, lastRun>>
      BY DEF vars, history
    <3>2. Recorded' = Recorded
      BY <3>1 DEF ledger, Recorded, RunsIn
    <3>3. NoRunVanishes'
      BY <3>1, <3>2 DEF OutcomeInv, NoRunVanishes
    <3>4. Disjoint' = Disjoint
      BY <3>1 DEF ledger, Disjoint, RunsIn
    <3>5. /\ Distinct(failed)' = Distinct(failed)
          /\ Distinct(research)' = Distinct(research)
          /\ Distinct(forwards)' = Distinct(forwards)
      BY <3>1 DEF ledger, Distinct
    <3> QED BY <3>3, <3>4, <3>5 DEF OutcomeInv, RunsOnce
  <2>3. BlockInv' /\ BlockedOnlyWhenSpent'
    <3>1. Attempts' = Attempts
      BY DEF vars, ledger, Attempts
    <3> QED BY <3>1 DEF OutcomeInv, vars, ledger, session, ending, BlockInv,
            BlockedOnlyWhenSpent, None
  <2>4. CandInv' /\ ForwardInv'
    BY DEF OutcomeInv, vars, ledger, disk, session, ending, CandInv, ForwardInv,
       Mutated, Registered, None
  <2> QED BY <2>1, <2>2, <2>3, <2>4 DEF OutcomeInv
<1>4. IInv /\ IInv' /\ OutcomeInv /\ [Next]_vars => OutcomeInv'
  BY <1>2, <1>3
<1>5. Init /\ IInv => OutcomeInv
  BY <1>1 DEF OutcomeInv
<1> QED BY <1>4, <1>5, Inductive, PTL DEF Spec

\* A run leaves at most one outcome in the ledger, across any crash, recovery
\* and retry.
THEOREM OneOutcomeAlways == Spec => []OneOutcomePerRun
<1>1. OutcomeInv => OneOutcomePerRun
  BY DEF OutcomeInv, RunsOnce, Distinct, Disjoint, OneOutcomePerRun
<1> QED BY <1>1, OutcomeInductive, PTL

\* Every run that ever began is named by the ledger or by its marker.
THEOREM NoRunVanishesEver == Spec => []NoRunVanishes
<1>1. OutcomeInv => NoRunVanishes
  BY DEF OutcomeInv
<1> QED BY <1>1, OutcomeInductive, PTL

\* An environment block ends an experiment only once its attempts are spent.
THEOREM BlockedOnlyAtTheLast == Spec => []BlockedOnlyWhenSpent
<1>1. OutcomeInv => BlockedOnlyWhenSpent
  BY DEF OutcomeInv
<1> QED BY <1>1, OutcomeInductive, PTL

-----------------------------------------------------------------------------
(* The refinement.  Research rows, and the forward reading, are the          *)
(* experiment's decisions; test rows reveal its record; every other step is  *)
(* a stutter of ExperimentOutcome.                                           *)

\* A row of the validation record reveals the next step.
LEMMA RevealsNext ==
    ASSUME IInv, IInv', OutcomeInv, OutcomeInv', Next, Test \/ CompleteRow
    PROVE  Outcome!Reveal
<1>1. /\ pc \in Sessions /\ known < N /\ Len(tests) = known
      /\ known' = known + 1 /\ Len(tests') = known'
      /\ \A i \in 1 .. Len(tests) : tests'[i] = tests[i]
  BY RowAdded DEF IInv
<1>2. research = <<>> /\ research' = research /\ forwards' = forwards
  BY <1>1 DEF IInv, StageInv, Test, CompleteRow
<1>3. /\ tests \in Seq(TestRows) /\ tests' \in Seq(TestRows)
      /\ known \in Nat /\ N \in Nat
  <2>1. TestRows' = TestRows
    BY DEF TestRows, Runs
  <2> QED BY <2>1, ConstantsAssumption DEF IInv, TypeOK, LedgerType, SessionType
<1>4. \A i \in DOMAIN tests' : tests'[i].cand \in Nat \ {0}
  <2>1. \A i \in DOMAIN tests' : tests'[i].cand # 0
    BY DEF OutcomeInv, CandInv, None
  <2>2. \A i \in DOMAIN tests' : tests'[i] \in TestRows
    BY <1>3
  <2> QED BY <2>1, <2>2 DEF TestRows
<1>5. /\ Revealed' \in Seq(Nat \ {0}) /\ Len(Revealed') = known + 1
      /\ \A i \in DOMAIN tests' : Revealed'[i] = tests'[i].cand
  BY <1>1, <1>3, <1>4 DEF Revealed
<1>6. Len(Revealed) = known /\ DOMAIN Revealed = 1 .. known
      /\ \A i \in 1 .. known : Revealed[i] = tests[i].cand
  BY <1>1, <1>3 DEF Revealed
<1>7. \A i \in DOMAIN Revealed : Revealed'[i] = Revealed[i]
  BY <1>1, <1>3, <1>5, <1>6
<1>8. Decision = "open" /\ Decision' = Decision /\ RegisteredNode' = RegisteredNode
      /\ Reading' = Reading
  BY <1>2 DEF Decision, RegisteredNode, Reading, Mutated, Registered
<1> QED BY <1>1, <1>3, <1>5, <1>6, <1>7, <1>8 DEF Outcome!Reveal

\* The research record is the experiment's one decision.
LEMMA Decides ==
    ASSUME IInv, OutcomeInv, RecordResearch
    PROVE  Outcome!Register \/ Outcome!EndWithout
<1>1. /\ pc = "record" /\ tests' = tests /\ forwards' = forwards
      /\ research' = Append(research, [run |-> run, registered |-> nominee,
                                       end |-> EndStatus])
  BY DEF RecordResearch
<1>2. research = <<>>
  BY <1>1 DEF IInv, StageInv, Sessions
<1>3. DOMAIN research' = {1} /\ research' # <<>>
      /\ research'[1].registered = nominee /\ research'[1].end = EndStatus
  BY <1>1, <1>2
<1>4. Revealed' = Revealed /\ Reading' = Reading
  BY <1>1 DEF Revealed, Reading, Mutated
<1>5. Decision = "open" /\ RegisteredNode = 0
  BY <1>2 DEF Decision, RegisteredNode
<1>6. CASE nominee # None
  <2>1. Registered' /\ Decision' = "registered" /\ RegisteredNode' = nominee
    BY <1>3, <1>6 DEF Registered, Decision, RegisteredNode, None
  <2>2. Len(tests) = N /\ tests[N].cand = nominee
    BY <1>1, <1>6 DEF IInv, NomineeInv
  <2>3. Len(Revealed) = N /\ Revealed[N] = nominee
    BY <2>2, ConstantsAssumption DEF Revealed, IInv, TypeOK, LedgerType
  <2> QED BY <1>4, <1>5, <2>1, <2>3 DEF Outcome!Register
<1>7. CASE nominee = None
  <2>1. ~Registered' /\ Decision' = EndStatus /\ RegisteredNode' = 0
    BY <1>3, <1>7 DEF Registered, Decision, RegisteredNode, None
  <2>2. \/ EndStatus = "environment_blocked"
        \/ EndStatus = "no_deliverable" /\ tests = <<>>
    BY <1>1, <1>7 DEF EndStatus, OutcomeInv, CandInv
  <2>3. tests = <<>> => Revealed = <<>>
    BY DEF Revealed
  <2> QED BY <1>4, <1>5, <2>1, <2>2, <2>3 DEF Outcome!EndWithout
<1> QED BY <1>6, <1>7

\* The forward row is the one reading of what was registered.
LEMMA ReadsOnce ==
    ASSUME IInv, OutcomeInv, RecordForward \/ RecordMutation
    PROVE  Outcome!Read
<1>1. pc = "replay" /\ tests' = tests /\ research' = research
  BY DEF RecordForward, RecordMutation
<1>2. Registered /\ forwards = <<>>
  BY <1>1 DEF IInv, StageInv, OutcomeInv, ForwardInv
<1>3. PICK s \in {"ok", "strategy_error", "integrity_failure"} :
        forwards' = Append(forwards, [run |-> run, status |-> s])
  BY DEF RecordForward, RecordMutation
<1>4. DOMAIN forwards' = {1} /\ forwards' # <<>> /\ forwards'[1].status = s
  BY <1>2, <1>3
<1>5. Reading = "none" /\ Reading' = IF s = "integrity_failure" THEN "frozen" ELSE s
  BY <1>2, <1>4 DEF Reading, Mutated
<1>6. Decision = "registered"
  BY <1>2 DEF Decision, Registered
<1>7. Revealed' = Revealed /\ Decision' = Decision /\ RegisteredNode' = RegisteredNode
  BY <1>1 DEF Revealed, Decision, Registered, RegisteredNode, None
<1> QED BY <1>5, <1>6, <1>7 DEF Outcome!Read

\* Every step of the protocol is a step of what an experiment promises, or
\* one its readers do not see.
THEOREM Implements == Spec => ImplementsOutcome
<1>1. Init => Outcome!Init
  BY DEF Init, Outcome!Init, Revealed, Decision, RegisteredNode, Reading
<1>2. ASSUME UNCHANGED <<tests, research, forwards>>
      PROVE  UNCHANGED Outcome!vars
  BY <1>2 DEF Outcome!vars, Revealed, Decision, Registered, RegisteredNode,
     Reading, Mutated, None
<1>3. IInv /\ IInv' /\ OutcomeInv /\ OutcomeInv' /\ [Next]_vars
        => [Outcome!Next]_Outcome!vars
  <2> SUFFICES ASSUME IInv, IInv', OutcomeInv, OutcomeInv', [Next]_vars
               PROVE  Outcome!Next \/ UNCHANGED Outcome!vars
    OBVIOUS
  <2>1. CASE UNCHANGED vars
    BY <1>2, <2>1 DEF vars, ledger
  <2>2. CASE Next /\ (Test \/ CompleteRow)
    BY <2>2, RevealsNext DEF Outcome!Next
  <2>3. CASE RecordResearch
    BY <2>3, Decides DEF Outcome!Next
  <2>4. CASE RecordForward \/ RecordMutation
    BY <2>4, ReadsOnce DEF Outcome!Next
  <2>5. CASE RecoverRecord \/ RecordFailure \/ UNCHANGED ledger
    BY <1>2, <2>5 DEF RecoverRecord, RecordFailure, ledger
  <2> QED BY <2>1, <2>2, <2>3, <2>4, <2>5, LedgerWriters DEF LedgerWrite
<1> QED BY <1>1, <1>3, Inductive, OutcomeInductive, PTL
        DEF Spec, ImplementsOutcome, Outcome!Spec

-----------------------------------------------------------------------------
(* A session over its attempts, when no process ends inside a Torn group    *)
(* of writes: what was validated stays validated, and, when no process is   *)
(* killed either, what was spent stays spent and every dead run is audited. *)
(* The runs ResearchTorn and ResearchKilled show each premise is needed.    *)

-----------------------------------------------------------------------------
(* The step tree, its sidecars and its published copy.                      *)

\* A Validation whose node is in the tree and not yet the session's.
Keeping == pc = "sidecar" \/ (pc \in {"unpublish", "publish"} /\ after = "keep")

\* Outside the writes of one Validation the published copy, the sidecars and
\* what the session can nominate are all of the tree.
TreeInv ==
    /\ \A n \in DOMAIN tree : n \in sidecars \/ (pc = "sidecar" /\ n = Len(tree))
    /\ published <= Len(tree)
    /\ pc \notin {"sidecar", "unpublish", "publish"} => published = Len(tree)
    /\ pc = "sidecar" => published = Len(tree) - 1
    /\ pc \in Sessions =>
         /\ Len(steps) = IF Keeping THEN Len(tree) - 1 ELSE Len(tree)
         /\ \A i \in DOMAIN steps : steps[i] = i
    /\ pc = "record" /\ nominee = None /\ outcome # "environment_blocked" =>
         \A n \in DOMAIN tree : ~tree[n]

\* Who writes the tree and what is read off it.
TreeWrite == BeginResearch \/ Validate \/ RecordSidecar \/ Unpublish \/ Publish
               \/ ValidateFails \/ Collect \/ Register \/ CompleteRow

LEMMA TreeWriters ==
    TypeOK /\ Next /\ ~TornWrites /\ ~TreeWrite =>
        /\ UNCHANGED <<tree, sidecars, published, steps>>
        /\ pc \notin {"sidecar", "unpublish", "publish"}
        /\ pc' \notin {"sidecar", "unpublish", "publish", "record"}
        /\ pc' \in Sessions => pc \in Sessions
<1> SUFFICES ASSUME TypeOK, Next, ~TornWrites, ~TreeWrite
             PROVE  /\ UNCHANGED <<tree, sidecars, published, steps>>
                    /\ pc \notin {"sidecar", "unpublish", "publish"}
                    /\ pc' \notin {"sidecar", "unpublish", "publish", "record"}
                    /\ pc' \in Sessions => pc \in Sessions
  OBVIOUS
<1>1. pc \in PCs /\ after \in {"keep", "session", "closing", "collected"}
  BY DEF TypeOK, WorkerType, EndingType
<1>2. UNCHANGED <<tree, sidecars, published, steps>>
  BY DEF TreeWrite, Next, Work, ledger, disk, session, StartWorker,
         RecoverRecord, RecoverDrop, Recovered, NextSession, BeginRefused,
         Resolve, Seed, Think, Test, TestFails, Deadline,
         RecordResearch, FinishRun, BeginForward, RecordForward,
         RecordMutation, AttemptError, RecordFailure, Unmark, Terminate, Kill,
         RaiseLimit
<1>3. pc \notin {"sidecar", "unpublish", "publish"}
  <2> SUFFICES ASSUME pc \in {"sidecar", "unpublish", "publish"} PROVE FALSE
    OBVIOUS
  <2>1. CASE Work
    BY <1>1, <2>1 DEF TreeWrite, Torn, Work, RecoverRecord, RecoverDrop, Recovered,
       NextSession, BeginRefused, Resolve, Seed, Think, Test, TestFails, Deadline,
       Turn, RecordResearch, FinishRun, BeginForward, RecordForward, RecordMutation,
       RecordFailure, Unmark
  <2>2. CASE ~Work
    BY <2>2 DEF Torn, Next, StartWorker, AttemptError, Terminate, Kill, RaiseLimit
  <2> QED BY <2>1, <2>2
<1>4. pc' \notin {"sidecar", "unpublish", "publish", "record"}
  <2> SUFFICES ASSUME pc' \in {"sidecar", "unpublish", "publish"} PROVE FALSE
    BY ToRecord DEF TreeWrite
  <2>1. CASE Work
    BY <1>1, <1>3, <2>1 DEF TreeWrite, PCs, Sessions, Work, RecoverRecord,
       RecoverDrop, Recovered, NextSession, BeginRefused, Resolve, Seed, Think,
       Test, TestFails, Deadline, Turn, RecordResearch, FinishRun, BeginForward,
       RecordForward, RecordMutation, RecordFailure, Unmark
  <2>2. CASE ~Work
    BY <1>1, <1>3, <2>2 DEF PCs, Sessions, Attempting, UnwindsTo, Next, StartWorker,
       AttemptError, Terminate, Kill, RaiseLimit
  <2> QED BY <2>1, <2>2
<1>5. pc' \in Sessions => pc \in Sessions
  BY InSession DEF TreeWrite
<1> QED BY <1>2, <1>3, <1>4, <1>5

\* A session that ends without a candidate has no Validation that registers.
LEMMA NothingRegisters ==
    ASSUME TypeOK, ClosingInv, NomineeInv, CandInv, TreeInv, Register,
           pc' = "record", nominee' = None, outcome # "environment_blocked"
    PROVE  \A n \in DOMAIN tree : ~tree[n]
<1>1. pc = "collected" /\ Candidate = None
  BY DEF Register
<1>2. /\ tests \in Seq(TestRows) /\ steps \in Seq(Nat) /\ tree \in Seq(BOOLEAN)
      /\ N \in Nat \ {0}
  BY ConstantsAssumption DEF TypeOK, LedgerType, SessionType, DiskType
<1>3. /\ Len(steps) = Len(tree) /\ \A i \in DOMAIN steps : steps[i] = i
  BY <1>1 DEF TreeInv, Keeping, Sessions
<1>4. outcome # "completed"
  <2> SUFFICES ASSUME outcome = "completed" PROVE FALSE
    OBVIOUS
  <2>1. Len(tests) = N /\ tests[N].cand = None
    BY <1>1 DEF NomineeInv, Sessions, Candidate
  <2>2. N \in DOMAIN tests
    BY <1>2, <2>1
  <2> QED BY <2>1, <2>2 DEF CandInv
<1>5. tests = <<>>
  <2> SUFFICES ASSUME tests # <<>> PROVE FALSE
    OBVIOUS
  <2>1. Len(tests) \in DOMAIN tests /\ tests[Len(tests)].cand = None
    BY <1>1, <1>2, <1>4 DEF Candidate
  <2> QED BY <2>1 DEF CandInv
<1>6. LastRegistrable = None
  BY <1>1, <1>4, <1>5 DEF Candidate
<1>7. Registrables = {}
  <2> SUFFICES ASSUME Registrables # {} PROVE FALSE
    OBVIOUS
  <2> DEFINE last ==
        CHOOSE i \in Registrables : \A j \in Registrables : j <= i
  <2>1. Registrables \subseteq 1 .. Len(steps) /\ Len(steps) \in Nat
    BY <1>2 DEF Registrables
  <2>2. \E i \in Registrables : \A j \in Registrables : j <= i
    BY <2>1, LastPosition
  <2>3. last \in Registrables
    BY <2>2
  <2>4. steps[last] = None
    BY <1>6 DEF LastRegistrable
  <2> HIDE DEF last
  <2>5. last \in DOMAIN steps
    BY <2>3 DEF Registrables
  <2> QED BY <2>4, <2>5 DEF CandInv
<1>8. ASSUME NEW n \in DOMAIN tree PROVE ~tree[n]
  <2>1. n \in DOMAIN steps /\ steps[n] = n
    BY <1>2, <1>3
  <2> QED BY <1>7, <2>1 DEF Registrables
<1> QED BY <1>8

\* Every step keeps the session's files in step, unless a process ends between
\* two of them.
LEMMA TreeKept ==
    ASSUME TypeOK, ClosingInv, NomineeInv, CandInv, TreeInv, Next, ~TornWrites
    PROVE  TreeInv'
<1>1. /\ pc \in PCs /\ after \in {"keep", "session", "closing", "collected"}
      /\ steps \in Seq(Nat) /\ tree \in Seq(BOOLEAN) /\ published \in Nat
      /\ sidecars \subseteq Nat /\ Len(tree) \in Nat /\ DOMAIN tree = 1 .. Len(tree)
  BY DEF TypeOK, WorkerType, EndingType, SessionType, DiskType
<1>2. CASE BeginResearch
  <2>1. /\ pc = "begin" /\ pc' = "resolve" /\ UNCHANGED <<tree, sidecars, published>>
        /\ steps' = [i \in 1 .. published |-> i] /\ published = Len(tree)
    BY <1>2 DEF BeginResearch, disk, Published, TreeInv
  <2>2. Len(steps') = Len(tree) /\ \A i \in DOMAIN steps' : steps'[i] = i
    BY <1>1, <2>1
  <2> QED BY <2>1, <2>2 DEF TreeInv, Keeping
<1>3. CASE Validate
  <2>1. PICK registers \in BOOLEAN : tree' = Append(tree, registers)
    BY <1>3 DEF Validate
  <2>2. /\ pc = "session" /\ pc' = "sidecar"
        /\ UNCHANGED <<sidecars, published, steps>>
    BY <1>3 DEF Validate, Turn
  <2>3. Len(tree') = Len(tree) + 1 /\ DOMAIN tree' = 1 .. Len(tree) + 1
    BY <1>1, <2>1
  <2>4. published = Len(tree) /\ Len(steps) = Len(tree)
        /\ \A i \in DOMAIN steps : steps[i] = i
        /\ \A n \in DOMAIN tree : n \in sidecars
    BY <2>2 DEF TreeInv, Keeping, Sessions
  <2>5. \A n \in DOMAIN tree' : n \in sidecars' \/ n = Len(tree')
    BY <1>1, <2>2, <2>3, <2>4
  <2>6. published' = Len(tree') - 1 /\ published' <= Len(tree')
        /\ Len(steps') = Len(tree') - 1
    BY <1>1, <2>2, <2>3, <2>4
  <2> QED BY <2>2, <2>4, <2>5, <2>6 DEF TreeInv, Keeping
<1>4. CASE RecordSidecar
  <2>1. /\ pc = "sidecar" /\ pc' = "unpublish" /\ after' = "keep"
        /\ UNCHANGED <<tree, published, steps>>
        /\ sidecars' = sidecars \cup {Len(tree)}
    BY <1>4 DEF RecordSidecar, WithSidecar, session
  <2>2. \A n \in DOMAIN tree' : n \in sidecars'
    BY <2>1 DEF TreeInv
  <2>3. /\ published' <= Len(tree') /\ Len(steps') = Len(tree') - 1
        /\ \A i \in DOMAIN steps' : steps'[i] = i
    BY <1>1, <2>1 DEF TreeInv, Keeping, Sessions
  <2> QED BY <2>1, <2>2, <2>3 DEF TreeInv, Keeping
<1>5. CASE Unpublish
  <2>1. /\ pc = "unpublish" /\ pc' = "publish" /\ after' = after
        /\ UNCHANGED <<tree, sidecars, steps>> /\ published' = 0
    BY <1>5 DEF Unpublish, session, ending
  <2>2. \A n \in DOMAIN tree' : n \in sidecars'
    BY <2>1 DEF TreeInv
  <2>3. published' <= Len(tree')
    BY <1>1, <2>1
  <2>4. /\ Len(steps') = IF after' = "keep" THEN Len(tree') - 1 ELSE Len(tree')
        /\ \A i \in DOMAIN steps' : steps'[i] = i
    BY <2>1 DEF TreeInv, Keeping, Sessions
  <2> QED BY <2>1, <2>2, <2>3, <2>4 DEF TreeInv, Keeping
<1>6. CASE Publish
  <2>1. /\ pc = "publish" /\ published' = Len(tree)
        /\ UNCHANGED <<tree, sidecars, after>>
    BY <1>6 DEF Publish, ending
  <2>2. \A n \in DOMAIN tree : n \in sidecars
    BY <2>1 DEF TreeInv
  <2>3. CASE after = "keep"
    <3>1. steps' = Append(steps, Len(tree)) /\ pc' = "session"
      BY <1>6, <2>3 DEF Publish
    <3>2. Len(steps) = Len(tree) - 1 /\ \A i \in DOMAIN steps : steps[i] = i
      BY <2>1, <2>3 DEF TreeInv, Keeping, Sessions
    <3>3. /\ Len(steps') = Len(steps) + 1 /\ DOMAIN steps' = 1 .. Len(steps) + 1
          /\ \A i \in 1 .. Len(steps) : steps'[i] = steps[i]
          /\ steps'[Len(steps) + 1] = Len(tree) /\ Len(steps) \in Nat
          /\ DOMAIN steps = 1 .. Len(steps)
      BY <1>1, <3>1
    <3>4. ASSUME NEW i \in 1 .. Len(steps) + 1 PROVE steps'[i] = i
      <4>1. CASE i = Len(steps) + 1
        BY <1>1, <3>2, <3>3, <4>1
      <4>2. CASE i \in 1 .. Len(steps)
        BY <3>2, <3>3, <4>2
      <4> QED BY <3>3, <4>1, <4>2
    <3>5. Len(steps') = Len(tree') /\ published' <= Len(tree')
            /\ published' = Len(tree')
      BY <1>1, <2>1, <3>2, <3>3
    <3> QED BY <2>1, <2>2, <3>1, <3>3, <3>4, <3>5 DEF TreeInv, Keeping
  <2>4. CASE after # "keep"
    <3>1. steps' = steps /\ pc' \in {"session", "closing", "collected"}
      BY <1>1, <1>6, <2>4 DEF Publish
    <3>2. Len(steps) = Len(tree) /\ \A i \in DOMAIN steps : steps[i] = i
      BY <2>1, <2>4 DEF TreeInv, Keeping, Sessions
    <3>3. published' <= Len(tree') /\ published' = Len(tree')
      BY <1>1, <2>1
    <3> QED BY <2>1, <2>2, <3>1, <3>2, <3>3 DEF TreeInv, Keeping
  <2> QED BY <2>3, <2>4
<1>7. CASE ValidateFails \/ Collect
  <2>1. /\ pc \in {"session", "closing"} /\ pc' = "unpublish" /\ after' # "keep"
        /\ UNCHANGED <<tree, sidecars, published, steps>>
    BY <1>7 DEF ValidateFails, Collect, Turn, disk, session
  <2> QED BY <2>1 DEF TreeInv, Keeping, Sessions
<1>8. CASE Register \/ CompleteRow
  <2>1. /\ pc \in {"collected", "completing"}
        /\ pc' \in {"failing", "completing", "record"}
        /\ UNCHANGED <<tree, sidecars, published, steps, outcome>>
    BY <1>8 DEF Register, CompleteRow, disk, session, ending
  <2>2. pc' = "record" /\ nominee' = None /\ outcome' # "environment_blocked" =>
          \A n \in DOMAIN tree : ~tree[n]
    <3>1. CASE Register
      BY <2>1, <3>1, NothingRegisters
    <3>2. CASE CompleteRow
      <4>1. nominee' # None
        BY <3>2 DEF CompleteRow, ending, NomineeInv
      <4> QED BY <4>1
    <3> QED BY <1>8, <3>1, <3>2
  <2> QED BY <2>1, <2>2 DEF TreeInv, Keeping, Sessions, None
<1>9. CASE ~TreeWrite
  BY <1>9, TreeWriters DEF TreeInv, Keeping
<1> QED BY <1>2, <1>3, <1>4, <1>5, <1>6, <1>7, <1>8, <1>9 DEF TreeWrite

\* The research record is only written, and the tree and the record only
\* grow, while research is open.
LEMMA DeliverableStays ==
    ASSUME TypeOK, StageInv, CandInv, TreeInv, DeliverableKept, Next
    PROVE  DeliverableKept'
<1>1. CASE RecordResearch
  <2>1. /\ pc = "record" /\ UNCHANGED <<tests, tree>>
        /\ research' = Append(research, [run |-> run, registered |-> nominee,
                                         end |-> EndStatus])
    BY <1>1 DEF RecordResearch, disk
  <2>2. research = <<>>
    BY <2>1 DEF StageInv, Sessions
  <2>3. DOMAIN research' = {1} /\ research'[1].end = EndStatus
    BY <2>1, <2>2
  <2>4. EndStatus = "no_deliverable" =>
          tests = <<>> /\ \A n \in DOMAIN tree : ~tree[n]
    BY <2>1 DEF EndStatus, CandInv, TreeInv
  <2> QED BY <2>1, <2>3, <2>4 DEF DeliverableKept
<1>2. CASE research' = research /\ research = <<>>
  BY <1>2 DEF DeliverableKept
<1>3. CASE research' = research /\ research # <<>>
  <2>1. pc \notin Sessions
    BY <1>3 DEF StageInv
  <2>2. tests' = tests
    BY <2>1, LedgerWriters DEF LedgerWrite, ledger, Test, CompleteRow, Turn,
       RecoverRecord, RecordResearch, RecordForward, RecordMutation,
       RecordFailure, Sessions
  <2>3. tree' = tree
    BY <2>1, DiskWriters DEF DiskWrite, disk, RecoverDrop, BeginResearch,
       Resolve, Seed, Turn, RecordSidecar, Unpublish, Publish, FinishRun,
       BeginForward, Unmark, Kill, RaiseLimit, Sessions
  <2> QED BY <1>3, <2>2, <2>3 DEF DeliverableKept
<1> QED BY <1>1, <1>2, <1>3, LedgerWriters DEF LedgerWrite, ledger, Test,
        CompleteRow, RecoverRecord, RecordForward, RecordMutation, RecordFailure

\* The invariant of the session's files.
LEMMA FilesInductive == ~TornWrites => (Spec => [](TreeInv /\ DeliverableKept))
<1> SUFFICES ASSUME ~TornWrites PROVE Spec => [](TreeInv /\ DeliverableKept)
  OBVIOUS
<1>1. Init => TreeInv /\ DeliverableKept
  BY DEF Init, TreeInv, DeliverableKept, Sessions
<1>2. IInv /\ OutcomeInv /\ TreeInv /\ DeliverableKept /\ Next
        => (TreeInv /\ DeliverableKept)'
  BY TreeKept, DeliverableStays DEF IInv, OutcomeInv
<1>3. TreeInv /\ DeliverableKept /\ UNCHANGED vars => (TreeInv /\ DeliverableKept)'
  BY DEF vars, ledger, disk, session, ending, TreeInv, Keeping, DeliverableKept,
     None
<1>4. IInv /\ OutcomeInv /\ TreeInv /\ DeliverableKept /\ [Next]_vars
        => (TreeInv /\ DeliverableKept)'
  BY <1>2, <1>3
<1> QED BY <1>1, <1>4, Inductive, OutcomeInductive, PTL DEF Spec

\* An attempt can nominate every node the session's attempts validated,
\* wherever they failed, stopped or were killed outside a Validation's writes.
THEOREM EveryNodeSeen == ~TornWrites => (Spec => []ResumeSeesEveryNode)
<1> SUFFICES ASSUME ~TornWrites PROVE Spec => []ResumeSeesEveryNode
  OBVIOUS
<1>1. TypeOK /\ TreeInv => ResumeSeesEveryNode
  <2> SUFFICES ASSUME TypeOK, TreeInv, pc = "session"
               PROVE  { steps[i] : i \in DOMAIN steps } = DOMAIN tree
    BY DEF ResumeSeesEveryNode
  <2>1. steps \in Seq(Nat) /\ tree \in Seq(BOOLEAN)
    BY DEF TypeOK, SessionType, DiskType
  <2>2. Len(steps) = Len(tree) /\ \A i \in DOMAIN steps : steps[i] = i
    BY DEF TreeInv, Keeping, Sessions
  <2>3. DOMAIN steps = DOMAIN tree
    BY <2>1, <2>2
  <2> QED BY <2>2, <2>3
<1> QED BY <1>1, TypeCorrect, FilesInductive, PTL

\* No attempt is refused because of a node published before its sidecar.
THEOREM AlwaysResumable == ~TornWrites => (Spec => []Resumable)
<1> SUFFICES ASSUME ~TornWrites PROVE Spec => []Resumable
  OBVIOUS
<1>1. TypeOK /\ TreeInv => Resumable
  <2> SUFFICES ASSUME TypeOK, TreeInv, NEW n \in 1 .. published
               PROVE  n \in sidecars
    BY DEF Resumable, Loadable, Published
  <2>1. tree \in Seq(BOOLEAN) /\ published \in Nat /\ published <= Len(tree)
    BY DEF TypeOK, DiskType, TreeInv
  <2>2. n \in DOMAIN tree /\ (pc = "sidecar" => n # Len(tree))
    BY <2>1 DEF TreeInv
  <2> QED BY <2>2 DEF TreeInv
<1> QED BY <1>1, TypeCorrect, FilesInductive, PTL

\* An experiment ends without a deliverable only when nothing was tested and
\* no Validation of its tree registers.
THEOREM DeliverableAlwaysKept == ~TornWrites => (Spec => []DeliverableKept)
<1> SUFFICES ASSUME ~TornWrites PROVE Spec => []DeliverableKept
  OBVIOUS
<1> QED BY FilesInductive, PTL

-----------------------------------------------------------------------------
(* Nobody is killed: every attempt comes to its record or its failure.      *)

Graceful == ~TornWrites /\ MaxKills = 0

\* A run has its outcome, or is the one at work.
AuditInv ==
    /\ \A r \in 1 .. lastRun :
         \/ r \in Outcomes
         \/ AtWork /\ r = run /\ \E m \in markers : m.run = r
    /\ \A m \in markers : m.run \in Outcomes \/ (AtWork /\ m.run = run)

\* Without a kill an attempt ends with a row of its own.
LEMMA EndsWithRow ==
    TypeOK /\ Next /\ Graceful /\ AtWork /\ ~AtWork' =>
        RecordResearch \/ RecordForward \/ RecordMutation \/ RecordFailure
<1> SUFFICES ASSUME TypeOK, Next, Graceful, AtWork, ~AtWork'
             PROVE  RecordResearch \/ RecordForward \/ RecordMutation \/ RecordFailure
  OBVIOUS
<1>1. pc \in PCs /\ after \in {"keep", "session", "closing", "collected"}
        /\ kills \in Nat
  BY DEF TypeOK, WorkerType, EndingType
<1>2. ~Kill
  BY <1>1 DEF Kill, Graceful
<1>3. ~Terminate
  BY <1>1 DEF Terminate, UnwindsTo, Torn, Graceful, AtWork, Attempting, Sessions
<1> QED BY <1>1, <1>2, <1>3 DEF AtWork, Attempting, PCs, Sessions, Next, Work,
         StartWorker, RecoverRecord,
         RecoverDrop, Recovered, NextSession, BeginRefused, BeginResearch,
         Resolve, Seed, Think, Validate, RecordSidecar, Unpublish, Publish,
         ValidateFails, Test, TestFails, Deadline, Collect, Register,
         CompleteRow, FinishRun, BeginForward, AttemptError, Unmark,
         RaiseLimit, Turn

\* An outcome in the ledger stays there.
LEMMA OutcomesGrow ==
    ASSUME TypeOK, RunInv, Next
    PROVE  /\ Outcomes \subseteq Outcomes'
           /\ RecordResearch \/ RecordForward \/ RecordMutation \/ RecordFailure
                => run \in Outcomes'
<1>1. \A S : \A log \in Seq(S) : \A r : Append(log, r) # log
  <2> SUFFICES ASSUME NEW S, NEW log \in Seq(S), NEW r, Append(log, r) = log
               PROVE  FALSE
    OBVIOUS
  <2>1. Len(Append(log, r)) = Len(log) + 1 /\ Len(log) \in Nat
    OBVIOUS
  <2> QED BY <2>1
<1>2. ~ (/\ RecordResearch \/ RecordForward \/ RecordMutation \/ RecordFailure
         /\ UNCHANGED <<failed, research, forwards>>)
  <2>1. /\ failed \in Seq(Attempt) /\ research \in Seq(LogRow)
        /\ forwards \in Seq(ReadingRow)
    BY DEF TypeOK, LedgerType, LogRow, ReadingRow
  <2> QED BY <1>1, <2>1 DEF RecordFailure, RecordResearch, RecordForward,
          RecordMutation
<1>3. ~ (/\ RecordResearch \/ RecordForward \/ RecordMutation \/ RecordFailure
         /\ RecoverRecord)
  BY DEF RecoverRecord, RecordFailure, RecordResearch, RecordForward,
     RecordMutation
<1>4. \A log, new : new = log => RunsIn(new) = RunsIn(log)
  OBVIOUS
<1>5. CASE UNCHANGED <<failed, research, forwards>>
  BY <1>2, <1>5 DEF Outcomes, RunsIn
<1>6. CASE RecoverRecord
  BY <1>3, <1>6, LedgerGrows DEF Outcomes, RunsIn
<1>7. CASE \/ /\ UNCHANGED <<research, forwards>>
              /\ RunsIn(failed') = RunsIn(failed) \cup {run}
           \/ /\ UNCHANGED <<failed, forwards>>
              /\ RunsIn(research') = RunsIn(research) \cup {run}
           \/ /\ UNCHANGED <<failed, research>>
              /\ RunsIn(forwards') = RunsIn(forwards) \cup {run}
  <2>1. /\ research' = research => RunsIn(research') = RunsIn(research)
        /\ failed' = failed => RunsIn(failed') = RunsIn(failed)
        /\ forwards' = forwards => RunsIn(forwards') = RunsIn(forwards)
    BY DEF RunsIn
  <2> QED BY <1>7, <2>1 DEF Outcomes
<1> QED BY <1>5, <1>6, <1>7, LedgerGrows

\* Every step keeps the runs audited.
LEMMA AuditKept ==
    ASSUME TypeOK, RunInv, AuditInv, Next, Graceful
    PROVE  AuditInv'
<1>1. lastRun \in Nat /\ Outcomes \subseteq Outcomes'
  BY OutcomesGrow DEF TypeOK, WorkerType
<1>2. CASE BeginResearch \/ BeginForward
  <2>1. /\ run' = lastRun + 1 /\ lastRun' = lastRun + 1
        /\ pc' \in {"resolve", "replay"} /\ pc = "begin"
    BY <1>2 DEF BeginResearch, BeginForward
  <2>2. AtWork' /\ ~AtWork
    BY <2>1 DEF AtWork, Attempting, Sessions
  <2>3. \E m \in markers' : m.run = lastRun + 1
    BY <1>2, MarkedRuns
  <2>4. ASSUME NEW r \in 1 .. lastRun' PROVE r \in Outcomes' \/ r = lastRun + 1
    <3>1. r \in 1 .. lastRun \/ r = lastRun + 1
      BY <1>1, <2>1
    <3> QED BY <1>1, <2>2, <3>1 DEF AuditInv
  <2>5. ASSUME NEW m \in markers' PROVE m.run \in Outcomes' \/ m.run = lastRun + 1
    BY <1>1, <2>2, MarkedRuns DEF AuditInv
  <2> QED BY <2>1, <2>2, <2>3, <2>4, <2>5 DEF AuditInv
<1>3. CASE ~(BeginResearch \/ BeginForward)
  <2>1. run' = run /\ lastRun' = lastRun
    BY <1>3, RunWriters
  <2>2. AtWork => AtWork' \/ run \in Outcomes'
    BY EndsWithRow, OutcomesGrow
  <2>3. AtWork => \A m \in markers : \E k \in markers' : k.run = m.run
    BY MarkedRuns DEF RecoverDrop, FinishRun, Unmark, AtWork, Attempting, Sessions
  <2>4. ASSUME NEW r \in 1 .. lastRun'
        PROVE  \/ r \in Outcomes'
               \/ AtWork' /\ r = run' /\ \E m \in markers' : m.run = r
    BY <1>1, <2>1, <2>2, <2>3 DEF AuditInv
  <2>5. ASSUME NEW m \in markers'
        PROVE  m.run \in Outcomes' \/ (AtWork' /\ m.run = run')
    <3>1. PICK k \in markers : k.run = m.run
      BY <1>3, MarkedRuns
    <3> QED BY <1>1, <2>1, <2>2, <3>1 DEF AuditInv
  <2> QED BY <2>4, <2>5 DEF AuditInv
<1> QED BY <1>2, <1>3

-----------------------------------------------------------------------------
(* The spend a resumed attempt starts from is what its session spent.       *)

Spenders == { i \in Attempts : traced[failed[i].run] > 0 }
LastSpender == CHOOSE i \in Spenders : \A j \in Spenders : j <= i

LEMMA LastSpendIs ==
    LastSpend = IF Spenders = {} THEN 0 ELSE traced[failed[LastSpender].run]
  BY DEF LastSpend, Spenders, LastSpender

\* A step that leaves the traces the failed attempts name leaves the spend.
LEMMA SpendStands ==
    ASSUME LedgerType, Spenders' = Spenders,
           \A i \in Spenders : (traced[failed[i].run])' = traced[failed[i].run]
    PROVE  LastSpend' = LastSpend
<1>1. LastSpend' = IF Spenders' = {} THEN 0 ELSE traced'[failed'[LastSpender'].run]
  BY DEF LastSpend, Spenders, LastSpender
<1>2. LastSpender' = LastSpender
  BY DEF LastSpender
<1>3. CASE Spenders = {}
  BY <1>1, <1>3, LastSpendIs
<1>4. CASE Spenders # {}
  <2>1. Spenders \subseteq 1 .. Len(failed) /\ Len(failed) \in Nat
    BY DEF Spenders, Attempts, LedgerType
  <2>2. LastSpender \in Spenders
    <3>1. \E i \in Spenders : \A j \in Spenders : j <= i
      BY <1>4, <2>1, LastPosition
    <3> QED BY <3>1 DEF LastSpender
  <2> QED BY <1>1, <1>2, <1>4, <2>2, LastSpendIs
<1> QED BY <1>3, <1>4

\* The last failed attempt that names a spend is the one that counts.
LEMMA SpendAppended ==
    ASSUME TypeOK, NEW row \in Attempt, failed' = Append(failed, row),
           traced' = traced, row.phase = "research"
    PROVE  LastSpend' = IF traced[row.run] > 0 THEN traced[row.run] ELSE LastSpend
<1> DEFINE n == Len(failed) + 1
<1>1. /\ failed \in Seq(Attempt) /\ traced \in [Runs -> Nat] /\ Len(failed) \in Nat
      /\ DOMAIN failed = 1 .. Len(failed) /\ DOMAIN failed' = 1 .. n
      /\ \A i \in 1 .. Len(failed) : failed'[i] = failed[i]
      /\ failed'[n] = row
  BY DEF TypeOK, LedgerType, DiskType
<1> HIDE DEF n
<1>2. n = Len(failed) + 1 /\ n \in Nat /\ 1 .. n = (1 .. Len(failed)) \cup {n}
  BY <1>1 DEF n
<1>3. Attempts' = Attempts \cup {n}
  BY <1>1, <1>2 DEF Attempts
<1>4. /\ \A i \in Attempts : failed'[i] = failed[i] /\ i \in 1 .. Len(failed)
      /\ failed'[n] = row
  BY <1>1 DEF Attempts
<1>5. CASE traced[row.run] > 0
  <2>1. n \in Spenders' /\ \A j \in Spenders' : j <= n
    <3>1. n \in Spenders'
      BY <1>3, <1>4, <1>5 DEF Spenders
    <3>2. \A j \in Attempts' : j <= n
      BY <1>1, <1>2, <1>3, <1>4
    <3>3. Spenders' \subseteq Attempts'
      BY DEF Spenders
    <3> QED BY <3>1, <3>2, <3>3
  <2>2. LastSpender' \in Spenders' /\ \A j \in Spenders' : j <= LastSpender'
    BY <2>1, Zenon DEF LastSpender
  <2>3. LastSpend' = traced'[failed'[LastSpender'].run]
    <3>1. Spenders' # {}
      BY <2>1
    <3> QED BY <3>1, Zenon DEF LastSpend, Spenders, LastSpender
  <2>4. LastSpender' \in Nat
    <3>1. \A i \in Attempts' : i \in Nat
      BY <1>2, <1>3, <1>4
    <3> QED BY <2>2, <3>1 DEF Spenders
  <2>5. LastSpender' = n
    BY <1>2, <2>1, <2>2, <2>4
  <2> QED BY <1>4, <1>5, <2>3, <2>5
<1>6. CASE ~(traced[row.run] > 0)
  <2>1. Spenders' = Spenders
    BY <1>3, <1>4, <1>6 DEF Spenders
  <2>2. \A i \in Spenders : (traced[failed[i].run])' = traced[failed[i].run]
    BY <1>4 DEF Spenders
  <2> QED BY <1>6, <2>1, <2>2, SpendStands DEF TypeOK
<1> QED BY <1>5, <1>6

\* Where a research attempt has spent what its failure row will name.
InTheSession == pc \in Sessions \/ (pc = "failing" /\ phase = "research")

\* The session's count is what was really spent; its trace carries it on if
\* it took a turn, and the attempts before it do if it took none.
SpendInv ==
    /\ \A r \in Runs : r > lastRun => traced[r] = 0
    /\ InTheSession => /\ used = spent
                       /\ traced[run] \in {0, spent}
                       /\ traced[run] = 0 => LastSpend = spent
    /\ research = <<>> /\ ~InTheSession => LastSpend = spent
    /\ spent <= limit

ATurn == Think \/ Validate \/ ValidateFails \/ Test \/ TestFails
SpendWrite == ATurn \/ BeginResearch \/ RecordFailure \/ RecoverRecord
                \/ RecordResearch

\* Every other step leaves the session's spend, and who is in it, alone.
LEMMA SpendWriters ==
    TypeOK /\ StageInv /\ Next /\ Graceful /\ ~SpendWrite =>
        /\ UNCHANGED <<failed, research, traced, used, spent>>
        /\ limit <= limit' /\ lastRun <= lastRun'
        /\ InTheSession' => InTheSession /\ run' = run
        /\ InTheSession => InTheSession'
<1> SUFFICES ASSUME TypeOK, StageInv, Next, Graceful, ~SpendWrite
             PROVE  /\ UNCHANGED <<failed, research, traced, used, spent>>
                    /\ limit <= limit' /\ lastRun <= lastRun'
                    /\ InTheSession' => InTheSession /\ run' = run
                    /\ InTheSession => InTheSession'
  OBVIOUS
<1>1. /\ pc \in PCs /\ after \in {"keep", "session", "closing", "collected"}
      /\ kills \in Nat /\ lastRun \in Nat /\ limit \in Nat
      /\ pc \in Sessions => phase = "research"
      /\ pc = "replay" => phase = "forward"
  BY DEF TypeOK, WorkerType, EndingType, DiskType, StageInv
<1>2. ~Kill
  BY <1>1 DEF Kill, Graceful
<1>3. UNCHANGED <<failed, research, traced, used, spent>>
  BY <1>2 DEF SpendWrite, ATurn, Next, Work, ledger, disk, session, history,
         StartWorker, RecoverDrop, Recovered, NextSession, BeginRefused,
         Resolve, Seed, RecordSidecar, Unpublish, Publish, Deadline, Collect,
         Register, CompleteRow, FinishRun, BeginForward, RecordForward,
         RecordMutation, AttemptError, Unmark, Terminate, RaiseLimit
<1>4. limit <= limit' /\ lastRun <= lastRun'
  <2>1. lastRun' \in {lastRun, lastRun + 1}
    BY RunWriters
  <2>2. limit' = limit \/ limit' \in limit + 1 .. MaxLimit
    BY <1>2, DiskWriters DEF SpendWrite, DiskWrite, disk, RecoverDrop, Resolve,
       Seed, RecordSidecar, Unpublish, Publish, FinishRun, BeginForward,
       Unmark, RaiseLimit, BeginResearch, Next, Work, ATurn, Turn, StartWorker,
       Recovered, NextSession, BeginRefused, Deadline, Collect, Register,
       CompleteRow, RecordForward, RecordMutation, AttemptError, Terminate
  <2> QED BY <1>1, <2>1, <2>2, ConstantsAssumption
<1>5. InTheSession' => InTheSession /\ run' = run
  <2>1. InTheSession' => InTheSession
    BY <1>1, <1>2 DEF InTheSession, SpendWrite, ATurn, PCs, Attempting, Sessions,
         UnwindsTo, Next, Work, ending,
         StartWorker, RecoverDrop, Recovered, NextSession, BeginRefused,
         Resolve, Seed, RecordSidecar, Unpublish, Publish, Deadline, Collect,
         Register, CompleteRow, FinishRun, BeginForward, RecordForward,
         RecordMutation, AttemptError, Unmark, Terminate, RaiseLimit
  <2>2. InTheSession => run' = run
    BY RunWriters DEF InTheSession, Sessions, BeginResearch, BeginForward
  <2> QED BY <2>1, <2>2
<1>6. InTheSession => InTheSession'
  BY <1>1, <1>2 DEF InTheSession, SpendWrite, ATurn, PCs, Attempting, Sessions,
         UnwindsTo, Torn, Graceful, Next, Work, ending,
         StartWorker, RecoverDrop, Recovered, NextSession, BeginRefused,
         Resolve, Seed, RecordSidecar, Unpublish, Publish, Deadline, Collect,
         Register, CompleteRow, FinishRun, BeginForward, RecordForward,
         RecordMutation, AttemptError, Unmark, Terminate, RaiseLimit
<1> QED BY <1>3, <1>4, <1>5, <1>6

\* Every step keeps the spend.
LEMMA SpendKept ==
    ASSUME TypeOK, StageInv, RunInv, ForwardInv, AuditInv, SpendInv, Next, Graceful
    PROVE  SpendInv'
<1>1. /\ LedgerType /\ traced \in [Runs -> Nat] /\ used \in Nat /\ spent \in Nat
      /\ limit \in Nat /\ lastRun \in Nat /\ failed \in Seq(Attempt)
  BY DEF TypeOK, LedgerType, DiskType, SessionType, WorkerType
<1>2. ASSUME failed' = failed, traced' = traced PROVE LastSpend' = LastSpend
  BY <1>2 DEF LastSpend, Attempts
<1>3. CASE BeginResearch
  <2>1. /\ pc = "begin" /\ phase = "research" /\ used' = LastSpend
        /\ pc' = "resolve" /\ run' = lastRun + 1 /\ lastRun' = lastRun + 1
        /\ lastRun + 1 \in Runs
        /\ UNCHANGED <<failed, research, traced, spent, limit>>
    BY <1>1, <1>3, ConstantsAssumption DEF BeginResearch, ledger, disk, Runs
  <2>2. research = <<>> /\ ~InTheSession
    BY <2>1 DEF StageInv, InTheSession, Sessions
  <2>3. LastSpend = spent /\ traced[run'] = 0 /\ InTheSession'
    BY <1>1, <2>1, <2>2 DEF SpendInv, InTheSession, Sessions
  <2>4. \A r \in Runs' : r > lastRun' => traced'[r] = 0
    BY <1>1, <2>1 DEF SpendInv, Runs
  <2> QED BY <1>2, <2>1, <2>3, <2>4 DEF SpendInv
<1>4. CASE ATurn
  <2>1. /\ pc = "session" /\ used < limit /\ used' = used + 1 /\ spent' = spent + 1
        /\ traced' = [traced EXCEPT ![run] = used + 1]
        /\ UNCHANGED <<failed, limit, run, lastRun>>
    BY <1>4 DEF ATurn, Think, Validate, ValidateFails, Test, TestFails, Turn,
       ledger
  <2>2. InTheSession' /\ InTheSession
    BY <1>4, <2>1 DEF ATurn, Think, Validate, ValidateFails, Test, TestFails,
       InTheSession, Sessions
  <2>3. used = spent /\ run \in Runs /\ run \in 1 .. lastRun
    BY <2>1, <2>2, RunIsKnown DEF SpendInv, RunInv, AtWork, Attempting, Sessions
  <2>4. traced'[run] = spent' /\ traced'[run] > 0
    BY <1>1, <2>1, <2>3
  <2>5. \A r \in Runs' : r > lastRun' => traced'[r] = 0
    BY <1>1, <2>1, <2>3 DEF SpendInv, Runs
  <2>6. spent' <= limit' /\ used' = spent'
    BY <1>1, <2>1, <2>3
  <2>7. traced'[run'] \in {0, spent'} /\ traced'[run'] # 0
    BY <1>1, <2>1, <2>4
  <2> QED BY <2>2, <2>5, <2>6, <2>7 DEF SpendInv
<1>5. CASE RecordFailure
  <2>1. /\ pc = "failing" /\ pc' = "unmark"
        /\ failed' = Append(failed, [run |-> run, phase |-> phase])
        /\ UNCHANGED <<research, traced, used, spent, limit, lastRun, run, phase>>
    BY <1>5 DEF RecordFailure, disk, session, history
  <2>2. [run |-> run, phase |-> phase] \in Attempt
    BY <2>1, RunIsKnown DEF TypeOK, WorkerType, Attempt
  <2>3. ~InTheSession'
    BY <2>1 DEF InTheSession, Sessions
  <2>4. research' = <<>> => LastSpend' = spent'
    <3> SUFFICES ASSUME research = <<>> PROVE LastSpend' = spent
      BY <2>1
    <3>1. phase = "research"
      BY <2>1 DEF ForwardInv, Registered, TypeOK, WorkerType
    <3>2. LastSpend' = IF traced[run] > 0 THEN traced[run] ELSE LastSpend
      BY <2>1, <2>2, <3>1, SpendAppended
    <3>3. traced[run] \in {0, spent} /\ (traced[run] = 0 => LastSpend = spent)
      BY <2>1, <3>1 DEF SpendInv, InTheSession
    <3> QED BY <1>1, <3>2, <3>3
  <2> QED BY <2>1, <2>3, <2>4 DEF SpendInv, Runs
<1>6. CASE RecoverRecord
  <2>1. PICK m \in markers : m.run \notin Recorded /\ pc = "recovering"
    BY <1>6 DEF RecoverRecord
  <2>2. m.run \in Outcomes
    BY <2>1 DEF AuditInv, AtWork, Attempting, Sessions
  <2> QED BY <2>1, <2>2 DEF Outcomes, Recorded
<1>7. CASE RecordResearch
  <2>1. /\ pc' = "finish" /\ research' # <<>>
        /\ UNCHANGED <<traced, spent, limit, lastRun>>
    <3>1. research \in Seq(LogRow)
      BY DEF TypeOK, LedgerType, LogRow
    <3>2. research' = Append(research, [run |-> run, registered |-> nominee,
                                        end |-> EndStatus])
      BY <1>7 DEF RecordResearch
    <3>3. Len(research') = Len(research) + 1 /\ Len(research) \in Nat
      BY <3>1, <3>2
    <3>4. research' # <<>>
      BY <3>3
    <3> QED BY <1>7, <3>4 DEF RecordResearch, disk, history
  <2> QED BY <2>1 DEF SpendInv, InTheSession, Sessions, Runs
<1>8. CASE ~SpendWrite
  <2>1. /\ UNCHANGED <<failed, research, traced, used, spent>>
        /\ limit <= limit' /\ lastRun <= lastRun'
        /\ InTheSession' => InTheSession /\ run' = run
        /\ InTheSession => InTheSession'
    BY <1>8, SpendWriters
  <2>2. limit' \in Nat /\ lastRun' \in Nat
    BY DiskTypeKept, WorkerTypeKept DEF DiskType, WorkerType
  <2>3. spent' <= limit'
    BY <1>1, <2>1, <2>2 DEF SpendInv
  <2>4. \A r \in Runs' : r > lastRun' => traced'[r] = 0
    BY <1>1, <2>1, <2>2 DEF SpendInv, Runs
  <2>5. LastSpend' = LastSpend
    BY <1>2, <2>1
  <2> QED BY <2>1, <2>3, <2>4, <2>5 DEF SpendInv
<1> QED BY <1>3, <1>4, <1>5, <1>6, <1>7, <1>8 DEF SpendWrite

\* The invariant of the audit and the spend.
LEMMA GracefulInductive == Graceful => (Spec => [](AuditInv /\ SpendInv))
<1> SUFFICES ASSUME Graceful PROVE Spec => [](AuditInv /\ SpendInv)
  OBVIOUS
<1>1. Init => AuditInv /\ SpendInv
  <2> SUFFICES ASSUME Init PROVE AuditInv /\ SpendInv
    OBVIOUS
  <2>1. AuditInv
    BY DEF Init, AuditInv
  <2>2. LastSpend = 0
    BY DEF Init, LastSpend, Attempts
  <2>3. ~InTheSession
    BY DEF Init, InTheSession, Sessions
  <2> QED BY <2>1, <2>2, <2>3, ConstantsAssumption DEF Init, SpendInv, Runs
<1>2. IInv /\ OutcomeInv /\ AuditInv /\ SpendInv /\ Next
        => (AuditInv /\ SpendInv)'
  BY AuditKept, SpendKept DEF IInv, OutcomeInv
<1>3. AuditInv /\ SpendInv /\ UNCHANGED vars => (AuditInv /\ SpendInv)'
  <2> SUFFICES ASSUME AuditInv, SpendInv, UNCHANGED vars
               PROVE  AuditInv' /\ SpendInv'
    OBVIOUS
  <2>1. LastSpend' = LastSpend
    BY DEF vars, ledger, disk, LastSpend, Attempts
  <2>2. InTheSession' = InTheSession
    BY DEF vars, InTheSession
  <2>3. AuditInv'
    BY DEF vars, ledger, history, AuditInv, AtWork, Attempting, Outcomes, RunsIn
  <2>4. SpendInv'
    BY <2>1, <2>2 DEF vars, ledger, disk, session, history, SpendInv, Runs
  <2> QED BY <2>3, <2>4
<1>4. IInv /\ OutcomeInv /\ AuditInv /\ SpendInv /\ [Next]_vars
        => (AuditInv /\ SpendInv)'
  BY <1>2, <1>3
<1> QED BY <1>1, <1>4, Inductive, OutcomeInductive, PTL DEF Spec

\* However attempts fail, are terminated and resume, the turns the model took
\* stay within the session's budget.
THEOREM SpendAlwaysWithinLimit == Graceful => (Spec => []SpendWithinLimit)
<1> SUFFICES ASSUME Graceful PROVE Spec => []SpendWithinLimit
  OBVIOUS
<1>1. SpendInv => SpendWithinLimit
  BY DEF SpendInv, SpendWithinLimit
<1> QED BY <1>1, GracefulInductive, PTL

\* A run that died has its row, or still the marker the next start turns into
\* one.
THEOREM DeadRunsAudited == Graceful => (Spec => []EveryDeadRunAudited)
<1> SUFFICES ASSUME Graceful PROVE Spec => []EveryDeadRunAudited
  OBVIOUS
<1>1. AuditInv => EveryDeadRunAudited
  BY DEF AuditInv, EveryDeadRunAudited, Outcomes
<1> QED BY <1>1, GracefulInductive, PTL
================================================================================
