----------------------------- MODULE PaperAccount ------------------------------
(***************************************************************************)
(* What a Paper book promises, with no files, runs or crashes in it: one   *)
(* research replay stretched over the calendar.  Each session is decided   *)
(* at most once, before it is settled and after everything before it was,  *)
(* and its order sheet never changes; sessions settle one at a time and in *)
(* order; a killed book decides nothing more.                              *)
(***************************************************************************)
EXTENDS Integers

CONSTANTS
    N,          \* exchange sessions 1 .. N
    DueDays,    \* the sessions the book's schedule decides
    Sheets      \* the order sheets a strategy may answer

VARIABLES
    sheet,      \* per session: its orders, or Undecided
    settled,    \* the last session settled
    standing    \* "observing", "confirmed" or "killed"

avars == <<sheet, settled, standing>>

Undecided == {"undecided"}
AbstractDays == 1 .. N
DecidedDays == { d \in AbstractDays : sheet[d] # Undecided }

AInit ==
    /\ sheet = [d \in AbstractDays |-> Undecided]
    /\ settled = 0
    /\ standing = "observing"

\* The first session a book decides starts it, due or not; the sessions after
\* it settle one by one.
ADecide(d) ==
    /\ standing # "killed"
    /\ sheet[d] = Undecided /\ sheet'[d] # Undecided
    /\ DecidedDays = {} \/ (d \in DueDays /\ settled = d - 1)
    /\ \E orders \in Sheets : sheet' = [sheet EXCEPT ![d] = orders]
    /\ UNCHANGED <<settled, standing>>

ASettle(d) ==
    /\ standing # "killed"
    /\ settled' = d
    /\ IF settled = 0 THEN sheet[d] # Undecided ELSE d = settled + 1
    /\ d \in DueDays => sheet[d] # Undecided
    /\ UNCHANGED <<sheet, standing>>

AVerdict ==
    /\ standing = "observing"
    /\ settled > 0
    /\ standing' \in {"confirmed", "killed"}
    /\ UNCHANGED <<sheet, settled>>

ANext ==
    \/ \E d \in AbstractDays : ADecide(d) \/ ASettle(d)
    \/ AVerdict

ASpec == AInit /\ [][ANext]_avars
================================================================================
