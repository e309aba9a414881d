------------------------------ MODULE PaperEngine ------------------------------
(***************************************************************************)
(* One Paper book: the daily run that settles its landed sessions and      *)
(* decides the next one, the console's real-fill records it settles from,  *)
(* and the verdict that may end it.                                        *)
(*                                                                         *)
(* Durable: the checkpoint (.paper_state.json), replaced in one rename;    *)
(* the journals, rows appended one by one from the checkpoint's outbox;    *)
(* fills.jsonl, which the console appends without the book's writer lock;  *)
(* the fitted states; the verdict log.  Volatile: the one run that holds   *)
(* the writer lock.  A run has one action per checkpoint it writes; the    *)
(* rows of an outbox are appended in one step, which a crash may cut after *)
(* any row or inside one.                                                  *)
(*                                                                         *)
(* Abstracted: one name; a sheet holds at most one sale and one purchase   *)
(* of OrderQty for its own session; the strategy, its replayed calls and   *)
(* the data views are choices (an order set, a refusal); equities, quotes, *)
(* warnings, error texts and the simulated track's journal are left out;   *)
(* the verdict's statistic is a choice.                                    *)
(***************************************************************************)
EXTENDS PaperBroker

CONSTANTS
    N,              \* exchange sessions 1 .. N
    DueDays,        \* the sessions the schedule decides
    FitDays,        \* the sessions a due decision refits on, the first aside
    Cash,           \* the capital the book opens with
    OrderQty,       \* shares of a sheet's order
    Sheets,         \* the sheets a decision may answer
    FillQtys, FillPrices,   \* what the owner may record
    ExDates,        \* the sessions the name may go ex-date on
    Verdicts,       \* the terminal readings the statistic may come to
    MaxUpsets,      \* bound: the console's records and the crashes, together
    Tearing         \* may a crash leave part of a row in a journal

ASSUME PaperAssumption ==
    /\ N \in Nat \ {0} /\ DueDays \subseteq 1 .. N /\ FitDays \subseteq 1 .. N
    /\ ExDates \subseteq 1 .. N
    /\ Cash \in Nat /\ OrderQty \in Nat \ {0}
    /\ Sheets \subseteq SUBSET {"buy", "sell"}
    /\ Verdicts \subseteq {"confirmed", "killed"}
    /\ FillQtys \subseteq Nat \ {0} /\ FillPrices \subseteq Nat \ {0}
    /\ MaxUpsets \in Nat /\ Tearing \in BOOLEAN

VARIABLES
    ckpt,       \* .paper_state.json
    journal,    \* the whole rows of the journals, in append order
    damaged,    \* a settlement journal holds a torn line
    fits,       \* the fitted states under .strategy_state
    fills,      \* fills.jsonl, the latest line of each key
    verdict,    \* the book's status: verdict.jsonl
    run,        \* the run that holds the writer lock
    exdates,    \* the market's ex-dates of the name
    today,      \* the calendar
    upsets      \* records appended and crashes so far

vars == <<ckpt, journal, damaged, fits, fills, verdict, run, exdates, today,
          upsets>>
market == <<exdates, today>>

Days == 1 .. N
Sides == {"buy", "sell"}
NotReal == N + 1            \* a book that follows no real fills covers no day

Silent == [is |-> "silent", q |-> 0, price |-> 0]
Simulated == [is |-> "simulated", q |-> 0, price |-> 0]
NotTraded == [is |-> "not_traded", q |-> 0, price |-> 0]
Filled == [is : {"filled"}, q : FillQtys, price : FillPrices]
Fills == {Simulated, NotTraded} \cup Filled

Nothing == [q |-> 0, notional |-> 0]
NoEntry == [ordered |-> FALSE, sim |-> Nothing, real |-> Nothing]
NoLedger == [d \in Days |-> [s \in Sides |-> NoEntry]]

NewState ==
    [start |-> 0, settled |-> 0, decided |-> [d \in Days |-> "no"],
     pending |-> {}, account |-> NewAccount(Cash), outbox |-> <<>>,
     after |-> NotReal, ledger |-> NoLedger, fit |-> 0, issued |-> 0]
NoRun == [pc |-> "idle", target |-> 0, said |-> <<>>, acted |-> {}]

\* Every row carries the identity its outbox gave it (event_id), a correction the
\* session it corrects.
Row(kind, day, side, shares, cash) ==
    [id |-> 0, kind |-> kind, day |-> day, side |-> side, shares |-> shares,
     cash |-> cash, corrects |-> 0]
Numbered(rows, from) ==
    [ i \in DOMAIN rows |-> [rows[i] EXCEPT !.id = from + i] ]
Queue(state, rows) ==
    [state EXCEPT !.outbox = @ \o Numbered(rows, state.issued),
                  !.issued = @ + Len(rows)]

DecidedOf(state) == { d \in Days : state.decided[d] # "no" }
LastDecided(state) ==
    IF DecidedOf(state) = {} THEN 0
    ELSE CHOOSE d \in DecidedOf(state) : \A e \in DecidedOf(state) : e <= d
\* Sessions decided after their own day: nobody held their sheet.
PostHoc(state, d) == state.decided[d] = "late"
OrderedOn(state, d) == { s \in Sides : <<d, s>> \in state.pending }
\* The sessions settled from the owner's records.
RealSessions(state) ==
    { d \in Days : state.after < d /\ state.start <= d /\ d <= state.settled }

Init ==
    /\ ckpt = NewState /\ journal = <<>> /\ damaged = FALSE /\ fits = {}
    /\ fills = [enabled |-> FALSE, session |-> [d \in Days |-> Silent],
                key |-> [d \in Days |-> [s \in Sides |-> Silent]]]
    /\ verdict = "observing" /\ run = NoRun
    /\ exdates \in SUBSET ExDates
    /\ today = 1
    /\ upsets = 0

(***************************************************************************)
(* The console's records, taken without the writer lock and checked        *)
(* against the checkpoint as it stands.                                    *)
(***************************************************************************)
Enable ==
    /\ ~fills.enabled
    /\ fills' = [fills EXCEPT !.enabled = TRUE]
    /\ UNCHANGED <<ckpt, journal, damaged, fits, verdict, run, market, upsets>>

After == IF ckpt.after # NotReal THEN ckpt.after ELSE ckpt.settled
OrderedKeys(d) ==
    OrderedOn(ckpt, d) \cup { s \in Sides : ckpt.ledger[d][s].ordered }
Recordable(d) ==
    /\ fills.enabled
    /\ After < d /\ d <= today
    /\ ckpt.decided[d] # "no" \/ d \in RealSessions(ckpt)
    /\ upsets < MaxUpsets

RecordFill(d, s, f) ==
    /\ Recordable(d)
    /\ f = Simulated => s \in OrderedKeys(d)
    /\ fills' = [fills EXCEPT !.key[d][s] = f]
    /\ upsets' = upsets + 1
    /\ UNCHANGED <<ckpt, journal, damaged, fits, verdict, run, market>>

RecordSession(d, f) ==
    /\ Recordable(d)
    /\ f \in {Simulated, NotTraded}
    /\ fills' = [fills EXCEPT !.session[d] = f]
    /\ upsets' = upsets + 1
    /\ UNCHANGED <<ckpt, journal, damaged, fits, verdict, run, market>>

(***************************************************************************)
(* What a key settles with: its own record, else its session's, else not   *)
(* traded for a session decided too late; Silent while nothing says.       *)
(***************************************************************************)
MutantResolve(said, state, d, s, ordered) ==    \* silence reads as filled
    IF said.key[d][s] # Silent THEN said.key[d][s]
    ELSE IF ~ordered THEN Silent
    ELSE IF said.session[d] # Silent THEN said.session[d]
    ELSE IF PostHoc(state, d) THEN NotTraded ELSE Simulated
Resolve(said, state, d, s, ordered) ==
    IF said.key[d][s] # Silent THEN said.key[d][s]
    ELSE IF ~ordered THEN Silent
    ELSE IF said.session[d] # Silent THEN said.session[d]
    ELSE IF PostHoc(state, d) THEN NotTraded ELSE Silent

Unresolved(said, state, target) ==
    { o \in state.pending :
        /\ state.after < o[1] /\ o[1] < target
        /\ Resolve(said, state, o[1], o[2], TRUE) = Silent }

(***************************************************************************)
(* Settling a session: open the day, fill its orders, the simulator on a   *)
(* copy when the owner's records settle the account.  A settlement in the  *)
(* making is the account, the rows and the ledger so far.                  *)
(***************************************************************************)
Opening(state, d) ==
    LET a  == OpenDay(state.account, d, d \in exdates)
        ex == Settles(state.account, d, d \in exdates)
    IN [account |-> a, ledger |-> state.ledger,
        rows |-> IF ex /\ ~Raised(a)
                 THEN <<Row("corporate_action", d, "none", a.held - state.account.held,
                            a.cash - state.account.cash)>>
                 ELSE <<>>]

Outcome(q, price) == [q |-> q, notional |-> q * price]
Booked(m, side, q, price, d, kind) ==
    LET a == Execute(m.account, side, q, price) IN
    IF Raised(m.account) \/ Raised(a) THEN [m EXCEPT !.account = Failed]
    ELSE [m EXCEPT !.account = a,
                   !.rows = Append(@, Row(kind, d, side, a.held - m.account.held,
                                          a.cash - m.account.cash))]
Unfilled(m, side, d) == [m EXCEPT !.rows = Append(@, Row("execution", d, side, 0, 0))]

\* The simulator fills what the market lets through and the account can carry.
SimStep(m, d, side, orders, open) ==
    IF side \notin orders THEN m
    ELSE IF side \in open /\ Accepts(m.account, side, OrderQty, LastClose)
         THEN Booked(m, side, OrderQty, LastClose, d, "execution")
         ELSE Unfilled(m, side, d)
Simulation(state, d, open) ==
    LET Step(m, side) == SimStep(m, d, side, OrderedOn(state, d), open)
    IN Step(Step(Opening(state, d), "sell"), "buy")
SimOutcome(state, d, side, open) ==
    IF \E r \in Range(Simulation(state, d, open).rows) :
          r.kind = "execution" /\ r.side = side /\ r.shares # 0
    THEN Outcome(OrderQty, LastClose) ELSE Nothing

\* What a record says was filled: the simulator's fill, the one it names, or nothing.
RecordedAs(f, sim) ==
    CASE f.is = "simulated" -> sim
      [] f.is = "filled" -> Outcome(f.q, f.price)
      [] OTHER -> Nothing

\* A sale recorded as simulated books what the simulator filled.
FillBooked(m, d, side, ordered, f, sim) ==
    LET real == RecordedAs(f, sim)
        price == IF f.is = "filled" THEN f.price ELSE LastClose
        entry == [ordered |-> ordered, sim |-> IF ordered THEN sim ELSE Nothing,
                  real |-> real]
        done == IF real.q > 0 THEN Booked(m, side, real.q, price, d, "execution")
                ELSE IF ordered THEN Unfilled(m, side, d) ELSE m
    IN [done EXCEPT !.ledger[d][side] = entry]

RealStep(m, state, said, d, side, sheet, open) ==
    LET ordered == side \in OrderedOn(state, d)
        f == Resolve(said, state, d, side, ordered)
    IN IF ordered # sheet \/ Raised(m.account) THEN m
       ELSE IF ordered /\ f = Silent THEN [m EXCEPT !.account = Failed]
       ELSE FillBooked(m, d, side, ordered, f, SimOutcome(state, d, side, open))

\* Corrections of the sessions settled from records so far.
CorrectStep(m, state, said, acted, s, side, d) ==
    LET entry == m.ledger[s][side]
        f == Resolve(said, state, s, side, entry.ordered)
        target == RecordedAs(f, entry.sim)
        exDated == \/ \E e \in acted : e > s
                   \/ \E r \in Range(journal) : r.kind = "corporate_action" /\ r.day > s
        a == Correct(m.account, s, side, entry.real, target, exDated)
    IN IF Raised(m.account) \/ f = Silent \/ target = entry.real THEN m
       ELSE IF Raised(a) THEN [m EXCEPT !.account = Failed]
       ELSE [m EXCEPT !.account = a, !.ledger[s][side].real = target,
                      !.rows = Append(@,
                          [Row("correction", d, side, a.held - m.account.held,
                               a.cash - m.account.cash) EXCEPT !.corrects = s])]

\* Session by session, the sale first.
CorrectSession(m, state, said, acted, s, d) ==
    IF s \in RealSessions(state)
    THEN CorrectStep(CorrectStep(m, state, said, acted, s, "sell", d),
                     state, said, acted, s, "buy", d)
    ELSE m
Corrected(m, state, said, acted, d) ==
    LET upto[s \in 0 .. N] ==
          IF s = 0 THEN m ELSE CorrectSession(upto[s - 1], state, said, acted, s, d)
    IN upto[N]

Reality(state, said, acted, d, open) ==
    LET opened == Opening(state, d)
        acts   == IF opened.rows = <<>> THEN acted ELSE acted \cup {d}
        fixed  == Corrected(opened, state, said, acts, d)
        Step(m, side, sheet) == RealStep(m, state, said, d, side, sheet, open)
        sheet  == Step(Step(fixed, "sell", TRUE), "buy", TRUE)
    IN Step(Step(sheet, "sell", FALSE), "buy", FALSE)

Settlement(state, said, acted, d, open) ==
    IF d > state.after THEN Reality(state, said, acted, d, open)
                       ELSE Simulation(state, d, open)

(***************************************************************************)
(* The run.                                                                *)
(***************************************************************************)
Stop == run' = NoRun
Goto(pc) == run' = [run EXCEPT !.pc = pc]

Next2Settle(state) == IF state.settled = 0 THEN state.start ELSE state.settled + 1
\* The sessions a run for target must settle.
ToSettle(state, target) ==
    IF state.start = 0 THEN {} ELSE Next2Settle(state) .. target - 1
Settling(state, target) == IF ToSettle(state, target) = {} THEN "gate" ELSE "settle"

Adopted(state, said) ==
    IF said.enabled /\ state.after = NotReal
    THEN [state EXCEPT !.after = state.settled] ELSE state

\* The early returns and refusals, in the code's order; a refusal is a failed
\* run and changes nothing the book trades on.
Planned(state, said, target) ==
    LET last == LastDecided(state)
        refused ==
            \/ last # 0 /\ target < last
            \/ target > today
            \/ state.after # NotReal /\ Unresolved(said, state, target) # {}
            \/ \E d \in ToSettle(state, target) \cap DueDays : state.decided[d] = "no"
    IN IF last # 0 /\ target = last THEN "reread"
       ELSE IF refused THEN "stop" ELSE Settling(state, target)

\* The switch the owner asked for is checkpointed first; whatever refuses the
\* run after it, the book stays switched.  A session that needs data may always
\* stop: its bars may not have landed.
Adopt(said, target) ==
    LET pc == Planned(Adopted(ckpt, said), said, target) IN
    /\ ckpt' = Adopted(ckpt, said)
    /\ \/ pc # "stop" /\ run' = [pc |-> pc, target |-> target, said |-> said, acted |-> {}]
       \/ pc # "reread" /\ Stop

\* A run takes the writer lock, refuses a killed book, reads its records and
\* finishes the outbox a run before it left.
Begin(target) ==
    /\ run.pc = "idle"
    /\ verdict # "killed"
    /\ \/ ckpt.outbox = <<>> /\ Adopt(fills, target)
       \/ /\ ckpt.outbox # <<>>
          /\ run' = [pc |-> "restore", target |-> target, said |-> fills, acted |-> {}]
          /\ UNCHANGED ckpt
    /\ UNCHANGED <<journal, damaged, fits, fills, verdict, market, upsets>>

Resume ==
    /\ run.pc = "adopt"
    /\ Adopt(run.said, run.target)
    /\ UNCHANGED <<journal, damaged, fits, fills, verdict, market, upsets>>

\* append_jsonl_once: a row already in its journal is not appended again.
MutantJournaled(r) ==       \* the identity is not looked up
    FALSE
Journaled(r) == \E i \in DOMAIN journal : journal[i].id = r.id
Missing(rows) == Picked(rows, { i \in DOMAIN rows : ~Journaled(rows[i]) })
Appended(rows) == journal \o Missing(rows)

\* Where the run goes once the outbox is out.
Onward == IF run.pc = "restore" THEN "adopt" ELSE Settling(ckpt, run.target)

Reconcile ==
    /\ run.pc \in {"restore", "settled"}
    /\ journal' = Appended(ckpt.outbox)
    /\ ckpt' = [ckpt EXCEPT !.outbox = <<>>]
    /\ Goto(Onward)
    /\ UNCHANGED <<damaged, fits, fills, verdict, market, upsets>>

OpenOrders(state, d) == { o \in state.pending : o[1] > d }

SettledState(m, d) ==
    Queue([ckpt EXCEPT !.account = m.account, !.ledger = m.ledger,
                       !.pending = OpenOrders(ckpt, d), !.settled = d],
          Append(m.rows, Row("equity", d, "none", 0, 0)))

\* One settlement, checkpointed with its rows in the outbox.
Settle ==
    /\ run.pc = "settle"
    /\ LET d == Next2Settle(ckpt) IN
       \E open \in SUBSET OrderedOn(ckpt, d) :
          LET m == Settlement(ckpt, run.said, run.acted, d, open) IN
          IF Raised(m.account) THEN Stop /\ UNCHANGED ckpt
          ELSE /\ ckpt' = SettledState(m, d)
               /\ run' = [run EXCEPT !.pc = "settled",
                    !.acted = IF \E r \in Range(m.rows) : r.kind = "corporate_action"
                              THEN @ \cup {d} ELSE @]
    /\ UNCHANGED <<journal, damaged, fits, fills, verdict, market, upsets>>

EquityDays == { journal[i].day : i \in { j \in DOMAIN journal : journal[j].kind = "equity" } }
\* One terminal transition, from the settled days; damaged journals are not read.
Readings ==
    IF verdict = "observing" /\ EquityDays # {}
    THEN {"observing"} \cup Verdicts ELSE {verdict}

\* The verdict read between settling and deciding, on a rerun of a decided
\* session, and by the verdict command.
Due(target) == ckpt.start = 0 \/ target \in DueDays
MutantAfterGate(v) ==       \* the reading does not stop the decision
    IF run.pc = "gate" /\ Due(run.target) THEN "decide" ELSE "idle"
AfterGate(v) ==
    IF run.pc = "gate" /\ v # "killed" /\ Due(run.target) THEN "decide" ELSE "idle"

Gate ==
    /\ run.pc \in {"gate", "reread", "read"}
    /\ IF damaged THEN Stop /\ UNCHANGED verdict
       ELSE /\ verdict' \in Readings
            /\ IF AfterGate(verdict') = "decide" THEN Goto("decide") ELSE Stop
    /\ UNCHANGED <<ckpt, journal, damaged, fits, fills, market, upsets>>

\* `run_paper.py verdict` reads the same journals under the same lock.
VerdictCommand ==
    /\ run.pc = "idle"
    /\ run' = [NoRun EXCEPT !.pc = "read"]
    /\ UNCHANGED <<ckpt, journal, damaged, fits, fills, verdict, market, upsets>>

FitDue(target) == FitDays # {} /\ (ckpt.fit = 0 \/ target \in FitDays)

\* The decision check, the strategy or its fit refuses: nothing is decided.
Refuse ==
    /\ run.pc = "decide"
    /\ Stop
    /\ UNCHANGED <<ckpt, journal, damaged, fits, fills, verdict, market, upsets>>

MutantWithFit(d) ==         \* the new state replaces the one it came from
    {d}
WithFit(d) == fits \cup {d}

\* A due fit's staged state takes its session's name before the checkpoint.
PublishFit ==
    /\ run.pc = "decide"
    /\ FitDue(run.target)
    /\ ckpt.fit = 0 \/ ckpt.fit \in fits
    /\ fits' = WithFit(run.target)
    /\ Goto("commit")
    /\ UNCHANGED <<ckpt, journal, damaged, fills, verdict, market, upsets>>

DecidedState(orders) ==
    LET d == run.target IN
    Queue([ckpt EXCEPT !.decided[d] = IF today > d THEN "late" ELSE "on_day",
                       !.start = IF @ = 0 THEN d ELSE @,
                       !.pending = @ \cup ({d} \X orders),
                       !.fit = IF FitDue(d) THEN d ELSE @],
          SetToSeq({ Row("order", d, s, 0, 0) : s \in orders }))

Commit ==
    /\ \/ run.pc = "commit"
       \/ run.pc = "decide" /\ ~FitDue(run.target) /\ (FitDays # {} => ckpt.fit \in fits)
    /\ \E orders \in Sheets : ckpt' = DecidedState(orders)
    /\ Goto("decided")
    /\ UNCHANGED <<journal, damaged, fits, fills, verdict, market, upsets>>

\* The decision's rows go out and superseded fitted states are removed; one
\* that cannot be, or that a crash leaves, is only reported.
Superseded == fits \ {ckpt.fit}
Finish ==
    /\ run.pc = "decided"
    /\ journal' = Appended(ckpt.outbox)
    /\ ckpt' = [ckpt EXCEPT !.outbox = <<>>]
    /\ \E gone \in SUBSET Superseded : fits' = fits \ gone
    /\ Stop
    /\ UNCHANGED <<damaged, fills, verdict, market, upsets>>

\* The process dies; while its outbox goes out, after some rows of it, perhaps
\* inside the next one.  A torn line blocks no later append.
Evidence == {"execution", "equity", "correction"}
Crash ==
    /\ run.pc # "idle" /\ upsets < MaxUpsets
    /\ upsets' = upsets + 1
    /\ Stop
    /\ IF run.pc \in {"restore", "settled", "decided"}
       THEN \E k \in 0 .. Len(ckpt.outbox) :
              /\ journal' = Appended(SubSeq(ckpt.outbox, 1, k))
              /\ \/ UNCHANGED damaged
                 \/ /\ Tearing
                    /\ k < Len(ckpt.outbox) /\ ~Journaled(ckpt.outbox[k + 1])
                    /\ damaged' = (damaged \/ ckpt.outbox[k + 1].kind \in Evidence)
       ELSE UNCHANGED <<journal, damaged>>
    /\ UNCHANGED <<ckpt, fits, fills, verdict, market>>

Tick ==
    /\ today < N
    /\ today' = today + 1
    /\ UNCHANGED <<ckpt, journal, damaged, fits, fills, verdict, run, exdates, upsets>>

Steps == Resume \/ Reconcile \/ Settle \/ Gate \/ Refuse
         \/ PublishFit \/ Commit \/ Finish
Console ==
    \/ Enable
    \/ \E d \in Days : \/ \E s \in Sides, f \in Fills : RecordFill(d, s, f)
                       \/ \E f \in Fills : RecordSession(d, f)

Next ==
    \/ \E target \in Days : Begin(target)
    \/ VerdictCommand
    \/ Steps
    \/ Crash
    \/ Console
    \/ Tick

Spec == Init /\ [][Next]_vars

(***************************************************************************)
(* Properties.                                                             *)
(***************************************************************************)
\* The checkpoint, the records and the run hold what their files and the
\* process can hold.
TypeOK ==
    /\ ckpt.start \in 0 .. N /\ ckpt.settled \in 0 .. N /\ ckpt.after \in 0 .. NotReal
    /\ ckpt.fit \in 0 .. N /\ ckpt.decided \in [Days -> {"no", "on_day", "late"}]
    /\ ckpt.pending \subseteq Days \X Sides
    /\ ckpt.account.held \in Nat /\ ckpt.account.cash \in Nat
    /\ fits \subseteq Days /\ exdates \subseteq Days
    /\ fills.session \in [Days -> Fills \cup {Silent}]
    /\ fills.key \in [Days -> [Sides -> Fills \cup {Silent}]]
    /\ verdict \in {"observing", "confirmed", "killed"}
    /\ run.pc \in {"idle", "restore", "adopt", "settle", "settled", "gate", "reread",
                   "read", "decide", "commit", "decided"}
    /\ today \in Days

\* The journals once the outbox is out: what a reader of the account must see.
Published == Appended(ckpt.outbox)
RowSum(rows, Val(_)) == Total([ i \in DOMAIN rows |-> Val(rows[i]) ])

\* The rows a book published, with those still in its outbox, account for
\* every share and every yuan of the checkpointed account and mark each
\* settled session exactly once, whatever crashed while they went out: an
\* identity is appended once (storage.append_jsonl_once) and the outbox is
\* emptied only after its last row.
BooksBalance ==
    LET rows == Published IN
    /\ ckpt.account.held = RowSum(rows, LAMBDA r : r.shares)
    /\ ckpt.account.cash = Cash + RowSum(rows, LAMBDA r : r.cash)
    /\ \A d \in Days :
          RowSum(rows, LAMBDA r : IF r.kind = "equity" /\ r.day = d THEN 1 ELSE 0)
            = IF ckpt.start # 0 /\ ckpt.start <= d /\ d <= ckpt.settled THEN 1 ELSE 0

\* T+1 as the journals tell it: no session sold a share that came to the book that
\* very day, bought or created by its ex-date.  The shares of all earlier days, with
\* what the day corrected of them, cover its sales (DailyBroker.open_day, execute;
\* fills._book).  The locks are the account's, the rows the readers' evidence.
Freed(r) ==                 \* the rows of a day that move what it may sell
    r.kind = "correction" \/ (r.kind = "execution" /\ r.side = "sell")
SoldWasHeldBefore ==
    \A d \in Days :
       0 <= RowSum(Published, LAMBDA r : IF r.day < d \/ (r.day = d /\ Freed(r))
                                         THEN r.shares ELSE 0)

\* A session's execution rows and the corrections of it together are the outcome
\* the ledger measures the next correction on (fills._book); the verdict reads
\* that outcome in the place of the rows (verdict._corrected).
LedgerMatchesJournals ==
    \A d \in RealSessions(ckpt), s \in Sides :
       LET of(r) == /\ r.side = s
                    /\ \/ r.kind = "execution" /\ r.day = d
                       \/ r.kind = "correction" /\ r.corrects = d
           traded == RowSum(Published, LAMBDA r : IF of(r) THEN r.shares ELSE 0)
       IN ckpt.ledger[d][s].real.q = IF s = "buy" THEN traded ELSE -traded

\* On a taxed book the lots are the holding, share for share: after buys,
\* sales, resized ex-dates and corrections of past sessions.  restore_lots
\* refuses any other checkpoint, and every later run with it.
LotsAddUp == DividendTax => LotSum(ckpt.account.lots) = ckpt.account.held

\* A book on real fills assumes nothing: no order settled after the switch
\* without a record of it, or of its session, unless its sheet was too late to
\* trade.
OnlyRecordedFills ==
    \A d \in RealSessions(ckpt), s \in Sides :
       ckpt.ledger[d][s].ordered =>
          \/ fills.key[d][s] # Silent \/ fills.session[d] # Silent
          \/ PostHoc(ckpt, d)

\* The fitted state the checkpoint names is on disk, though the one it
\* supersedes is removed and a run may die anywhere: else no later decision
\* can run (_decision_state_dir).
FitStateKept == ckpt.fit # 0 => ckpt.fit \in fits

\* The book is one research replay stretched over the calendar: each session
\* decided once, in order, its sheet never changed, nothing decided or settled
\* out of turn, nothing decided after the kill (PaperEngine's run_day).
OrdersOf(d) ==
    { r.side : r \in { x \in Range(journal) \cup Range(ckpt.outbox) :
                          x.kind = "order" /\ x.day = d } }
Account == INSTANCE PaperAccount WITH
    sheet <- [ d \in Days |-> IF ckpt.decided[d] = "no" THEN {"undecided"} ELSE OrdersOf(d) ],
    settled <- ckpt.settled,
    standing <- verdict
Implements == Account!ASpec

\* What the owner's outcomes come to: the shares traded session by session,
\* through the ex-dates between them.
TradedOn(d, s) ==
    IF d \in RealSessions(ckpt) THEN ckpt.ledger[d][s].real.q
    ELSE IF \E r \in Range(Published) :
               r.kind = "execution" /\ r.day = d /\ r.side = s /\ r.shares # 0
         THEN OrderQty ELSE 0
OwnersShares ==
    LET held[d \in 0 .. N] ==
          IF d = 0 THEN 0
          ELSE (IF d \in exdates THEN ExShares(held[d - 1]) ELSE held[d - 1])
               + TradedOn(d, "buy") - TradedOn(d, "sell")
    IN held[ckpt.settled]

\* "A correction that cannot be booked exactly (a share change across an
\* ex-date of that name ...) stops the run with the reason instead"
\* (fills.py:32-36): what is booked is exact, so the account holds what the
\* owner's outcomes come to.
AccountIsTheOwners == ckpt.account.held = OwnersShares

\* "Once the owner switches it to real fills (an enable record), every later
\* session settles from the owner's record of what each order actually did"
\* (fills.py:4-6): a record the console accepted names a session that does.
AcceptedRecordsApply ==
    \A d \in Days, s \in Sides :
       fills.key[d][s] # Silent /\ ckpt.after # NotReal => d > ckpt.after
================================================================================
