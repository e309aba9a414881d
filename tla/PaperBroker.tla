------------------------------ MODULE PaperBroker ------------------------------
(***************************************************************************)
(* The account a Paper book trades: the daily stock broker's state for one *)
(* name, as pure operators.  An account holds cash, the shares held, those *)
(* of them that may be sold today (T+1: what was bought today may not),    *)
(* the day it opened last and, on a book that taxes dividends, the lots    *)
(* the shares came from.                                                   *)
(*                                                                         *)
(* Abstracted: fees, slippage, the tax amounts and cost bases are left out *)
(* (they move cash, never shares); the market's refusals (limits, a        *)
(* suspension, a missing bar) are the caller's choice; quantities are in   *)
(* units of one lot.  An ex-date resets the price from LastClose to        *)
(* PreClose and pays no cash dividend.                                     *)
(***************************************************************************)
EXTENDS Integers, SequencesExt

CONSTANTS
    LastClose, PreClose,    \* the prices an ex-date resets between
    DividendTax             \* BrokerProfile.dividend_tax: are lots kept

ASSUME BrokerAssumption ==
    /\ LastClose \in Nat \ {0} /\ PreClose \in Nat \ {0}
    /\ DividendTax \in BOOLEAN

\* Where a fold over account steps stops: the code raised, nothing was booked.
Failed == [held |-> -1]
Raised(a) == a.held < 0

NewAccount(cash) ==
    [cash |-> cash, held |-> 0, avail |-> 0, lots |-> <<>>, day |-> 0]

\* The sum of a sequence of integers, and the elements at some positions, in order.
Total(s) ==
    LET sum[i \in 0 .. Len(s)] == IF i = 0 THEN 0 ELSE sum[i - 1] + s[i]
    IN sum[Len(s)]
Taken(before, s, i, positions) ==
    IF i \in positions THEN Append(before, s[i]) ELSE before
Picked(s, positions) ==
    LET upto[i \in 0 .. Len(s)] ==
          IF i = 0 THEN <<>> ELSE Taken(upto[i - 1], s, i, positions)
    IN upto[Len(s)]

LotSum(lots) == Total([ i \in DOMAIN lots |-> lots[i].q ])
Upto(lots, i) == LotSum(SubSeq(lots, 1, i))
Kept(lots) == Picked(lots, { i \in DOMAIN lots : lots[i].q > 0 })
AtLeast0(x) == IF x > 0 THEN x ELSE 0

(***************************************************************************)
(* Opening a day: every share may be sold again and an ex-date resizes the *)
(* holding, whole shares only, the fraction paid in cash; the shares it    *)
(* creates stay locked until the next day, like those bought today.  The   *)
(* lots are resized on their running totals.                               *)
(***************************************************************************)
ExShares(q) == (q * LastClose) \div PreClose
ExCredit(q) == q * LastClose - ExShares(q) * PreClose

Resized(lots) ==
    Kept([ i \in DOMAIN lots |->
           [lots[i] EXCEPT !.q = ExShares(Upto(lots, i)) - ExShares(Upto(lots, i - 1))] ])

\* Is there a holding for the day's ex-date to settle: only then is a
\* corporate action recorded.
Settles(a, d, ex) == ex /\ a.held > 0 /\ a.day # d

MutantUnlocked(before, after) ==    \* what the ex-date creates is sellable at once
    after
Unlocked(before, after) == IF after < before THEN after ELSE before

OpenDay(a, d, ex) ==
    IF a.day = d THEN a
    ELSE IF ~Settles(a, d, ex)
         THEN [a EXCEPT !.day = d, !.avail = a.held]
         ELSE IF ExShares(a.held) <= 0 THEN Failed
         ELSE [cash |-> a.cash + ExCredit(a.held), held |-> ExShares(a.held),
               avail |-> Unlocked(a.held, ExShares(a.held)), lots |-> Resized(a.lots),
               day |-> d]

(***************************************************************************)
(* One order, whole or not at all.                                         *)
(***************************************************************************)
MutantRelease(lots, q) ==   \* the lots are left as they were before the sale
    lots
Release(lots, q) ==         \* first in, first out
    Kept([ i \in DOMAIN lots |->
           [lots[i] EXCEPT !.q = AtLeast0(@ - AtLeast0(q - Upto(lots, i - 1)))] ])

Accepts(a, side, q, price) ==
    IF side = "buy" THEN q * price <= a.cash ELSE q <= a.avail

Execute(a, side, q, price) ==
    IF ~Accepts(a, side, q, price) THEN Failed
    ELSE IF side = "buy"
    THEN [a EXCEPT !.cash = @ - q * price, !.held = @ + q,
                   !.lots = IF DividendTax THEN Append(@, [q |-> q, day |-> a.day]) ELSE @]
    ELSE [a EXCEPT !.cash = @ + q * price, !.held = @ - q, !.avail = @ - q,
                   !.lots = IF DividendTax THEN Release(@, q) ELSE @]

(***************************************************************************)
(* A correction books the difference between two outcomes of one order of  *)
(* a settled session, or refuses: shares may not change across an ex-date, *)
(* nor be taken back once sold, nor a sale's count on a taxed book.        *)
(***************************************************************************)
LotsOf(lots, s) == Picked(lots, { i \in DOMAIN lots : lots[i].day = s })
OldLots(lots, s) == Picked(lots, { i \in DOMAIN lots : lots[i].day <= s })
NewLots(lots, s) == Picked(lots, { i \in DOMAIN lots : lots[i].day > s })

\* Shares taken back leave the session's lots, the last of them first.
Reduced(lots, s, q) ==
    LET of == LotsOf(lots, s)
        left == LotSum(of) - q
    IN Picked(lots, { i \in DOMAIN lots : lots[i].day < s })
       \o Kept([ i \in DOMAIN of |->
                 [of[i] EXCEPT !.q = AtLeast0(IF left - Upto(of, i - 1) < @
                                              THEN left - Upto(of, i - 1) ELSE @)] ])
       \o NewLots(lots, s)

MoveLots(lots, s, shares) ==
    IF shares > 0 THEN OldLots(lots, s) \o <<[q |-> shares, day |-> s]>> \o NewLots(lots, s)
                  ELSE Reduced(lots, s, -shares)

MutantSharesMoved(side, applied, target) ==     \* as if nothing were applied yet
    IF side = "buy" THEN target.q ELSE -target.q
SharesMoved(side, applied, target) ==
    IF side = "buy" THEN target.q - applied.q ELSE applied.q - target.q
CashMoved(side, applied, target) ==
    IF side = "buy" THEN applied.notional - target.notional
                    ELSE target.notional - applied.notional

Correct(a, s, side, applied, target, exDated) ==
    LET shares == SharesMoved(side, applied, target)
        cash   == a.cash + CashMoved(side, applied, target)
        refused ==
            \/ side = "sell" /\ applied.q = 0 /\ a.held = 0
            \/ /\ shares # 0
               /\ \/ exDated
                  \/ a.held + shares < 0
                  \/ shares < 0 /\ a.avail < -shares
                  \/ DividendTax /\ side = "sell"
                  \/ DividendTax /\ shares < 0 /\ LotSum(LotsOf(a.lots, s)) < -shares
            \/ cash < 0
    IN IF refused THEN Failed
       ELSE [a EXCEPT !.cash = cash, !.held = @ + shares, !.avail = @ + shares,
                      !.lots = IF DividendTax /\ shares # 0
                               THEN MoveLots(@, s, shares) ELSE @]
================================================================================
