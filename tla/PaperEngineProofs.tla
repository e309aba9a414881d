--------------------------- MODULE PaperEngineProofs ---------------------------
(***************************************************************************)
(* Theorems about one Paper book.  The proofs go from a settlement, step   *)
(* by step over the account, the rows and the ledger, to the rows the book *)
(* has published and the calendar of its runs.                             *)
(***************************************************************************)
EXTENDS PaperEngine, PaperBrokerProofs, FiniteSetTheorems

-----------------------------------------------------------------------------
(* Shapes.                                                                  *)

Kinds == {"corporate_action", "execution", "correction", "equity", "order"}
Rows == [id : Nat, kind : Kinds, day : Days, side : Sides \cup {"none"},
         shares : Int, cash : Int, corrects : 0 .. N]
Entries == [ordered : BOOLEAN, sim : Outcomes, real : Outcomes]
Ledgers == [Days -> [Sides -> Entries]]
Saids == [enabled : BOOLEAN, session : [Days -> Fills \cup {Silent}],
          key : [Days -> [Sides -> Fills \cup {Silent}]]]
Checkpoints ==
    [start : 0 .. N, settled : 0 .. N, decided : [Days -> {"no", "on_day", "late"}],
     pending : SUBSET (Days \X Sides), account : Accounts, outbox : Seq(Rows),
     after : 0 .. NotReal, ledger : Ledgers, fit : 0 .. N, issued : Nat]

-----------------------------------------------------------------------------
(* What rows come to.                                                       *)

SharesIn == [r \in Rows |-> r.shares]
CashIn == [r \in Rows |-> r.cash]
Marks(d) == [r \in Rows |-> IF r.kind = "equity" /\ r.day = d THEN 1 ELSE 0]
OfOrder(r, d, s) ==
    /\ r.side = s
    /\ \/ r.kind = "execution" /\ r.day = d
       \/ r.kind = "correction" /\ r.corrects = d
TradedIn(d, s) == [r \in Rows |-> IF OfOrder(r, d, s) THEN r.shares ELSE 0]
FreedIn == [r \in Rows |-> IF Freed(r) THEN r.shares ELSE 0]
OnHand(r, d) == r.day < d \/ (r.day = d /\ Freed(r))
OnHandIn(d) == [r \in Rows |-> IF OnHand(r, d) THEN r.shares ELSE 0]

LEMMA MeasureTypes ==
    /\ SharesIn \in [Rows -> Int] /\ CashIn \in [Rows -> Int]
    /\ \A d, s : Marks(d) \in [Rows -> Int] /\ TradedIn(d, s) \in [Rows -> Int]
<1>1. SharesIn \in [Rows -> Int] /\ CashIn \in [Rows -> Int]
  BY DEF SharesIn, CashIn, Rows
<1>2. ASSUME NEW d, NEW s
      PROVE  Marks(d) \in [Rows -> Int] /\ TradedIn(d, s) \in [Rows -> Int]
  BY DEF Marks, TradedIn, Rows
<1> QED BY <1>1, <1>2

LEMMA LockTypes ==
    FreedIn \in [Rows -> Int] /\ \A d : OnHandIn(d) \in [Rows -> Int]
BY DEF FreedIn, OnHandIn, Rows

\* The sums the properties state.
LEMMA RowSums ==
    ASSUME NEW rows \in Seq(Rows)
    PROVE  /\ RowSum(rows, LAMBDA r : r.shares) = SumOf(SharesIn, rows)
           /\ RowSum(rows, LAMBDA r : r.cash) = SumOf(CashIn, rows)
           /\ \A d : RowSum(rows, LAMBDA r : IF r.kind = "equity" /\ r.day = d THEN 1 ELSE 0)
                       = SumOf(Marks(d), rows)
           /\ \A d, s : RowSum(rows, LAMBDA r : IF OfOrder(r, d, s) THEN r.shares ELSE 0)
                          = SumOf(TradedIn(d, s), rows)
<1>1. \A i \in DOMAIN rows : rows[i] \in Rows
  OBVIOUS
<1>2. RowSum(rows, LAMBDA r : r.shares) = SumOf(SharesIn, rows)
  <2>1. [i \in DOMAIN rows |-> rows[i].shares] = [i \in DOMAIN rows |-> SharesIn[rows[i]]]
    BY <1>1 DEF SharesIn
  <2> QED BY <2>1 DEF RowSum, SumOf
<1>3. RowSum(rows, LAMBDA r : r.cash) = SumOf(CashIn, rows)
  <2>1. [i \in DOMAIN rows |-> rows[i].cash] = [i \in DOMAIN rows |-> CashIn[rows[i]]]
    BY <1>1 DEF CashIn
  <2> QED BY <2>1 DEF RowSum, SumOf
<1>4. ASSUME NEW d
      PROVE  RowSum(rows, LAMBDA r : IF r.kind = "equity" /\ r.day = d THEN 1 ELSE 0)
               = SumOf(Marks(d), rows)
  <2>1. [i \in DOMAIN rows |-> IF rows[i].kind = "equity" /\ rows[i].day = d THEN 1 ELSE 0]
          = [i \in DOMAIN rows |-> Marks(d)[rows[i]]]
    BY <1>1 DEF Marks
  <2> QED BY <2>1 DEF RowSum, SumOf
<1>5. ASSUME NEW d, NEW s
      PROVE  RowSum(rows, LAMBDA r : IF OfOrder(r, d, s) THEN r.shares ELSE 0)
               = SumOf(TradedIn(d, s), rows)
  <2>1. [i \in DOMAIN rows |-> IF OfOrder(rows[i], d, s) THEN rows[i].shares ELSE 0]
          = [i \in DOMAIN rows |-> TradedIn(d, s)[rows[i]]]
    BY <1>1 DEF TradedIn
  <2> QED BY <2>1 DEF RowSum, SumOf
<1> QED BY <1>2, <1>3, <1>4, <1>5

LEMMA OnHandSum ==
    ASSUME NEW rows \in Seq(Rows), NEW d
    PROVE  RowSum(rows, LAMBDA r : IF OnHand(r, d) THEN r.shares ELSE 0)
             = SumOf(OnHandIn(d), rows)
<1>1. \A i \in DOMAIN rows : rows[i] \in Rows
  OBVIOUS
<1>2. [i \in DOMAIN rows |-> IF OnHand(rows[i], d) THEN rows[i].shares ELSE 0]
        = [i \in DOMAIN rows |-> OnHandIn(d)[rows[i]]]
  BY <1>1 DEF OnHandIn
<1> QED BY <1>2 DEF RowSum, SumOf

-----------------------------------------------------------------------------
(* A settlement in the making: its rows explain the account and the ledger. *)

SettlementKinds == {"corporate_action", "execution", "correction"}
Signed(s, q) == IF s = "buy" THEN q ELSE -q

SessionRow(r, state, d) ==
    /\ r.kind \in SettlementKinds
    /\ r.day = d
    /\ r.kind = "correction" => r.corrects <= state.settled

\* From a checkpoint to an account, a ledger and rows of the settlement of d.
Explained(a, l, w, state, said, d) ==
    /\ Sound(a) /\ l \in Ledgers /\ w \in Seq(Rows)
    /\ a.held = state.account.held + SumOf(SharesIn, w)
    /\ a.cash = state.account.cash + SumOf(CashIn, w)
    /\ a.avail <= state.account.held + SumOf(FreedIn, w)
    /\ \A i \in DOMAIN w : SessionRow(w[i], state, d)
    /\ \A e \in Days, s \in Sides :
          e > state.after =>
             Signed(s, l[e][s].real.q)
               = Signed(s, state.ledger[e][s].real.q) + SumOf(TradedIn(e, s), w)
    /\ \A e \in Days : e > d => l[e] = state.ledger[e]
    /\ \A e \in Days, s \in Sides :
          l[e][s].ordered =>
             state.ledger[e][s].ordered
             \/ (e = d /\ Resolve(said, state, d, s, TRUE) # Silent)

Making(m, state, said, d) ==
    \E a, l, w :
       /\ m = [account |-> a, ledger |-> l, rows |-> w]
       /\ a = Failed \/ Explained(a, l, w, state, said, d)

\* What an account holds is whole numbers, and what it moved by is their difference.
LEMMA AccountMoves ==
    ASSUME NEW a \in Accounts, NEW b \in Accounts
    PROVE  /\ a.held \in Int /\ a.cash \in Int
           /\ b.held - a.held \in Int /\ b.held = a.held + (b.held - a.held)
           /\ b.cash - a.cash \in Int /\ b.cash = a.cash + (b.cash - a.cash)
<1>1. a.held \in Int /\ a.cash \in Int /\ b.held \in Int /\ b.cash \in Int
  BY DEF Accounts
<1>2. \A x, y \in Int : y - x \in Int /\ y = x + (y - x)
  OBVIOUS
<1> QED BY <1>1, <1>2, Zenon

LEMMA EntryType ==
    ASSUME NEW l \in Ledgers, NEW e \in Days, NEW s \in Sides
    PROVE  /\ l[e] \in [Sides -> Entries] /\ l[e][s] \in Entries
           /\ l[e][s].real \in Outcomes /\ l[e][s].sim \in Outcomes
           /\ l[e][s].real.q \in Nat /\ l[e][s].ordered \in BOOLEAN
<1>1. l[e] \in [Sides -> Entries]
  BY DEF Ledgers
<1>2. l[e][s] \in Entries
  BY <1>1
<1>3. l[e][s].real \in Outcomes /\ l[e][s].sim \in Outcomes /\ l[e][s].ordered \in BOOLEAN
  BY <1>2 DEF Entries
<1> QED BY <1>1, <1>2, <1>3 DEF Outcomes

\* The account b is the account a moved by the row r.
MovedBy(r, a, b) ==
    /\ b.held = a.held + r.shares
    /\ b.cash = a.cash + r.cash
    /\ b.avail <= a.avail + (IF Freed(r) THEN r.shares ELSE 0)

\* The ledger k is the ledger l with the trade of the row r, later sessions as
\* they were, and no order the session did not settle.
EnteredBy(r, l, k, state, said, d) ==
    /\ \A e \in Days, s \in Sides :
          e > state.after =>
             Signed(s, k[e][s].real.q) = Signed(s, l[e][s].real.q) + TradedIn(e, s)[r]
    /\ \A e \in Days : e > d => k[e] = l[e]
    /\ \A e \in Days, s \in Sides :
          k[e][s].ordered =>
             l[e][s].ordered \/ (e = d /\ Resolve(said, state, d, s, TRUE) # Silent)

\* One more row, with what it moves.
LEMMA RowAdded ==
    ASSUME NEW state \in Checkpoints, NEW said, NEW d \in Days,
           NEW a, NEW l, NEW w, Explained(a, l, w, state, said, d),
           NEW r \in Rows, SessionRow(r, state, d),
           NEW b, Sound(b), MovedBy(r, a, b),
           NEW k \in Ledgers, EnteredBy(r, l, k, state, said, d)
    PROVE  Explained(b, k, Append(w, r), state, said, d)
<1> USE DEF MovedBy, EnteredBy
<1>1. w \in Seq(Rows) /\ l \in Ledgers /\ Append(w, r) \in Seq(Rows)
  BY DEF Explained
<1>2. b.held = state.account.held + SumOf(SharesIn, Append(w, r))
  <2>1. a.held = state.account.held + SumOf(SharesIn, w)
    BY DEF Explained
  <2>2. SumOf(SharesIn, Append(w, r)) = SumOf(SharesIn, w) + SharesIn[r]
    BY <1>1, MeasureTypes, SumOfAppend
  <2>3. SumOf(SharesIn, w) \in Int
    BY <1>1, MeasureTypes, MeasureType
  <2>4. SharesIn[r] = r.shares /\ r.shares \in Int /\ state.account.held \in Nat
    BY DEF SharesIn, Rows, Checkpoints, Accounts
  <2> QED BY <2>1, <2>2, <2>3, <2>4
<1>3. b.cash = state.account.cash + SumOf(CashIn, Append(w, r))
  <2>1. a.cash = state.account.cash + SumOf(CashIn, w)
    BY DEF Explained
  <2>2. SumOf(CashIn, Append(w, r)) = SumOf(CashIn, w) + CashIn[r]
    BY <1>1, MeasureTypes, SumOfAppend
  <2>3. SumOf(CashIn, w) \in Int
    BY <1>1, MeasureTypes, MeasureType
  <2>4. CashIn[r] = r.cash /\ r.cash \in Int /\ state.account.cash \in Nat
    BY DEF CashIn, Rows, Checkpoints, Accounts
  <2> QED BY <2>1, <2>2, <2>3, <2>4
<1>8. b.avail <= state.account.held + SumOf(FreedIn, Append(w, r))
  <2>1. a.avail <= state.account.held + SumOf(FreedIn, w)
    BY DEF Explained
  <2>2. SumOf(FreedIn, Append(w, r)) = SumOf(FreedIn, w) + FreedIn[r]
    BY <1>1, LockTypes, SumOfAppend
  <2>3. SumOf(FreedIn, w) \in Int /\ FreedIn[r] \in Int
    BY <1>1, LockTypes, MeasureType
  <2>4. b.avail <= a.avail + FreedIn[r]
    BY DEF FreedIn
  <2>5. state.account.held \in Int /\ a.avail \in Int /\ b.avail \in Int
    BY DEF Checkpoints, Accounts, Explained, Sound
  <2> QED BY <2>1, <2>2, <2>3, <2>4, <2>5
<1>4. \A i \in DOMAIN Append(w, r) : SessionRow(Append(w, r)[i], state, d)
  <2> SUFFICES ASSUME NEW i \in DOMAIN Append(w, r)
               PROVE  SessionRow(Append(w, r)[i], state, d)
    OBVIOUS
  <2>1. /\ i \in 1 .. Len(w) + 1 /\ Len(w) \in Nat /\ DOMAIN w = 1 .. Len(w)
        /\ i \in 1 .. Len(w) => Append(w, r)[i] = w[i]
        /\ i = Len(w) + 1 => Append(w, r)[i] = r
    BY <1>1
  <2>2. \A j \in DOMAIN w : SessionRow(w[j], state, d)
    BY DEF Explained
  <2> QED BY <2>1, <2>2
<1>5. ASSUME NEW e \in Days, NEW s \in Sides, e > state.after
      PROVE  Signed(s, k[e][s].real.q)
               = Signed(s, state.ledger[e][s].real.q) + SumOf(TradedIn(e, s), Append(w, r))
  <2>1. Signed(s, l[e][s].real.q)
          = Signed(s, state.ledger[e][s].real.q) + SumOf(TradedIn(e, s), w)
    BY <1>5 DEF Explained
  <2>m. TradedIn(e, s) \in [Rows -> Int]
    BY MeasureTypes
  <2>2. SumOf(TradedIn(e, s), Append(w, r)) = SumOf(TradedIn(e, s), w) + TradedIn(e, s)[r]
    BY <1>1, <2>m, SumOfAppend
  <2>3. SumOf(TradedIn(e, s), w) \in Int
    BY <1>1, <2>m, MeasureType
  <2>4. TradedIn(e, s)[r] \in Int
    BY <2>m
  <2>5. Signed(s, k[e][s].real.q) = Signed(s, l[e][s].real.q) + TradedIn(e, s)[r]
    BY <1>5
  <2>6. state.ledger \in Ledgers
    BY DEF Checkpoints
  <2>7. Signed(s, state.ledger[e][s].real.q) \in Int
    BY <2>6, EntryType DEF Signed
  <2> QED BY <2>1, <2>2, <2>3, <2>4, <2>5, <2>7
<1>6. \A e \in Days : e > d => k[e] = state.ledger[e]
  BY DEF Explained
<1>7. ASSUME NEW e \in Days, NEW s \in Sides, k[e][s].ordered
      PROVE  state.ledger[e][s].ordered
             \/ (e = d /\ Resolve(said, state, d, s, TRUE) # Silent)
  BY <1>7 DEF Explained
<1> QED BY <1>1, <1>2, <1>3, <1>4, <1>5, <1>6, <1>7, <1>8 DEF Explained

LEMMA SignedZero == \A s, q : q = 0 => Signed(s, q) = 0
<1>1. \A q \in Int : q + (-q) = 0 /\ -q \in Int
  OBVIOUS
<1>2. \A x \in Int : 0 + x = 0 => x = 0
  OBVIOUS
<1>3. 0 \in Int
  OBVIOUS
<1>4. -0 = 0
  BY <1>1, <1>2, <1>3, Zenon
<1> QED BY <1>4, Zenon DEF Signed

\* The owner's answers are records a fill can be read from.
LEMMA ResolveType ==
    ASSUME NEW said \in Saids, NEW state, NEW d \in Days, NEW s \in Sides, NEW b \in BOOLEAN
    PROVE  /\ Resolve(said, state, d, s, b) \in Fills \cup {Silent}
           /\ Resolve(said, state, d, s, b).is = "filled" =>
                 /\ Resolve(said, state, d, s, b).q \in Nat
                 /\ Resolve(said, state, d, s, b).price \in Nat
           /\ b => Resolve(said, state, d, s, b) = Resolve(said, state, d, s, TRUE)
<1>1. said.key[d][s] \in Fills \cup {Silent} /\ said.session[d] \in Fills \cup {Silent}
  BY DEF Saids
<1>2. NotTraded \in Fills \cup {Silent}
  BY DEF Fills
<1>3. Resolve(said, state, d, s, b) \in Fills \cup {Silent}
  BY <1>1, <1>2 DEF Resolve
<1>4. \A f \in Fills \cup {Silent} : f.is = "filled" => f.q \in Nat /\ f.price \in Nat
  <2>1. \A f \in Filled : f.q \in FillQtys /\ f.price \in FillPrices
    BY DEF Filled
  <2>2. FillQtys \subseteq Nat /\ FillPrices \subseteq Nat
    BY PaperAssumption
  <2>3. Simulated.is # "filled" /\ NotTraded.is # "filled" /\ Silent.is # "filled"
    BY DEF Silent, Simulated, NotTraded
  <2> QED BY <2>1, <2>2, <2>3 DEF Fills
<1>5. b => Resolve(said, state, d, s, b) = Resolve(said, state, d, s, TRUE)
  BY DEF Resolve
<1> QED BY <1>3, <1>4, <1>5

LEMMA OutcomeType ==
    /\ Nothing \in Outcomes /\ Nothing.q = 0
    /\ \A q, p \in Nat : Outcome(q, p) \in Outcomes /\ Outcome(q, p).q = q
<1>1. Nothing \in Outcomes /\ Nothing.q = 0
  BY DEF Nothing, Outcomes
<1>2. ASSUME NEW q \in Nat, NEW p \in Nat
      PROVE  Outcome(q, p) \in Outcomes /\ Outcome(q, p).q = q
  <2>1. q * p \in Nat
    BY ProductType
  <2> QED BY <2>1 DEF Outcome, Outcomes
<1> QED BY <1>1, <1>2

-----------------------------------------------------------------------------
(* The steps of a settlement.                                               *)

RowOf(kind, d, side, shares, cash, s) ==
    [id |-> 0, kind |-> kind, day |-> d, side |-> side, shares |-> shares,
     cash |-> cash, corrects |-> s]

LEMMA RowType ==
    ASSUME NEW kind \in Kinds, NEW d \in Days, NEW side \in Sides \cup {"none"},
           NEW shares \in Int, NEW cash \in Int, NEW s \in 0 .. N
    PROVE  /\ RowOf(kind, d, side, shares, cash, s) \in Rows
           /\ Row(kind, d, side, shares, cash) = RowOf(kind, d, side, shares, cash, 0)
           /\ [Row(kind, d, side, shares, cash) EXCEPT !.corrects = s]
                = RowOf(kind, d, side, shares, cash, s)
<1>1. RowOf(kind, d, side, shares, cash, s) \in Rows
  BY DEF RowOf, Rows
<1>2. Row(kind, d, side, shares, cash) = RowOf(kind, d, side, shares, cash, 0)
  BY DEF RowOf, Row
<1>3. [Row(kind, d, side, shares, cash) EXCEPT !.corrects = s]
        = RowOf(kind, d, side, shares, cash, s)
  BY <1>2 DEF RowOf
<1> QED BY <1>1, <1>2, <1>3

\* What a trade moves of the shares that may be sold: a purchase stays locked.
SoldIn(side, shares) == IF side = "sell" THEN shares ELSE 0

\* An order filled: the account moves and one row says so.
Filling(n, a, l, w, side, q, d) ==
    \/ n = [account |-> Failed, ledger |-> l, rows |-> w]
    \/ \E b : /\ Sound(b) /\ b.held = a.held + Signed(side, q)
              /\ b.avail <= a.avail + SoldIn(side, Signed(side, q))
              /\ n = [account |-> b, ledger |-> l,
                      rows |-> Append(w, Row("execution", d, side, Signed(side, q),
                                             b.cash - a.cash))]

LEMMA BookedIs ==
    ASSUME NEW m, NEW a, NEW l, NEW w, m = [account |-> a, ledger |-> l, rows |-> w],
           Sound(a), NEW side \in Sides, NEW q \in Nat, NEW price \in Nat, NEW d
    PROVE  Filling(Booked(m, side, q, price, d, "execution"), a, l, w, side, q, d)
<1> DEFINE kind == "execution"
<1> DEFINE n == Booked(m, side, q, price, d, kind)
<1> DEFINE b == Execute(a, side, q, price)
<1>1. b = Failed \/ (/\ Sound(b) /\ b.held = a.held + Signed(side, q)
                     /\ b.avail <= a.avail + SoldIn(side, Signed(side, q)))
  <2>1. b = Failed \/ (/\ Sound(b) /\ b.held = a.held + (IF side = "buy" THEN q ELSE -q)
                       /\ b.avail = a.avail + (IF side = "buy" THEN 0 ELSE -q))
    BY ExecuteSound DEF Sides
  <2> HIDE DEF b
  <2>2. a.avail \in Int /\ side \in {"buy", "sell"}
    BY DEF Sound, Accounts, Sides
  <2> QED BY <2>1, <2>2 DEF Signed, SoldIn
<1>2. ~ Raised(a)
  BY RaisedIs
<1>3. Booked(m, side, q, price, d, kind)
        = IF Raised(b) THEN [m EXCEPT !.account = Failed]
          ELSE [m EXCEPT !.account = b,
                         !.rows = Append(w, Row(kind, d, side, b.held - a.held, b.cash - a.cash))]
  BY <1>2 DEF Booked
<1> HIDE DEF b, kind
<1>4. CASE Raised(b)
  <2>1. n = [account |-> Failed, ledger |-> l, rows |-> w]
    BY <1>3, <1>4
  <2> QED BY <2>1 DEF Filling, kind
<1>5. CASE ~ Raised(b)
  <2>1. /\ Sound(b) /\ b.held = a.held + Signed(side, q)
        /\ b.avail <= a.avail + SoldIn(side, Signed(side, q))
    BY <1>1, <1>5, RaisedIs
  <2>2. b.held - a.held = Signed(side, q)
    <3>1. Signed(side, q) \in Int
      BY DEF Signed
    <3>2. a.held \in Int
      BY AccountMoves DEF Sound
    <3>3. \A x, y \in Int : (x + y) - x = y
      OBVIOUS
    <3> QED BY <2>1, <3>1, <3>2, <3>3, Zenon
  <2>3. Booked(m, side, q, price, d, kind)
          = [account |-> b, ledger |-> l,
             rows |-> Append(w, Row(kind, d, side, Signed(side, q), b.cash - a.cash))]
    BY <1>3, <1>5, <2>2
  <2> QED BY <2>1, <2>3 DEF Filling, kind
<1> QED BY <1>4, <1>5

\* A simulated order moves no ledger: its session is settled from no record.
LEMMA SimRow ==
    ASSUME NEW state \in Checkpoints, NEW said, NEW d \in Days, d <= state.after,
           NEW a, NEW l, NEW w, Explained(a, l, w, state, said, d),
           NEW side \in Sides, NEW shares \in Int, NEW b, Sound(b),
           b.held = a.held + shares, b.avail <= a.avail + SoldIn(side, shares)
    PROVE  Explained(b, l, Append(w, Row("execution", d, side, shares, b.cash - a.cash)),
                     state, said, d)
<1> DEFINE cash == b.cash - a.cash
<1>1. a.cash \in Int /\ b.cash \in Int /\ cash \in Int /\ b.cash = a.cash + cash
  BY AccountMoves, Zenon DEF Explained, Sound
<1> HIDE DEF cash
<1>2. "execution" \in Kinds /\ 0 \in 0 .. N
  BY PaperAssumption DEF Kinds
<1> DEFINE r == RowOf("execution", d, side, shares, cash, 0)
<1>3. r \in Rows /\ Row("execution", d, side, shares, cash) = r
  BY <1>1, <1>2, RowType
<1>4. /\ r.kind = "execution" /\ r.day = d /\ r.shares = shares /\ r.cash = cash
      /\ r.side = side
  BY DEF RowOf
<1> HIDE DEF r
<1>5. SessionRow(r, state, d)
  BY <1>4 DEF SessionRow, SettlementKinds
<1>6. l \in Ledgers
  BY DEF Explained
<1>7. ASSUME NEW e \in Days, NEW s \in Sides, e > state.after
      PROVE  Signed(s, l[e][s].real.q) = Signed(s, l[e][s].real.q) + TradedIn(e, s)[r]
  <2>1. e # d
    BY <1>7 DEF Checkpoints, Days
  <2>2. TradedIn(e, s)[r] = 0
    BY <1>3, <1>4, <2>1 DEF TradedIn, OfOrder
  <2>3. Signed(s, l[e][s].real.q) \in Int
    BY <1>6, EntryType DEF Signed
  <2> QED BY <2>2, <2>3
<1>8. MovedBy(r, a, b)
  BY <1>1, <1>4 DEF MovedBy, SoldIn, Freed
<1>9. EnteredBy(r, l, l, state, said, d)
  BY <1>7 DEF EnteredBy
<1>10. Explained(b, l, Append(w, r), state, said, d)
  BY <1>3, <1>5, <1>6, <1>8, <1>9, RowAdded
<1> QED BY <1>3, <1>10 DEF cash

LEMMA SimStepMaking ==
    ASSUME NEW state \in Checkpoints, NEW said, NEW d \in Days, d <= state.after,
           NEW m, Making(m, state, said, d), NEW side \in Sides, NEW orders, NEW open
    PROVE  Making(SimStep(m, d, side, orders, open), state, said, d)
<1>1. PICK a, l, w : /\ m = [account |-> a, ledger |-> l, rows |-> w]
                     /\ a = Failed \/ Explained(a, l, w, state, said, d)
  BY DEF Making
<1>2. OrderQty \in Nat /\ LastClose \in Nat
  BY PaperAssumption, BrokerAssumption
<1>3. CASE side \notin orders
  BY <1>3 DEF SimStep
<1>4. CASE side \in orders /\ a = Failed
  <2>1. Raised(m.account)
    BY <1>1, <1>4, RaisedIs
  <2>2. \E v : SimStep(m, d, side, orders, open) = [account |-> Failed, ledger |-> l, rows |-> v]
    <3>1. CASE side \in open /\ Accepts(m.account, side, OrderQty, LastClose)
      <4>1. SimStep(m, d, side, orders, open) = [m EXCEPT !.account = Failed]
        BY <1>4, <2>1, <3>1 DEF SimStep, Booked
      <4>2. [m EXCEPT !.account = Failed] = [account |-> Failed, ledger |-> l, rows |-> w]
        BY <1>1
      <4> QED BY <4>1, <4>2
    <3>2. CASE ~ (side \in open /\ Accepts(m.account, side, OrderQty, LastClose))
      <4>1. SimStep(m, d, side, orders, open)
              = [m EXCEPT !.rows = Append(@, Row("execution", d, side, 0, 0))]
        BY <1>4, <3>2 DEF SimStep, Unfilled
      <4>2. SimStep(m, d, side, orders, open)
              = [account |-> a, ledger |-> l, rows |-> Append(w, Row("execution", d, side, 0, 0))]
        BY <1>1, <4>1
      <4> QED BY <1>4, <4>2
    <3> QED BY <3>1, <3>2
  <2> QED BY <2>2 DEF Making
<1>5. CASE side \in orders /\ Explained(a, l, w, state, said, d)
  <2>1. Sound(a)
    BY <1>5 DEF Explained
  <2>2. CASE side \in open /\ Accepts(m.account, side, OrderQty, LastClose)
    <3> DEFINE n == Booked(m, side, OrderQty, LastClose, d, "execution")
    <3>1. SimStep(m, d, side, orders, open) = n
      BY <1>5, <2>2 DEF SimStep
    <3>0. n = Booked(m, side, OrderQty, LastClose, d, "execution")
      OBVIOUS
    <3> HIDE DEF n
    <3>2. Filling(n, a, l, w, side, OrderQty, d)
      BY <1>1, <1>2, <2>1, <3>0, BookedIs
    <3>3. CASE n = [account |-> Failed, ledger |-> l, rows |-> w]
      BY <3>1, <3>3 DEF Making
    <3>4. ASSUME NEW b, Sound(b), b.held = a.held + Signed(side, OrderQty),
                 b.avail <= a.avail + SoldIn(side, Signed(side, OrderQty)),
                 n = [account |-> b, ledger |-> l,
                      rows |-> Append(w, Row("execution", d, side, Signed(side, OrderQty),
                                             b.cash - a.cash))]
          PROVE  Making(n, state, said, d)
      <4>1. Signed(side, OrderQty) \in Int
        BY <1>2 DEF Signed
      <4>2. Explained(b, l, Append(w, Row("execution", d, side, Signed(side, OrderQty),
                                          b.cash - a.cash)), state, said, d)
        BY <1>5, <3>4, <4>1, SimRow
      <4> QED BY <3>4, <4>2 DEF Making
    <3> QED BY <3>1, <3>2, <3>3, <3>4 DEF Filling
  <2>3. CASE ~ (side \in open /\ Accepts(m.account, side, OrderQty, LastClose))
    <3>1. SimStep(m, d, side, orders, open)
            = [m EXCEPT !.rows = Append(@, Row("execution", d, side, 0, 0))]
      BY <1>5, <2>3 DEF SimStep, Unfilled
    <3>2. SimStep(m, d, side, orders, open)
            = [account |-> a, ledger |-> l, rows |-> Append(w, Row("execution", d, side, 0, 0))]
      BY <1>1, <3>1
    <3>3. a.held = a.held + 0 /\ a.cash - a.cash = 0 /\ a.avail <= a.avail + SoldIn(side, 0)
      BY <2>1 DEF Sound, Accounts, SoldIn
    <3>4. Explained(a, l, Append(w, Row("execution", d, side, 0, a.cash - a.cash)), state, said, d)
      BY <1>5, <2>1, <3>3, SimRow
    <3> QED BY <3>2, <3>3, <3>4 DEF Making
  <2> QED BY <2>2, <2>3
<1> QED BY <1>1, <1>3, <1>4, <1>5

\* A day opens: its ex-date, if the account holds the name, is the first row.
LEMMA OpeningMaking ==
    ASSUME NEW state \in Checkpoints, Sound(state.account), NEW said, NEW d \in Days
    PROVE  /\ Making(Opening(state, d), state, said, d)
           /\ Opening(state, d).ledger = state.ledger
<1> DEFINE a == OpenDay(state.account, d, d \in exdates)
<1> DEFINE ex == Settles(state.account, d, d \in exdates)
<1> DEFINE r == Row("corporate_action", d, "none", a.held - state.account.held,
                    a.cash - state.account.cash)
<1> DEFINE w == IF ex /\ ~ Raised(a) THEN <<r>> ELSE << >>
<1>1. Opening(state, d) = [account |-> a, ledger |-> state.ledger, rows |-> w]
  BY DEF Opening
<1>2. (d \in exdates) \in BOOLEAN /\ d \in Int
  BY DEF Days
<1>3. /\ a = Failed \/ (Sound(a) /\ a.avail <= state.account.held)
      /\ ~ ex => Sound(a) /\ a.cash = state.account.cash /\ a.held = state.account.held
  BY <1>2, OpenDaySound
<1>4. state.ledger \in Ledgers /\ state.account \in Accounts
  BY DEF Checkpoints
\* The account with nothing locked, as a new day finds it.
<1> DEFINE v == [state.account EXCEPT !.avail = state.account.held]
<1>9. Sound(v) /\ v.held = state.account.held /\ v.cash = state.account.cash
      /\ v.avail = state.account.held
  BY <1>4 DEF Accounts, Sound
<1> HIDE DEF v
<1>5. Explained(v, state.ledger, << >>, state, said, d)
  <2>1. << >> \in Seq(Rows) /\ \A i \in DOMAIN << >> : SessionRow(<< >>[i], state, d)
    OBVIOUS
  <2>2. \A f : SumOf(f, << >>) = 0
    BY SumOfEmpty
  <2>3. \A e \in Days, s \in Sides : Signed(s, state.ledger[e][s].real.q) \in Int
    BY <1>4, EntryType DEF Signed
  <2>4. state.account.held \in Int /\ state.account.cash \in Int
    BY <1>4 DEF Accounts
  <2>5. /\ v.held = state.account.held + SumOf(SharesIn, << >>)
        /\ v.cash = state.account.cash + SumOf(CashIn, << >>)
        /\ v.avail <= state.account.held + SumOf(FreedIn, << >>)
    BY <1>9, <2>2, <2>4
  <2>6. \A e \in Days, s \in Sides :
          Signed(s, state.ledger[e][s].real.q)
            = Signed(s, state.ledger[e][s].real.q) + SumOf(TradedIn(e, s), << >>)
    BY <2>2, <2>3
  <2> QED BY <1>4, <1>9, <2>1, <2>5, <2>6, Zenon DEF Explained
<1> HIDE DEF a, ex
<1>6. CASE a = Failed
  <2> HIDE DEF r, w
  <2> DEFINE o == Opening(state, d)
  <2>1. o = [account |-> a, ledger |-> state.ledger, rows |-> w]
    BY <1>1
  <2> HIDE DEF o
  <2>2. Making(o, state, said, d) /\ o.ledger = state.ledger
    <3>1. o = [account |-> Failed, ledger |-> state.ledger, rows |-> w]
      BY <1>6, <2>1
    <3>2. Making(o, state, said, d)
      BY <3>1 DEF Making
    <3>3. o.ledger = state.ledger
      BY <3>1
    <3> QED BY <3>2, <3>3
  <2> QED BY <2>2 DEF o
<1>7. CASE Sound(a) /\ ~ ex
  <2>1. w = << >>
    BY <1>7
  <2>2. Explained(a, state.ledger, << >>, state, said, d)
    <3>1. a.avail <= state.account.held + SumOf(FreedIn, << >>)
      <4>1. SumOf(FreedIn, << >>) = 0 /\ state.account.held \in Int
        BY <1>4, SumOfEmpty DEF Accounts
      <4> QED BY <1>3, <1>7, <4>1, RaisedIs
    <3>2. a.held = v.held /\ a.cash = v.cash
      BY <1>3, <1>7, <1>9, Zenon
    <3> QED BY <1>5, <1>7, <3>1, <3>2, Zenon DEF Explained
  <2> QED BY <1>1, <2>1, <2>2 DEF Making
<1>8. CASE Sound(a) /\ ex
  <2>1. w = Append(<< >>, r)
    BY <1>8, RaisedIs
  <2> DEFINE shares == a.held - state.account.held
  <2> DEFINE cash == a.cash - state.account.cash
  <2>2. /\ shares \in Int /\ cash \in Int /\ a.held = state.account.held + shares
        /\ a.cash = state.account.cash + cash
    <3>1. a \in Accounts
      BY <1>8, Zenon DEF Sound
    <3> HIDE DEF a
    <3> QED BY <1>4, <3>1, AccountMoves, Zenon
  <2>3. r = Row("corporate_action", d, "none", shares, cash)
    OBVIOUS
  <2> HIDE DEF r, shares, cash
  <2>4. "corporate_action" \in Kinds /\ 0 \in 0 .. N
    BY PaperAssumption DEF Kinds
  <2>5. r \in Rows /\ r = RowOf("corporate_action", d, "none", shares, cash, 0)
    <3>1. "none" \in Sides \cup {"none"}
      OBVIOUS
    <3>2. r = RowOf("corporate_action", d, "none", shares, cash, 0)
      BY <2>3 DEF Row, RowOf
    <3>3. RowOf("corporate_action", d, "none", shares, cash, 0) \in Rows
      BY <2>2, <2>4, <3>1 DEF RowOf, Rows
    <3> QED BY <3>2, <3>3
  <2>6. r.kind = "corporate_action" /\ r.day = d /\ r.shares = shares /\ r.cash = cash
    BY <2>5 DEF RowOf
  <2>7. SessionRow(r, state, d)
    BY <2>6 DEF SessionRow, SettlementKinds
  <2>8. ASSUME NEW e \in Days, NEW s \in Sides
        PROVE  Signed(s, state.ledger[e][s].real.q)
                 = Signed(s, state.ledger[e][s].real.q) + TradedIn(e, s)[r]
    <3>1. TradedIn(e, s) = [x \in Rows |-> IF OfOrder(x, e, s) THEN x.shares ELSE 0]
      BY DEF TradedIn
    <3>2. ~ OfOrder(r, e, s)
      BY <2>6 DEF OfOrder
    <3>3. TradedIn(e, s)[r] = 0
      BY <2>5, <3>1, <3>2
    <3>4. Signed(s, state.ledger[e][s].real.q) \in Int
      BY <1>4, EntryType DEF Signed
    <3> QED BY <3>3, <3>4
  <2>9. EnteredBy(r, state.ledger, state.ledger, state, said, d)
    BY <2>8 DEF EnteredBy
  <2>10. MovedBy(r, v, a)
    <3>1. a.avail <= v.avail + 0
      BY <1>3, <1>4, <1>8, <1>9, RaisedIs DEF Accounts
    <3> QED BY <1>9, <2>2, <2>6, <3>1 DEF MovedBy, Freed
  <2>11. Explained(a, state.ledger, Append(<< >>, r), state, said, d)
    BY <1>4, <1>5, <1>8, <2>5, <2>7, <2>9, <2>10, RowAdded
  <2> QED BY <1>1, <2>1, <2>11 DEF Making, w
<1> HIDE DEF r, w
<1> QED BY <1>3, <1>6, <1>7, <1>8, Zenon

LEMMA SimulationMaking ==
    ASSUME NEW state \in Checkpoints, Sound(state.account), NEW said, NEW d \in Days,
           d <= state.after, NEW open
    PROVE  Making(Simulation(state, d, open), state, said, d)
<1> DEFINE m == Opening(state, d)
<1> DEFINE n == SimStep(m, d, "sell", OrderedOn(state, d), open)
<1>1. Making(m, state, said, d)
  BY OpeningMaking
<1>2. "sell" \in Sides /\ "buy" \in Sides
  BY DEF Sides
<1>3. Simulation(state, d, open) = SimStep(n, d, "buy", OrderedOn(state, d), open)
  BY DEF Simulation
<1> HIDE DEF m
<1>4. Making(n, state, said, d)
  BY <1>1, <1>2, SimStepMaking
<1> HIDE DEF n
<1> QED BY <1>2, <1>3, <1>4, SimStepMaking

LEMMA SimOutcomeType ==
    ASSUME NEW state, NEW d, NEW side, NEW open
    PROVE  SimOutcome(state, d, side, open) \in Outcomes
<1>1. OrderQty \in Nat /\ LastClose \in Nat
  BY PaperAssumption, BrokerAssumption
<1>2. Outcome(OrderQty, LastClose) \in Outcomes /\ Nothing \in Outcomes
  BY <1>1, OutcomeType
<1> QED BY <1>2 DEF SimOutcome

\* A ledger that moves without a row.
LEMMA LedgerSet ==
    ASSUME NEW state \in Checkpoints, NEW said, NEW d \in Days,
           NEW a, NEW l, NEW w, Explained(a, l, w, state, said, d),
           NEW k \in Ledgers,
           \A e \in Days, s \in Sides : k[e][s].real.q = l[e][s].real.q,
           \A e \in Days : e > d => k[e] = l[e],
           \A e \in Days, s \in Sides :
              k[e][s].ordered =>
                 l[e][s].ordered \/ (e = d /\ Resolve(said, state, d, s, TRUE) # Silent)
    PROVE  Explained(a, k, w, state, said, d)
<1>1. \A e \in Days, s \in Sides :
          e > state.after =>
             Signed(s, k[e][s].real.q)
               = Signed(s, state.ledger[e][s].real.q) + SumOf(TradedIn(e, s), w)
  BY DEF Explained
<1>2. \A e \in Days : e > d => k[e] = state.ledger[e]
  BY DEF Explained
<1>3. ASSUME NEW e \in Days, NEW s \in Sides, k[e][s].ordered
      PROVE  state.ledger[e][s].ordered
             \/ (e = d /\ Resolve(said, state, d, s, TRUE) # Silent)
  BY <1>3 DEF Explained
<1>4. /\ Sound(a) /\ w \in Seq(Rows)
      /\ a.held = state.account.held + SumOf(SharesIn, w)
      /\ a.cash = state.account.cash + SumOf(CashIn, w)
      /\ a.avail <= state.account.held + SumOf(FreedIn, w)
      /\ \A i \in DOMAIN w : SessionRow(w[i], state, d)
  BY DEF Explained
<1> QED BY <1>1, <1>2, <1>3, <1>4 DEF Explained

-----------------------------------------------------------------------------
(* A session settled from the owner's records.                              *)

\* Nothing is on the ledger yet for an order of the session being settled.
Fresh(m, d, side) == m.account = Failed \/ m.ledger[d][side].real.q = 0

\* A row and the entry it fills.
LEMMA EntryBooked ==
    ASSUME NEW state \in Checkpoints, NEW said, NEW d \in Days, d > state.after,
           NEW a, NEW l, NEW w, Explained(a, l, w, state, said, d),
           NEW side \in Sides, l[d][side].real.q = 0,
           NEW entry \in Entries,
           entry.ordered => Resolve(said, state, d, side, TRUE) # Silent,
           NEW b, Sound(b), b.held = a.held + Signed(side, entry.real.q),
           b.avail <= a.avail + SoldIn(side, Signed(side, entry.real.q))
    PROVE  Explained(b, [l EXCEPT ![d][side] = entry],
                     Append(w, Row("execution", d, side, Signed(side, entry.real.q),
                                   b.cash - a.cash)), state, said, d)
<1> DEFINE cash == b.cash - a.cash
<1> DEFINE shares == Signed(side, entry.real.q)
<1> DEFINE k == [l EXCEPT ![d][side] = entry]
<1>1. a.cash \in Int /\ b.cash \in Int /\ cash \in Int /\ b.cash = a.cash + cash
  BY DEF Explained, Sound, Accounts
<1>2. entry.real.q \in Nat /\ shares \in Int /\ b.held = a.held + shares
      /\ b.avail <= a.avail + SoldIn(side, shares)
  BY DEF Entries, Outcomes, Signed
<1>3. l \in Ledgers
  BY DEF Explained
<1>4. k \in Ledgers
  BY <1>3 DEF Ledgers
<1>5. /\ k[d][side] = entry
      /\ \A e \in Days, s \in Sides : e # d \/ s # side => k[e][s] = l[e][s]
      /\ \A e \in Days : e # d => k[e] = l[e]
  BY <1>3 DEF Ledgers
<1> HIDE DEF cash, shares, k
<1>6. "execution" \in Kinds /\ 0 \in 0 .. N
  BY PaperAssumption DEF Kinds
<1> DEFINE r == RowOf("execution", d, side, shares, cash, 0)
<1>7. r \in Rows /\ Row("execution", d, side, shares, cash) = r
  BY <1>1, <1>2, <1>6, RowType
<1>8. /\ r.kind = "execution" /\ r.day = d /\ r.shares = shares /\ r.cash = cash /\ r.side = side
  BY DEF RowOf
<1> HIDE DEF r
<1>9. SessionRow(r, state, d)
  BY <1>8 DEF SessionRow, SettlementKinds
<1>10. ASSUME NEW e \in Days, NEW s \in Sides
       PROVE  Signed(s, k[e][s].real.q) = Signed(s, l[e][s].real.q) + TradedIn(e, s)[r]
  <2>1. CASE e = d /\ s = side
    <3>1. TradedIn(e, s)[r] = shares
      BY <1>7, <1>8, <2>1 DEF TradedIn, OfOrder
    <3>2. Signed(s, l[e][s].real.q) = 0
      BY <2>1 DEF Signed
    <3> QED BY <1>2, <1>5, <2>1, <3>1, <3>2 DEF shares
  <2>2. CASE e # d \/ s # side
    <3>1. TradedIn(e, s)[r] = 0
      BY <1>7, <1>8, <2>2 DEF TradedIn, OfOrder
    <3>2. k[e][s] = l[e][s] /\ Signed(s, l[e][s].real.q) \in Int
      BY <1>3, <1>5, <2>2, EntryType DEF Signed
    <3> QED BY <3>1, <3>2
  <2> QED BY <2>1, <2>2
<1>11. \A e \in Days : e > d => k[e] = l[e]
  BY <1>5 DEF Days
<1>12. ASSUME NEW e \in Days, NEW s \in Sides, k[e][s].ordered
       PROVE  l[e][s].ordered \/ (e = d /\ Resolve(said, state, d, s, TRUE) # Silent)
  BY <1>5, <1>12
<1>13. Explained(b, k, Append(w, r), state, said, d)
  <2>1. MovedBy(r, a, b)
    BY <1>1, <1>2, <1>8 DEF MovedBy, SoldIn, Freed
  <2>2. r \in Rows
    BY <1>7
  <2>3. EnteredBy(r, l, k, state, said, d)
    BY <1>10, <1>11, <1>12 DEF EnteredBy
  <2> QED BY <1>4, <1>9, <2>1, <2>2, <2>3, RowAdded
<1> QED BY <1>7, <1>13 DEF k, cash, shares

\* The entry alone, of an order nobody placed and nobody filled.
LEMMA EntryNoted ==
    ASSUME NEW state \in Checkpoints, NEW said, NEW d \in Days,
           NEW a, NEW l, NEW w, Explained(a, l, w, state, said, d),
           NEW side \in Sides, l[d][side].real.q = 0,
           NEW entry \in Entries, ~ entry.ordered, entry.real.q = 0
    PROVE  Explained(a, [l EXCEPT ![d][side] = entry], w, state, said, d)
<1> DEFINE k == [l EXCEPT ![d][side] = entry]
<1>1. l \in Ledgers
  BY DEF Explained
<1>2. k \in Ledgers
  BY <1>1 DEF Ledgers
<1>3. /\ k[d][side] = entry
      /\ \A e \in Days, s \in Sides : e # d \/ s # side => k[e][s] = l[e][s]
      /\ \A e \in Days : e # d => k[e] = l[e]
  BY <1>1 DEF Ledgers
<1> HIDE DEF k
<1>4. ASSUME NEW e \in Days, NEW s \in Sides PROVE k[e][s].real.q = l[e][s].real.q
  BY <1>3
<1>5. \A e \in Days : e > d => k[e] = l[e]
  BY <1>3 DEF Days
<1>6. ASSUME NEW e \in Days, NEW s \in Sides, k[e][s].ordered
       PROVE  l[e][s].ordered \/ (e = d /\ Resolve(said, state, d, s, TRUE) # Silent)
  BY <1>3, <1>6
<1>7. Explained(a, k, w, state, said, d)
  BY <1>2, <1>4, <1>5, <1>6, LedgerSet, Zenon
<1> QED BY <1>7 DEF k

\* One order of the session, filled as its record says.
LEMMA RealStepMaking ==
    ASSUME NEW state \in Checkpoints, NEW said \in Saids, NEW d \in Days, d > state.after,
           NEW m, Making(m, state, said, d), NEW side \in Sides, NEW sheet \in BOOLEAN,
           NEW open, NEW ordered, ordered = (side \in OrderedOn(state, d)),
           ordered = sheet => Fresh(m, d, side),
           NEW n, n = RealStep(m, state, said, d, side, sheet, open)
    PROVE  /\ Making(n, state, said, d)
           /\ ordered # sheet => n = m
           /\ \A o \in Sides : o # side /\ Fresh(m, d, o) => Fresh(n, d, o)
<1> DEFINE f == Resolve(said, state, d, side, ordered)
<1> DEFINE sim == SimOutcome(state, d, side, open)
<1> DEFINE real == RecordedAs(f, sim)
<1> DEFINE price == IF f.is = "filled" THEN f.price ELSE LastClose
<1> DEFINE entry == [ordered |-> ordered, sim |-> IF ordered THEN sim ELSE Nothing,
                     real |-> real]
<1> DEFINE done == IF real.q > 0 THEN Booked(m, side, real.q, price, d, "execution")
                   ELSE IF ordered THEN Unfilled(m, side, d) ELSE m
<1>1. n = IF ordered # sheet \/ Raised(m.account) THEN m
          ELSE IF ordered /\ f = Silent THEN [m EXCEPT !.account = Failed]
          ELSE [done EXCEPT !.ledger[d][side] = entry]
  <2>1. n = IF ordered # sheet \/ Raised(m.account) THEN m
            ELSE IF ordered /\ f = Silent THEN [m EXCEPT !.account = Failed]
            ELSE FillBooked(m, d, side, ordered, f, sim)
    <3> HIDE DEF real, price, entry, done
    <3> QED BY Zenon DEF RealStep
  <2> HIDE DEF f, sim
  <2>2. FillBooked(m, d, side, ordered, f, sim) = [done EXCEPT !.ledger[d][side] = entry]
    BY Zenon DEF FillBooked
  <2> HIDE DEF done, entry
  <2> QED BY <2>1, <2>2, Zenon
<1>2. ordered \in BOOLEAN
  OBVIOUS
<1>3. /\ f \in Fills \cup {Silent}
      /\ f.is = "filled" => f.q \in Nat /\ f.price \in Nat
      /\ ordered => f = Resolve(said, state, d, side, TRUE)
  BY <1>2, ResolveType
<1>4. sim \in Outcomes
  BY SimOutcomeType
<1>5. /\ Nothing \in Outcomes /\ LastClose \in Nat
      /\ \A q, p \in Nat : Outcome(q, p) \in Outcomes
  BY OutcomeType, BrokerAssumption
<1> HIDE DEF f, sim
<1>6. real \in Outcomes /\ price \in Nat
  BY <1>3, <1>4, <1>5 DEF RecordedAs
<1> HIDE DEF real, price
<1>7. entry \in Entries /\ entry.real = real /\ entry.ordered = ordered
  <2>1. (IF ordered THEN sim ELSE Nothing) \in Outcomes
    BY <1>4, <1>5
  <2>2. \A b \in BOOLEAN, x, y \in Outcomes : [ordered |-> b, sim |-> x, real |-> y] \in Entries
    BY DEF Entries
  <2>3. entry \in Entries
    BY <1>2, <1>6, <2>1, <2>2
  <2> QED BY <2>3
<1>8. PICK a, l, w : /\ m = [account |-> a, ledger |-> l, rows |-> w]
                     /\ a = Failed \/ Explained(a, l, w, state, said, d)
  BY DEF Making
<1>9. m.account = a /\ m.ledger = l /\ m.rows = w
  BY <1>8
<1> HIDE DEF entry
<1>10. CASE ordered # sheet \/ Raised(m.account)
  <2>1. n = m
    BY <1>1, <1>10
  <2> QED BY <2>1
<1>11. CASE ordered = sheet /\ ~ Raised(m.account) /\ ordered /\ f = Silent
  <2>1. n = [m EXCEPT !.account = Failed]
    BY <1>1, <1>11
  <2> HIDE DEF done
  <2>2. n = [account |-> Failed, ledger |-> l, rows |-> w]
    BY <1>8, <2>1
  <2>3. Making(n, state, said, d)
    BY <2>2 DEF Making
  <2>4. \A o \in Sides : Fresh(n, d, o)
    BY <2>2 DEF Fresh
  <2> QED BY <1>11, <2>3, <2>4
<1>12. CASE ordered = sheet /\ ~ Raised(m.account) /\ ~ (ordered /\ f = Silent)
  <2>1. n = [done EXCEPT !.ledger[d][side] = entry]
    BY <1>1, <1>12
  <2>2. Explained(a, l, w, state, said, d)
    BY <1>8, <1>9, <1>12, RaisedIs
  <2>3. l[d][side].real.q = 0
    BY <1>9, <1>12, RaisedIs DEF Fresh
  <2>4. entry.ordered => Resolve(said, state, d, side, TRUE) # Silent
    BY <1>3, <1>7, <1>12
  <2>5. Sound(a) /\ l \in Ledgers
    BY <2>2 DEF Explained
  <2> DEFINE k == [l EXCEPT ![d][side] = entry]
  <2>6. \A o \in Sides : o # side => k[d][o] = l[d][o]
    BY <2>5 DEF Ledgers
  <2>7. ASSUME NEW b, NEW v, done = [account |-> b, ledger |-> l, rows |-> v]
        PROVE  n = [account |-> b, ledger |-> k, rows |-> v]
    <3> HIDE DEF done
    <3> QED BY <2>1, <2>7
  <2>8. ASSUME NEW b, NEW v, n = [account |-> b, ledger |-> k, rows |-> v],
               b = Failed \/ Explained(b, k, v, state, said, d)
        PROVE  /\ Making(n, state, said, d)
               /\ \A o \in Sides : o # side /\ Fresh(m, d, o) => Fresh(n, d, o)
    <3> HIDE DEF done, k
    <3>1. Making(n, state, said, d)
      BY <2>8 DEF Making
    <3>2. ASSUME NEW o \in Sides, o # side, Fresh(m, d, o)
          PROVE  Fresh(n, d, o)
      <4>1. n.ledger = k
        BY <2>8
      <4>2. a # Failed
        BY <1>9, <1>12, RaisedIs
      <4>3. l[d][o].real.q = 0
        BY <1>9, <3>2, <4>2 DEF Fresh
      <4> QED BY <2>6, <3>2, <4>1, <4>3 DEF Fresh
    <3> QED BY <3>1, <3>2
  <2>9. /\ Making(n, state, said, d)
        /\ \A o \in Sides : o # side /\ Fresh(m, d, o) => Fresh(n, d, o)
    <3>1. CASE real.q > 0
      <4>1. done = Booked(m, side, real.q, price, d, "execution")
        BY <3>1
      <4>2. real.q \in Nat
        BY <1>6 DEF Outcomes
      <4> HIDE DEF done
      <4>3. Filling(done, a, l, w, side, real.q, d)
        BY <1>6, <1>8, <2>5, <4>1, <4>2, BookedIs
      <4>4. CASE done = [account |-> Failed, ledger |-> l, rows |-> w]
        <5>1. n = [account |-> Failed, ledger |-> k, rows |-> w]
          BY <2>7, <4>4
        <5> QED BY <2>8, <5>1
      <4>5. ASSUME NEW b, Sound(b), b.held = a.held + Signed(side, real.q),
                   b.avail <= a.avail + SoldIn(side, Signed(side, real.q)),
                   done = [account |-> b, ledger |-> l,
                           rows |-> Append(w, Row("execution", d, side, Signed(side, real.q),
                                                  b.cash - a.cash))]
            PROVE  /\ Making(n, state, said, d)
                   /\ \A o \in Sides : o # side /\ Fresh(m, d, o) => Fresh(n, d, o)
        <5> DEFINE v == Append(w, Row("execution", d, side, Signed(side, real.q),
                                      b.cash - a.cash))
        <5>1. Explained(b, k, v, state, said, d)
          BY <1>7, <2>2, <2>3, <2>4, <4>5, EntryBooked
        <5>2. done = [account |-> b, ledger |-> l, rows |-> v]
          BY <4>5
        <5> HIDE DEF v, k
        <5> QED BY <2>7, <2>8, <5>1, <5>2
      <4> QED BY <4>3, <4>4, <4>5 DEF Filling
    <3>2. CASE ~ (real.q > 0) /\ ordered
      <4>1. done = [m EXCEPT !.rows = Append(@, Row("execution", d, side, 0, 0))]
        BY <3>2 DEF Unfilled
      <4> HIDE DEF done
      <4>2. done = [account |-> a, ledger |-> l,
                    rows |-> Append(w, Row("execution", d, side, 0, 0))]
        BY <1>8, <4>1
      <4>3. real.q = 0
        BY <1>6, <3>2 DEF Outcomes
      <4>4. /\ Signed(side, real.q) = 0 /\ a.cash - a.cash = 0 /\ a.held = a.held + Signed(side, real.q)
            /\ a.avail <= a.avail + SoldIn(side, Signed(side, real.q))
        <5>1. Signed(side, real.q) = 0
          BY <4>3, SignedZero
        <5>2. a.cash \in Int /\ a.held \in Int /\ a.avail \in Int
          BY <2>5 DEF Sound, Accounts
        <5> QED BY <5>1, <5>2 DEF SoldIn
      <4>5. Explained(a, k, Append(w, Row("execution", d, side, Signed(side, real.q),
                                          a.cash - a.cash)), state, said, d)
        BY <1>7, <2>2, <2>3, <2>4, <2>5, <4>4, EntryBooked
      <4> DEFINE v == Append(w, Row("execution", d, side, 0, 0))
      <4>6. Explained(a, k, v, state, said, d)
        BY <4>4, <4>5
      <4> HIDE DEF v, k
      <4> QED BY <2>7, <2>8, <4>2, <4>6 DEF v
    <3>3. CASE ~ (real.q > 0) /\ ~ ordered
      <4>1. done = m
        BY <3>3
      <4>2. real.q = 0
        BY <1>6, <3>3 DEF Outcomes
      <4>3. Explained(a, k, w, state, said, d)
        BY <1>7, <2>2, <2>3, <3>3, <4>2, EntryNoted
      <4> HIDE DEF done, k
      <4> QED BY <1>8, <2>7, <2>8, <4>1, <4>3
    <3> QED BY <3>1, <3>2, <3>3
  <2> HIDE DEF done
  <2> QED BY <1>12, <2>9
<1> HIDE DEF done
<1> QED BY <1>10, <1>11, <1>12, Zenon

\* A correction moves the ledger by what its row moves.
LEMMA CorrectStepMaking ==
    ASSUME NEW state \in Checkpoints, NEW said \in Saids, NEW d \in Days, d > state.after,
           state.settled < d, NEW acted, NEW s \in RealSessions(state),
           NEW m, Making(m, state, said, d), NEW side \in Sides,
           NEW n, n = CorrectStep(m, state, said, acted, s, side, d)
    PROVE  /\ Making(n, state, said, d)
           /\ \A o \in Sides : Fresh(m, d, o) => Fresh(n, d, o)
<1> DEFINE entry == m.ledger[s][side]
<1> DEFINE f == Resolve(said, state, s, side, entry.ordered)
<1> DEFINE target == RecordedAs(f, entry.sim)
<1> DEFINE exDated == \/ \E e \in acted : e > s
                      \/ \E r \in Range(journal) : r.kind = "corporate_action" /\ r.day > s
<1> DEFINE b == Correct(m.account, s, side, entry.real, target, exDated)
<1> DEFINE row == [Row("correction", d, side, b.held - m.account.held,
                       b.cash - m.account.cash) EXCEPT !.corrects = s]
<1>1. n = IF Raised(m.account) \/ f = Silent \/ target = entry.real THEN m
          ELSE IF Raised(b) THEN [m EXCEPT !.account = Failed]
          ELSE [m EXCEPT !.account = b, !.ledger[s][side].real = target,
                         !.rows = Append(@, row)]
  BY Zenon DEF CorrectStep
<1>2. PICK a, l, w : /\ m = [account |-> a, ledger |-> l, rows |-> w]
                     /\ a = Failed \/ Explained(a, l, w, state, said, d)
  BY DEF Making
<1>3. m.account = a /\ m.ledger = l /\ m.rows = w
  BY <1>2
<1>4. /\ s \in Days /\ s \in Int /\ s > state.after /\ s <= state.settled /\ s < d
      /\ s \in 0 .. N /\ d \in Int
  BY PaperAssumption DEF RealSessions, Checkpoints, Days
<1>5. CASE Raised(m.account) \/ f = Silent \/ target = entry.real
  BY <1>1, <1>5, Zenon
<1>6. CASE ~ (Raised(m.account) \/ f = Silent \/ target = entry.real) /\ Raised(b)
  <2>1. n = [m EXCEPT !.account = Failed]
    BY <1>1, <1>6, Zenon
  <2>2. n = [account |-> Failed, ledger |-> l, rows |-> w]
    BY <1>2, <2>1
  <2>3. Making(n, state, said, d)
    BY <2>2 DEF Making
  <2>4. \A o \in Sides : Fresh(n, d, o)
    BY <2>2 DEF Fresh
  <2> QED BY <2>3, <2>4
<1>7. CASE ~ (Raised(m.account) \/ f = Silent \/ target = entry.real) /\ ~ Raised(b)
  <2>1. n = [m EXCEPT !.account = b, !.ledger[s][side].real = target, !.rows = Append(@, row)]
    BY <1>1, <1>7, Zenon
  <2>2. Explained(a, l, w, state, said, d)
    BY <1>2, <1>3, <1>7, RaisedIs
  <2>3. Sound(a) /\ l \in Ledgers
    BY <2>2 DEF Explained
  <2>4. /\ entry \in Entries /\ entry.ordered \in BOOLEAN /\ entry.sim \in Outcomes
        /\ entry.real \in Outcomes /\ entry = l[s][side]
    BY <1>3, <1>4, <2>3, EntryType
  <2> HIDE DEF entry
  <2>5. f.is = "filled" => f.q \in Nat /\ f.price \in Nat
    BY <1>4, <2>4, ResolveType
  <2> HIDE DEF f
  <2>6. target \in Outcomes
    BY <2>4, <2>5, OutcomeType DEF RecordedAs
  <2> HIDE DEF target
  <2>7. exDated \in BOOLEAN
    OBVIOUS
  <2> HIDE DEF exDated
  <2>8. b = Failed \/ (/\ Sound(b) /\ b.held = a.held + SharesMoved(side, entry.real, target)
                       /\ b.avail = a.avail + SharesMoved(side, entry.real, target))
    BY <1>3, <1>4, <2>3, <2>4, <2>6, <2>7, CorrectSound DEF Sides
  <2> HIDE DEF b
  <2>9. /\ Sound(b) /\ b.held = a.held + SharesMoved(side, entry.real, target)
        /\ b.avail = a.avail + SharesMoved(side, entry.real, target)
    BY <1>7, <2>8, RaisedIs
  <2> DEFINE shares == SharesMoved(side, entry.real, target)
  <2> DEFINE cash == b.cash - a.cash
  <2> DEFINE fixed == [entry EXCEPT !.real = target]
  <2> DEFINE k == [l EXCEPT ![s][side] = fixed]
  <2>10. /\ shares \in Int /\ cash \in Int /\ b.cash = a.cash + cash
         /\ b.held - a.held = shares
    <3>1. entry.real.q \in Int /\ target.q \in Int
      BY <2>4, <2>6 DEF Outcomes
    <3>2. a.cash \in Int /\ a.held \in Int /\ b.cash \in Int /\ b.held \in Int
      BY <2>3, <2>9 DEF Sound, Accounts
    <3>3. shares \in Int
      BY <3>1 DEF SharesMoved
    <3> HIDE DEF shares
    <3>4. b.held = a.held + shares
      BY <2>9 DEF shares
    <3> QED BY <3>2, <3>3, <3>4
  <2>11. shares = Signed(side, target.q) - Signed(side, entry.real.q)
    BY <2>4, <2>6 DEF SharesMoved, Signed, Outcomes, Sides
  <2>12. fixed \in Entries /\ fixed.real = target /\ fixed.ordered = entry.ordered
    BY <2>4, <2>6 DEF Entries
  <2>13. n = [account |-> b, ledger |-> k, rows |-> Append(w, row)]
    <3>1. [l EXCEPT ![s][side].real = target] = k
      BY <2>4
    <3>2. n = [account |-> b, ledger |-> [l EXCEPT ![s][side].real = target],
               rows |-> Append(w, row)]
      <4> HIDE DEF row
      <4> QED BY <1>2, <2>1
    <3> QED BY <3>1, <3>2
  <2> HIDE DEF fixed
  <2>14. k \in Ledgers
    BY <1>4, <2>3, <2>12 DEF Ledgers
  <2>15. /\ k[s][side] = fixed
         /\ \A e \in Days, o \in Sides : e # s \/ o # side => k[e][o] = l[e][o]
         /\ \A e \in Days : e # s => k[e] = l[e]
    BY <1>4, <2>3 DEF Ledgers
  <2> HIDE DEF k, shares, cash
  <2>16. "correction" \in Kinds
    BY DEF Kinds
  <2> DEFINE r == RowOf("correction", d, side, shares, cash, s)
  <2>17. row = r /\ r \in Rows
    <3>1. row = [Row("correction", d, side, shares, cash) EXCEPT !.corrects = s]
      BY <1>3, <2>10 DEF cash
    <3> HIDE DEF row
    <3> QED BY <1>4, <2>10, <2>16, <3>1, RowType
  <2>18. /\ r.kind = "correction" /\ r.day = d /\ r.shares = shares /\ r.cash = cash
         /\ r.side = side /\ r.corrects = s
    BY DEF RowOf
  <2> HIDE DEF r, row
  <2>19. SessionRow(r, state, d)
    BY <1>4, <2>18 DEF SessionRow, SettlementKinds
  <2>20. ASSUME NEW e \in Days, NEW o \in Sides
         PROVE  Signed(o, k[e][o].real.q) = Signed(o, l[e][o].real.q) + TradedIn(e, o)[r]
    <3>1. CASE e = s /\ o = side
      <4>1. TradedIn(e, o)[r] = shares
        BY <2>17, <2>18, <3>1 DEF TradedIn, OfOrder
      <4>2. k[e][o].real.q = target.q /\ l[e][o].real.q = entry.real.q
        BY <2>4, <2>12, <2>15, <3>1
      <4>3. Signed(o, target.q) \in Int /\ Signed(o, entry.real.q) \in Int
        BY <2>4, <2>6 DEF Signed, Outcomes
      <4> QED BY <2>11, <3>1, <4>1, <4>2, <4>3
    <3>2. CASE e # s \/ o # side
      <4>1. TradedIn(e, o)[r] = 0
        BY <2>17, <2>18, <3>2 DEF TradedIn, OfOrder
      <4>2. k[e][o] = l[e][o] /\ Signed(o, l[e][o].real.q) \in Int
        BY <2>3, <2>15, <3>2, EntryType DEF Signed
      <4> QED BY <4>1, <4>2
    <3> QED BY <3>1, <3>2
  <2>21. \A e \in Days : e > d => k[e] = l[e]
    BY <1>4, <2>15 DEF Days
  <2>22. ASSUME NEW e \in Days, NEW o \in Sides, k[e][o].ordered
         PROVE  l[e][o].ordered \/ (e = d /\ Resolve(said, state, d, o, TRUE) # Silent)
    BY <2>4, <2>12, <2>15, <2>22
  <2>23. Explained(b, k, Append(w, r), state, said, d)
    <3>1. MovedBy(r, a, b)
      <4>1. b.avail \in Int /\ a.avail \in Int /\ b.avail = a.avail + shares
        BY <2>3, <2>9 DEF Sound, Accounts, shares
      <4> QED BY <2>9, <2>10, <2>18, <4>1 DEF MovedBy, shares, Freed
    <3>2. EnteredBy(r, l, k, state, said, d)
      BY <2>20, <2>21, <2>22 DEF EnteredBy
    <3>3. r \in Rows
      BY <2>17
    <3> QED BY <2>2, <2>9, <2>14, <2>19, <3>1, <3>2, <3>3, RowAdded
  <2>24. Making(n, state, said, d)
    BY <2>13, <2>17, <2>23 DEF Making
  <2>25. ASSUME NEW o \in Sides, Fresh(m, d, o) PROVE Fresh(n, d, o)
    <3>1. n.ledger = k /\ a # Failed
      BY <1>3, <1>7, <2>13, RaisedIs
    <3>2. k[d][o] = l[d][o]
      BY <1>4, <2>15
    <3> QED BY <1>3, <2>25, <3>1, <3>2 DEF Fresh
  <2> QED BY <2>24, <2>25
<1> HIDE DEF f, target, b, entry
<1> QED BY <1>5, <1>6, <1>7

CorrectionsOver(f, m, state, said, acted, d) ==
    f = [s \in 0 .. N |-> IF s = 0 THEN m
                          ELSE CorrectSession(f[s - 1], state, said, acted, s, d)]

LEMMA CorrectionsExist ==
    ASSUME NEW m, NEW state, NEW said, NEW acted, NEW d
    PROVE  \E f : CorrectionsOver(f, m, state, said, acted, d)
<1> DEFINE Some(f, n) ==
      f = [s \in 0 .. n |-> IF s = 0 THEN m
                            ELSE CorrectSession(f[s - 1], state, said, acted, s, d)]
<1> DEFINE T == {n \in Nat : \E f : Some(f, n)}
<1>1. 0 \in T
  <2> DEFINE f == [s \in 0 .. 0 |-> m]
  <2>1. Some(f, 0)
    OBVIOUS
  <2> QED BY <2>1
<1>2. ASSUME NEW n \in Nat, n \in T PROVE n + 1 \in T
  <2>1. PICK f : Some(f, n)
    BY <1>2
  <2> DEFINE last == CorrectSession(f[n], state, said, acted, n + 1, d)
  <2> DEFINE g == [s \in 0 .. n + 1 |-> IF s <= n THEN f[s] ELSE last]
  <2>2. ASSUME NEW s \in 0 .. n + 1
        PROVE  g[s] = IF s = 0 THEN m
                      ELSE CorrectSession(g[s - 1], state, said, acted, s, d)
    <3>1. CASE s = 0
      BY <2>1, <3>1
    <3>2. CASE s \in 1 .. n
      <4>1. g[s] = f[s] /\ g[s - 1] = f[s - 1]
        BY <3>2
      <4>2. f[s] = CorrectSession(f[s - 1], state, said, acted, s, d)
        BY <2>1, <3>2
      <4> HIDE DEF g
      <4> QED BY <4>1, <4>2, <3>2
    <3>3. CASE s = n + 1
      <4>1. g[s] = last /\ g[s - 1] = f[n] /\ s # 0
        BY <3>3
      <4> HIDE DEF g
      <4> QED BY <4>1, <3>3
    <3> QED BY <3>1, <3>2, <3>3
  <2>3. Some(g, n + 1)
    <3> HIDE DEF last
    <3>1. g = [s \in 0 .. n + 1 |-> g[s]]
      OBVIOUS
    <3> HIDE DEF g
    <3> QED BY <2>2, <3>1
  <2> HIDE DEF g
  <2>4. \E f1 : Some(f1, n + 1)
    <3> HIDE DEF Some
    <3> QED BY <2>3
  <2> HIDE DEF Some
  <2> QED BY <2>4
<1> HIDE DEF T
<1>3. Nat \subseteq T
  BY <1>1, <1>2, Induction
<1>4. N \in T
  BY <1>3, PaperAssumption
<1> QED BY <1>4 DEF T, CorrectionsOver

\* The corrections of every session settled from records.
LEMMA CorrectedMaking ==
    ASSUME NEW state \in Checkpoints, NEW said \in Saids, NEW d \in Days, d > state.after,
           state.settled < d, NEW acted, NEW m, Making(m, state, said, d),
           NEW n, n = Corrected(m, state, said, acted, d)
    PROVE  /\ Making(n, state, said, d)
           /\ \A o \in Sides : Fresh(m, d, o) => Fresh(n, d, o)
<1> DEFINE f == CHOOSE g : CorrectionsOver(g, m, state, said, acted, d)
<1>1. CorrectionsOver(f, m, state, said, acted, d)
  BY CorrectionsExist
<1>2. n = f[N]
  BY DEF Corrected, CorrectionsOver
<1> HIDE DEF f
<1>3. /\ f[0] = m
      /\ \A s \in 1 .. N : f[s] = CorrectSession(f[s - 1], state, said, acted, s, d)
  <2>1. 0 \in 0 .. N /\ \A s \in 1 .. N : s \in 0 .. N /\ s # 0
    BY PaperAssumption
  <2>2. \A s \in 0 .. N : f[s] = IF s = 0 THEN m
                                  ELSE CorrectSession(f[s - 1], state, said, acted, s, d)
    BY <1>1 DEF CorrectionsOver
  <2> QED BY <2>1, <2>2
<1> DEFINE Good(x) ==
      /\ Making(x, state, said, d)
      /\ \A o \in Sides : Fresh(m, d, o) => Fresh(x, d, o)
<1> DEFINE T == {s \in Nat : s <= N => Good(f[s])}
<1>4. 0 \in T
  BY <1>3
<1>5. ASSUME NEW s \in Nat, s \in T PROVE s + 1 \in T
  <2> SUFFICES ASSUME s + 1 <= N PROVE Good(f[s + 1])
    OBVIOUS
  <2>1. s + 1 \in 1 .. N /\ (s + 1) - 1 = s
    BY PaperAssumption
  <2>2. f[s + 1] = CorrectSession(f[s], state, said, acted, s + 1, d)
    BY <1>3, <2>1
  <2>3. Good(f[s])
    BY <1>5, PaperAssumption
  <2>4. CASE s + 1 \notin RealSessions(state)
    <3>1. f[s + 1] = f[s]
      BY <2>2, <2>4 DEF CorrectSession
    <3> HIDE DEF Good
    <3> QED BY <2>3, <3>1
  <2>5. CASE s + 1 \in RealSessions(state)
    <3> DEFINE x == CorrectStep(f[s], state, said, acted, s + 1, "sell", d)
    <3> DEFINE y == CorrectStep(x, state, said, acted, s + 1, "buy", d)
    <3>1. f[s + 1] = y
      BY <2>2, <2>5 DEF CorrectSession
    <3>2. "sell" \in Sides /\ "buy" \in Sides
      BY DEF Sides
    <3>3. Making(x, state, said, d) /\ \A o \in Sides : Fresh(f[s], d, o) => Fresh(x, d, o)
      BY <2>3, <2>5, <3>2, CorrectStepMaking
    <3> HIDE DEF x
    <3>4. Making(y, state, said, d) /\ \A o \in Sides : Fresh(x, d, o) => Fresh(y, d, o)
      BY <2>5, <3>2, <3>3, CorrectStepMaking
    <3> HIDE DEF y
    <3> QED BY <2>3, <3>1, <3>3, <3>4
  <2> QED BY <2>4, <2>5
<1> HIDE DEF T, Good
<1>6. Nat \subseteq T
  BY <1>4, <1>5, Induction
<1>7. Good(f[N])
  BY <1>6, PaperAssumption DEF T
<1> QED BY <1>2, <1>7 DEF Good

LEMMA RealityMaking ==
    ASSUME NEW state \in Checkpoints, Sound(state.account), NEW said \in Saids,
           NEW d \in Days, d > state.after, state.settled < d, NEW acted, NEW open,
           \A s \in Sides : state.ledger[d][s].real.q = 0
    PROVE  Making(Reality(state, said, acted, d, open), state, said, d)
<1> DEFINE m0 == Opening(state, d)
<1> DEFINE acts == IF m0.rows = << >> THEN acted ELSE acted \cup {d}
<1> DEFINE m1 == Corrected(m0, state, said, acts, d)
<1> DEFINE m2 == RealStep(m1, state, said, d, "sell", TRUE, open)
<1> DEFINE m3 == RealStep(m2, state, said, d, "buy", TRUE, open)
<1> DEFINE m4 == RealStep(m3, state, said, d, "sell", FALSE, open)
<1> DEFINE m5 == RealStep(m4, state, said, d, "buy", FALSE, open)
<1>1. Reality(state, said, acted, d, open) = m5
  BY DEF Reality
<1>2. "sell" \in Sides /\ "buy" \in Sides /\ "sell" # "buy"
  BY DEF Sides
<1>3. Making(m0, state, said, d) /\ \A o \in Sides : Fresh(m0, d, o)
  BY OpeningMaking DEF Fresh
<1> HIDE DEF m0, acts
<1>4. Making(m1, state, said, d) /\ \A o \in Sides : Fresh(m1, d, o)
  BY <1>3, CorrectedMaking
<1> HIDE DEF m1
<1> DEFINE Others(side, m, n) ==
      \A o \in Sides : o # side /\ Fresh(m, d, o) => Fresh(n, d, o)
<1> DEFINE Listed(side) == side \in OrderedOn(state, d)
<1> DEFINE Stepped(m, n, side, sheet) == n = RealStep(m, state, said, d, side, sheet, open)
<1> DEFINE Unbooked(m, side, sheet) == Listed(side) = sheet => Fresh(m, d, side)
<1> DEFINE Holds(m, n, side, sheet) ==
      /\ Making(n, state, said, d)
      /\ Listed(side) # sheet => n = m
      /\ Others(side, m, n)
<1>5. ASSUME NEW m, Making(m, state, said, d), NEW side \in Sides, NEW sheet \in BOOLEAN,
             Unbooked(m, side, sheet), NEW n, Stepped(m, n, side, sheet)
      PROVE  Holds(m, n, side, sheet)
  <2> DEFINE ordered == Listed(side)
  <2>1. ordered = (side \in OrderedOn(state, d))
    OBVIOUS
  <2>2. ordered = sheet => Fresh(m, d, side)
    BY <1>5
  <2> HIDE DEF ordered
  <2>3. /\ Making(n, state, said, d)
        /\ ordered # sheet => n = m
        /\ Others(side, m, n)
    BY <1>5, <2>1, <2>2, RealStepMaking
  <2> QED BY <2>3 DEF ordered
<1>6. ASSUME NEW m, Making(m, state, said, d), NEW side \in Sides,
             Listed(side) => Fresh(m, d, side),
             NEW n, n = RealStep(m, state, said, d, side, TRUE, open)
      PROVE  /\ Making(n, state, said, d)
             /\ ~ Listed(side) => n = m
             /\ Others(side, m, n)
  <2> DEFINE when == TRUE
  <2>1. /\ when \in BOOLEAN /\ Stepped(m, n, side, when) /\ Making(m, state, said, d)
        /\ Unbooked(m, side, when)
    BY <1>6
  <2> HIDE DEF when, Listed, Others, Stepped, Unbooked, Holds
  <2>2. Holds(m, n, side, when)
    BY <1>5, <2>1, Zenon
  <2> QED BY <2>2 DEF when, Holds
<1>14. ASSUME NEW m, Making(m, state, said, d), NEW side \in Sides,
              ~ Listed(side) => Fresh(m, d, side),
              NEW n, n = RealStep(m, state, said, d, side, FALSE, open)
       PROVE  /\ Making(n, state, said, d)
              /\ Others(side, m, n)
  <2> DEFINE when == FALSE
  <2>1. /\ when \in BOOLEAN /\ Stepped(m, n, side, when) /\ Making(m, state, said, d)
        /\ Unbooked(m, side, when)
    BY <1>14
  <2> HIDE DEF when, Listed, Others, Stepped, Unbooked, Holds
  <2>2. Holds(m, n, side, when)
    BY <1>5, <2>1, Zenon
  <2> QED BY <2>2 DEF when, Holds
<1>15. /\ m2 = RealStep(m1, state, said, d, "sell", TRUE, open)
       /\ m3 = RealStep(m2, state, said, d, "buy", TRUE, open)
       /\ m4 = RealStep(m3, state, said, d, "sell", FALSE, open)
       /\ m5 = RealStep(m4, state, said, d, "buy", FALSE, open)
  OBVIOUS
<1> HIDE DEF Listed, Others, m2, m3, m4, m5
<1>7. /\ Making(m2, state, said, d)
      /\ ~ Listed("sell") => m2 = m1
      /\ Others("sell", m1, m2)
  BY <1>2, <1>4, <1>6, <1>15
<1>8. Fresh(m2, d, "buy") /\ (~ Listed("sell") => Fresh(m2, d, "sell"))
  BY <1>2, <1>4, <1>7 DEF Others
<1>9. /\ Making(m3, state, said, d)
      /\ ~ Listed("buy") => m3 = m2
      /\ Others("buy", m2, m3)
  BY <1>2, <1>6, <1>7, <1>8, <1>15
<1>10. (~ Listed("buy") => Fresh(m3, d, "buy")) /\ (~ Listed("sell") => Fresh(m3, d, "sell"))
  BY <1>2, <1>8, <1>9 DEF Others
<1>11. /\ Making(m4, state, said, d)
       /\ Others("sell", m3, m4)
  BY <1>2, <1>9, <1>10, <1>14, <1>15
<1>12. ~ Listed("buy") => Fresh(m4, d, "buy")
  BY <1>2, <1>10, <1>11 DEF Others
<1>13. Making(m5, state, said, d)
  BY <1>2, <1>11, <1>12, <1>14, <1>15
<1> QED BY <1>1, <1>13

\* What a settlement comes to, whichever record it is settled from.
LEMMA SettlementMaking ==
    ASSUME NEW state \in Checkpoints, Sound(state.account), NEW said \in Saids,
           NEW d \in Days, state.settled < d, NEW acted, NEW open,
           \A s \in Sides : state.ledger[d][s].real.q = 0
    PROVE  Making(Settlement(state, said, acted, d, open), state, said, d)
<1>1. CASE d > state.after
  BY <1>1, RealityMaking DEF Settlement
<1>2. CASE ~ (d > state.after)
  <2>1. d <= state.after
    BY <1>2 DEF Checkpoints, Days
  <2> QED BY <1>2, <2>1, SimulationMaking DEF Settlement
<1> QED BY <1>1, <1>2

-----------------------------------------------------------------------------
(* The invariant of the book.                                               *)

Pcs == {"idle", "restore", "adopt", "settle", "settled", "gate", "reread",
        "read", "decide", "commit", "decided"}
Runs == [pc : Pcs, target : 0 .. N, said : Saids \cup {<< >>}, acted : SUBSET Days]
Working == run.pc \notin {"idle", "read"}
Planning == run.pc \in {"settle", "settled", "gate", "decide", "commit"}

\* What the files and the process hold.
ShapeInv ==
    /\ ckpt \in Checkpoints /\ Sound(ckpt.account)
    /\ journal \in Seq(Rows) /\ damaged \in BOOLEAN
    /\ fits \subseteq Days /\ fills \in Saids
    /\ verdict \in {"observing", "confirmed", "killed"}
    /\ run \in Runs /\ (Working => run.target \in Days /\ run.said \in Saids)
    /\ exdates \subseteq Days /\ today \in Days

\* The outbox holds the last identities issued, in order; a row of it that is
\* already journaled is the journaled one.
NumberInv ==
    /\ \A i \in DOMAIN journal : journal[i].id <= ckpt.issued
    /\ Len(ckpt.outbox) <= ckpt.issued
    /\ \A j \in DOMAIN ckpt.outbox :
          ckpt.outbox[j].id = ckpt.issued - Len(ckpt.outbox) + j
    /\ \A i \in DOMAIN journal, j \in DOMAIN ckpt.outbox :
          journal[i].id = ckpt.outbox[j].id => journal[i] = ckpt.outbox[j]

\* A book starts at its first decision; what it settled lies behind its start
\* and had its decisions.
CalendarInv ==
    /\ ckpt.start = 0 => ckpt.settled = 0 /\ \A d \in Days : ckpt.decided[d] = "no"
    /\ ckpt.start # 0 => ckpt.decided[ckpt.start] # "no"
    /\ ckpt.settled # 0 => ckpt.start # 0 /\ ckpt.start <= ckpt.settled
    /\ \A d \in DueDays :
          ckpt.start # 0 /\ ckpt.start <= d /\ d <= ckpt.settled => ckpt.decided[d] # "no"

\* What a run has checked before it settles and decides still holds: nothing is
\* decided from its target on, every due session before it is decided.
PlanInv ==
    /\ Working => verdict # "killed"
    /\ Planning =>
          /\ \A d \in Days : ckpt.decided[d] # "no" => d < run.target
          /\ \A d \in DueDays :
                ckpt.start # 0 /\ ckpt.start <= d /\ d < run.target => ckpt.decided[d] # "no"
    /\ run.pc = "settle" => ckpt.start # 0 /\ Next2Settle(ckpt) < run.target
    /\ run.pc \in {"gate", "decide", "commit"} => ToSettle(ckpt, run.target) = {}
    /\ run.pc \in {"decide", "commit"} => Due(run.target)

\* No row is of a session the book has not reached, nor moves a share after the
\* last one settled.
Reached(r) ==
    /\ r.shares # 0 => r.day <= ckpt.settled
    /\ r.kind \in {"execution", "equity"} => r.day <= ckpt.settled
    /\ r.kind = "correction" => r.corrects <= ckpt.settled
    /\ r.kind = "order" => ckpt.decided[r.day] # "no"
RowsInv == \A r \in Range(journal) \cup Range(ckpt.outbox) : Reached(r)
LedgerInv ==
    \A d \in Days, s \in Sides : d > ckpt.settled => ckpt.ledger[d][s] = NoEntry

\* The rows add up to the account, mark every settled session once, and add up,
\* session by session, to the ledger.
BalanceInv ==
    /\ ckpt.account.held = SumOf(SharesIn, Published)
    /\ ckpt.account.cash = Cash + SumOf(CashIn, Published)
    /\ \A d \in Days :
          SumOf(Marks(d), Published)
            = IF ckpt.start # 0 /\ ckpt.start <= d /\ d <= ckpt.settled THEN 1 ELSE 0
\* The shares of all earlier days, with what a day corrected of them, cover what
\* it sold.
LockInv == \A d \in Days : 0 <= SumOf(OnHandIn(d), Published)
MatchInv ==
    \A d \in Days, s \in Sides :
       d > ckpt.after =>
          Signed(s, ckpt.ledger[d][s].real.q) = SumOf(TradedIn(d, s), Published)

\* An order on the ledger was accounted for, and an answer, once given, is never
\* taken back.
EvidenceInv ==
    /\ \A d \in Days, s \in Sides :
          ckpt.ledger[d][s].ordered =>
             \/ fills.key[d][s] # Silent \/ fills.session[d] # Silent
             \/ PostHoc(ckpt, d)
    /\ Working =>
          \A d \in Days, s \in Sides :
             /\ run.said.key[d][s] # Silent => fills.key[d][s] # Silent
             /\ run.said.session[d] # Silent => fills.session[d] # Silent

\* The state a run has published for its decision is on disk.
FitInv ==
    /\ FitStateKept
    /\ run.pc = "commit" => FitDue(run.target) /\ run.target \in fits

BookInv ==
    /\ ShapeInv /\ NumberInv /\ CalendarInv /\ PlanInv /\ RowsInv /\ LedgerInv
    /\ BalanceInv /\ LockInv /\ MatchInv /\ EvidenceInv /\ FitInv

-----------------------------------------------------------------------------
(* Rows going out.                                                          *)

\* Concatenation, up to its elements.
LEMMA ConcatParts ==
    ASSUME NEW S, NEW s \in Seq(S), NEW t \in Seq(S), NEW u \in Seq(S)
    PROVE  /\ (s \o t) \o u = s \o (t \o u)
           /\ s \o << >> = s /\ << >> \o s = s
           /\ Range(s \o t) = Range(s) \cup Range(t)
<1>1. (s \o t) \o u = s \o (t \o u)
  OBVIOUS
<1>2. s \o << >> = s /\ << >> \o s = s
  <2>1. s \o << >> = s
    OBVIOUS
  <2>2. << >> \o s = s
    OBVIOUS
  <2> QED BY <2>1, <2>2
<1>3. Range(s \o t) = Range(s) \cup Range(t)
  <2> DEFINE w == s \o t
  <2>1. /\ Len(s) \in Nat /\ Len(t) \in Nat
        /\ DOMAIN s = 1 .. Len(s) /\ DOMAIN t = 1 .. Len(t)
        /\ DOMAIN w = 1 .. Len(s) + Len(t)
        /\ \A i \in 1 .. Len(s) + Len(t) : w[i] = IF i <= Len(s) THEN s[i] ELSE t[i - Len(s)]
    BY ConcatIs
  <2> HIDE DEF w
  <2>2. ASSUME NEW i \in DOMAIN w PROVE w[i] \in Range(s) \cup Range(t)
    <3>1. CASE i <= Len(s)
      <4>1. i \in DOMAIN s /\ w[i] = s[i]
        BY <2>1, <3>1
      <4> QED BY <4>1 DEF Range
    <3>2. CASE ~(i <= Len(s))
      <4>1. i - Len(s) \in DOMAIN t /\ w[i] = t[i - Len(s)]
        BY <2>1, <3>2
      <4> QED BY <4>1 DEF Range
    <3> QED BY <3>1, <3>2
  <2>3. \A i \in DOMAIN s : s[i] \in Range(w)
    BY <2>1 DEF Range
  <2>4. ASSUME NEW i \in DOMAIN t PROVE t[i] \in Range(w)
    <3>1. Len(s) + i \in 1 .. Len(s) + Len(t) /\ ~(Len(s) + i <= Len(s)) /\ (Len(s) + i) - Len(s) = i
      BY <2>1
    <3>2. w[Len(s) + i] = t[i] /\ Len(s) + i \in DOMAIN w
      BY <2>1, <3>1
    <3> QED BY <3>2 DEF Range
  <2>5. Range(w) = Range(s) \cup Range(t)
    BY <2>2, <2>3, <2>4 DEF Range
  <2> QED BY <2>5 DEF w
<1> QED BY <1>1, <1>2, <1>3

\* Only the positions of the sequence matter to what is picked from it.
LEMMA PickedSame ==
    ASSUME NEW S, NEW s \in Seq(S), NEW K, NEW L,
           \A i \in DOMAIN s : i \in K <=> i \in L
    PROVE  Picked(s, K) = Picked(s, L)
<1>1. PICK g \in [0 .. Len(s) -> Seq(S)] :
          /\ g[0] = << >>
          /\ \A i \in 1 .. Len(s) : g[i] = Taken(g[i - 1], s, i, L)
          /\ Picked(s, L) = g[Len(s)]
  BY PickedRuns
<1>2. \A i \in 1 .. Len(s) : g[i] = Taken(g[i - 1], s, i, K)
  BY <1>1 DEF Taken
<1>3. Picked(s, K) = g[Len(s)]
  BY <1>1, <1>2, PickedUnique
<1> QED BY <1>1, <1>3

\* The sequence s is p, k long, and then q.
SplitsAt(s, S, k, p, q) ==
    /\ p \in Seq(S) /\ q \in Seq(S)
    /\ Len(p) = k /\ Len(q) = Len(s) - k
    /\ \A i \in 1 .. k : p[i] = s[i]
    /\ \A i \in 1 .. Len(s) - k : q[i] = s[k + i]
    /\ s = p \o q

LEMMA SplitAt ==
    ASSUME NEW S, NEW s \in Seq(S), NEW k \in 0 .. Len(s)
    PROVE  SplitsAt(s, S, k, SubSeq(s, 1, k), SubSeq(s, k + 1, Len(s)))
<1> DEFINE p == SubSeq(s, 1, k)
<1> DEFINE q == SubSeq(s, k + 1, Len(s))
<1>1. Len(s) \in Nat /\ k \in Nat /\ k <= Len(s) /\ DOMAIN s = 1 .. Len(s)
  OBVIOUS
<1>2. p \in Seq(S) /\ Len(p) = k /\ \A i \in 1 .. k : p[i] = s[i]
  BY <1>1
<1>3. q \in Seq(S) /\ Len(q) = Len(s) - k /\ \A i \in 1 .. Len(s) - k : q[i] = s[k + i]
  <2>1. q = [i \in 1 .. Len(s) - k |-> s[k + i]]
    <3>1. (k + 1) - 1 = k /\ k + 1 \in Nat /\ (Len(s) - (k + 1)) + 1 = Len(s) - k
      BY <1>1
    <3>2. \A i : ((k + 1) + i) - 1 = k + i \/ i \notin 1 .. Len(s) - k
      BY <1>1
    <3> QED BY <1>1, <3>1, <3>2
  <2>2. \A i \in 1 .. Len(s) - k : s[k + i] \in S
    <3> SUFFICES ASSUME NEW i \in 1 .. Len(s) - k PROVE s[k + i] \in S
      OBVIOUS
    <3>1. k + i \in 1 .. Len(s)
      BY <1>1
    <3> QED BY <1>1, <3>1
  <2> HIDE DEF q
  <2>3. Len(s) - k \in Nat
    BY <1>1
  <2> QED BY <2>1, <2>2, <2>3
<1> HIDE DEF p, q
<1>4. s = p \o q
  <2>1. p \o q = [i \in 1 .. Len(s) |-> (p \o q)[i]]
    <3>1. k + (Len(s) - k) = Len(s)
      BY <1>1
    <3>2. p \o q = [i \in 1 .. Len(p) + Len(q) |-> (p \o q)[i]]
      BY <1>2, <1>3, ConcatIs
    <3> QED BY <1>2, <1>3, <3>1, <3>2
  <2>2. \A i \in 1 .. Len(s) : (p \o q)[i] = s[i]
    <3> SUFFICES ASSUME NEW i \in 1 .. Len(s) PROVE (p \o q)[i] = s[i]
      OBVIOUS
    <3>1. (p \o q)[i] = IF i <= k THEN p[i] ELSE q[i - k]
      BY <1>1, <1>2, <1>3, ConcatIs
    <3>2. CASE i <= k
      BY <1>1, <1>2, <3>1, <3>2
    <3>3. CASE ~(i <= k)
      <4>1. i - k \in 1 .. Len(s) - k /\ k + (i - k) = i
        BY <1>1, <3>3
      <4> QED BY <1>3, <3>1, <3>3, <4>1
    <3> QED BY <3>2, <3>3
  <2>3. s = [i \in 1 .. Len(s) |-> s[i]]
    BY <1>1
  <2> QED BY <2>1, <2>2, <2>3, Zenon
<1>5. SplitsAt(s, S, k, p, q)
  BY <1>2, <1>3, <1>4, Zenon DEF SplitsAt
<1> QED BY <1>5 DEF p, q

\* The rows of an outbox a journal lacks, and the journal with them.
Lacking(j, o) == { i \in DOMAIN o : ~ \E k \in DOMAIN j : j[k].id = o[i].id }
Extended(j, o) == j \o Picked(o, Lacking(j, o))

\* Identities up to n are issued, the last of them to the outbox.
Numbering(j, o, n) ==
    /\ \A i \in DOMAIN j : j[i].id <= n
    /\ Len(o) <= n
    /\ \A i \in DOMAIN o : o[i].id = n - Len(o) + i
    /\ \A i \in DOMAIN j, k \in DOMAIN o : j[i].id = o[k].id => j[i] = o[k]

LEMMA AppendedIs ==
    /\ \A rows : Appended(rows) = Extended(journal, rows)
    /\ Published = Extended(journal, ckpt.outbox)
    /\ NumberInv <=> Numbering(journal, ckpt.outbox, ckpt.issued)
<1>1. \A rows : Appended(rows) = Extended(journal, rows)
  BY DEF Appended, Missing, Journaled, Extended, Lacking
<1>2. Published = Extended(journal, ckpt.outbox)
  BY <1>1 DEF Published
<1>3. NumberInv <=> Numbering(journal, ckpt.outbox, ckpt.issued)
  BY DEF NumberInv, Numbering
<1> QED BY <1>1, <1>2, <1>3

LEMMA RowsAssociate ==
    ASSUME NEW p \in Seq(Rows), NEW q \in Seq(Rows), NEW r \in Seq(Rows)
    PROVE  (p \o q) \o r = p \o (q \o r)
OBVIOUS

LEMMA ExtendedType ==
    ASSUME NEW j \in Seq(Rows), NEW o \in Seq(Rows)
    PROVE  /\ Picked(o, Lacking(j, o)) \in Seq(Rows)
           /\ Extended(j, o) \in Seq(Rows)
           /\ Extended(j, << >>) = j
           /\ Range(Extended(j, o)) = Range(j) \cup {o[i] : i \in Lacking(j, o)}
<1>1. Picked(o, Lacking(j, o)) \in Seq(Rows)
  BY PickedType
<1>2. Extended(j, o) \in Seq(Rows)
  BY <1>1 DEF Extended
<1>3. Extended(j, << >>) = j
  <2>1. << >> \in Seq(Rows) /\ DOMAIN << >> = {}
    OBVIOUS
  <2>2. Picked(<< >>, Lacking(j, << >>)) = << >>
    BY <2>1, PickedNone
  <2> QED BY <2>1, <2>2, ConcatParts DEF Extended
<1>4. Range(Extended(j, o)) = Range(j) \cup {o[i] : i \in Lacking(j, o)}
  <2>1. Range(Picked(o, Lacking(j, o))) = {o[i] : i \in DOMAIN o \cap Lacking(j, o)}
    BY PickedRange
  <2>2. DOMAIN o \cap Lacking(j, o) = Lacking(j, o)
    BY DEF Lacking
  <2>3. Range(Extended(j, o)) = Range(j) \cup Range(Picked(o, Lacking(j, o)))
    BY <1>1, ConcatParts DEF Extended
  <2> QED BY <2>1, <2>2, <2>3
<1> QED BY <1>1, <1>2, <1>3, <1>4

\* Whatever goes out holds the rows it held and those of the outbox.
LEMMA ExtendedRange ==
    ASSUME NEW j \in Seq(Rows), NEW o \in Seq(Rows), NEW n \in Nat, Numbering(j, o, n)
    PROVE  Range(Extended(j, o)) = Range(j) \cup Range(o)
<1>1. Range(Extended(j, o)) = Range(j) \cup {o[i] : i \in Lacking(j, o)}
  BY ExtendedType
<1>2. {o[i] : i \in Lacking(j, o)} \subseteq Range(o)
  BY DEF Lacking, Range
<1>3. ASSUME NEW i \in DOMAIN o, i \notin Lacking(j, o) PROVE o[i] \in Range(j)
  <2>1. PICK k \in DOMAIN j : j[k].id = o[i].id
    BY <1>3 DEF Lacking
  <2>2. j[k] = o[i]
    BY <2>1 DEF Numbering
  <2> QED BY <2>2 DEF Range
<1> QED BY <1>1, <1>2, <1>3 DEF Range

\* Rows the journal lacks go out behind what goes out.
LEMMA ExtendedBehind ==
    ASSUME NEW j \in Seq(Rows), NEW o \in Seq(Rows), NEW q \in Seq(Rows),
           DOMAIN q \subseteq Lacking(j, q)
    PROVE  Extended(j, o \o q) = Extended(j, o) \o q
<1> DEFINE w == o \o q
<1> DEFINE K == Lacking(j, w)
<1> DEFINE L == Lacking(j, q)
<1>1. /\ Len(o) \in Nat /\ Len(q) \in Nat
      /\ DOMAIN o = 1 .. Len(o) /\ DOMAIN q = 1 .. Len(q) /\ DOMAIN w = 1 .. Len(o) + Len(q)
      /\ \A i \in 1 .. Len(o) + Len(q) : w[i] = IF i <= Len(o) THEN o[i] ELSE q[i - Len(o)]
  <2>1. Joined(w, o, q)
    BY DEF Joined
  <2> QED BY ConcatIs
<1>2. Joined(w, o, q)
  BY DEF Joined
<1> HIDE DEF w
<1>3. \A i \in DOMAIN o : i \in DOMAIN w /\ w[i] = o[i]
  BY <1>1
<1>4. \A i \in DOMAIN q : Len(o) + i \in DOMAIN w /\ w[Len(o) + i] = q[i]
  <2> SUFFICES ASSUME NEW i \in DOMAIN q
               PROVE  Len(o) + i \in DOMAIN w /\ w[Len(o) + i] = q[i]
    OBVIOUS
  <2>1. /\ Len(o) + i \in 1 .. Len(o) + Len(q) /\ ~(Len(o) + i <= Len(o))
        /\ (Len(o) + i) - Len(o) = i
    BY <1>1
  <2> QED BY <1>1, <2>1
<1>5. Behind(L, Len(o), q, K)
  BY <1>4 DEF Behind, Lacking
<1>6. \A i \in DOMAIN o : i \in K <=> i \in Lacking(j, o)
  BY <1>3 DEF Lacking
<1>7. DOMAIN q \subseteq L
  OBVIOUS
<1> HIDE DEF K, L
<1>8. Picked(w, K) = Picked(o, K) \o Picked(q, L)
  BY <1>2, <1>5, PickedConcat
<1>9. Picked(o, K) = Picked(o, Lacking(j, o))
  BY <1>6, PickedSame
<1>10. Picked(q, L) = q
  BY <1>7, PickedAll
<1>11. Picked(o, Lacking(j, o)) \in Seq(Rows)
  BY ExtendedType
<1> DEFINE x == Picked(o, Lacking(j, o))
<1>12. Extended(j, w) = j \o (x \o q) /\ Extended(j, o) = j \o x
  BY <1>8, <1>9, <1>10 DEF Extended, K
<1> HIDE DEF x
<1>13. x \in Seq(Rows)
  BY <1>11 DEF x
<1> HIDE DEF w
<1>14. (j \o x) \o q = j \o (x \o q)
  BY <1>13, SMT
<1> QED BY <1>12, <1>14 DEF w

\* Rows queued behind the outbox come out behind it.
LEMMA ExtendedMore ==
    ASSUME NEW j \in Seq(Rows), NEW o \in Seq(Rows), NEW n \in Nat, Numbering(j, o, n),
           NEW new \in Seq(Rows),
           NEW q, q = Numbered(new, n), NEW w, Joined(w, o, q)
    PROVE  /\ q \in Seq(Rows) /\ w \in Seq(Rows)
           /\ Numbering(j, w, n + Len(new))
           /\ Joined(Extended(j, w), Extended(j, o), q)
           /\ Range(w) = Range(o) \cup Range(q)
<1>1. Len(new) \in Nat /\ DOMAIN new = 1 .. Len(new) /\ Len(o) \in Nat /\ DOMAIN o = 1 .. Len(o)
  OBVIOUS
<1>2. \A i \in DOMAIN new : [new[i] EXCEPT !.id = n + i] \in Rows
  <2> SUFFICES ASSUME NEW i \in DOMAIN new PROVE [new[i] EXCEPT !.id = n + i] \in Rows
    OBVIOUS
  <2>1. new[i] \in Rows /\ n + i \in Nat
    BY <1>1
  <2> QED BY <2>1 DEF Rows
<1>3. q = [i \in 1 .. Len(new) |-> [new[i] EXCEPT !.id = n + i]]
  BY <1>1 DEF Numbered
<1>4. /\ q \in Seq(Rows) /\ Len(q) = Len(new) /\ DOMAIN q = 1 .. Len(new)
      /\ \A i \in DOMAIN new : q[i] = [new[i] EXCEPT !.id = n + i]
  BY <1>1, <1>2, <1>3
<1>5. \A i \in DOMAIN q : q[i].id = n + i
  <2> SUFFICES ASSUME NEW i \in DOMAIN q PROVE q[i].id = n + i
    OBVIOUS
  <2>1. i \in DOMAIN new /\ new[i] \in Rows
    BY <1>1, <1>4
  <2>2. q[i] = [new[i] EXCEPT !.id = n + i]
    BY <1>4, <2>1
  <2> QED BY <2>1, <2>2 DEF Rows
<1>6. /\ w \in Seq(Rows) /\ Len(w) = Len(o) + Len(new) /\ DOMAIN w = 1 .. Len(o) + Len(new)
      /\ \A i \in DOMAIN w : w[i] = IF i <= Len(o) THEN o[i] ELSE q[i - Len(o)]
  <2>1. /\ w \in Seq(Rows) /\ Len(w) = Len(o) + Len(q)
        /\ DOMAIN w = 1 .. Len(o) + Len(q)
        /\ \A i \in 1 .. Len(o) + Len(q) : w[i] = IF i <= Len(o) THEN o[i] ELSE q[i - Len(o)]
    <3>1. w = o \o q /\ o \in Seq(Rows) /\ q \in Seq(Rows)
      BY <1>4 DEF Joined
    <3> QED BY <3>1, ConcatIs
  <2> QED BY <1>4, <2>1
<1>7. \A i \in DOMAIN j : j[i].id <= n /\ j[i].id \in Nat
  <2>1. \A i \in DOMAIN j : j[i] \in Rows
    OBVIOUS
  <2> QED BY <2>1 DEF Numbering, Rows
<1>8. \A i \in DOMAIN w : i > Len(o) => i - Len(o) \in DOMAIN q /\ w[i].id = n + (i - Len(o))
  <2> SUFFICES ASSUME NEW i \in DOMAIN w, i > Len(o)
               PROVE  i - Len(o) \in DOMAIN q /\ w[i].id = n + (i - Len(o))
    OBVIOUS
  <2>1. i - Len(o) \in DOMAIN q /\ ~(i <= Len(o))
    BY <1>1, <1>4, <1>6
  <2> QED BY <1>5, <1>6, <2>1
<1>9. Numbering(j, w, n + Len(new))
  <2>1. \A i \in DOMAIN j : j[i].id <= n + Len(new)
    BY <1>1, <1>7
  <2>2. Len(o) <= n /\ Len(w) <= n + Len(new)
    BY <1>1, <1>6 DEF Numbering
  <2>3. ASSUME NEW i \in DOMAIN w PROVE w[i].id = n + Len(new) - Len(w) + i
    <3>1. CASE i <= Len(o)
      <4>1. i \in DOMAIN o /\ w[i] = o[i]
        BY <1>1, <1>6, <3>1
      <4>2. o[i].id = n - Len(o) + i
        BY <4>1 DEF Numbering
      <4> QED BY <1>1, <1>6, <4>1, <4>2
    <3>2. CASE i > Len(o)
      BY <1>1, <1>6, <1>8, <3>2
    <3> QED BY <1>1, <1>6, <3>1, <3>2
  <2>4. ASSUME NEW i \in DOMAIN j, NEW k \in DOMAIN w, j[i].id = w[k].id
        PROVE  j[i] = w[k]
    <3>1. CASE k <= Len(o)
      <4>1. k \in DOMAIN o /\ w[k] = o[k]
        BY <1>1, <1>6, <3>1
      <4> QED BY <2>4, <4>1 DEF Numbering
    <3>2. CASE k > Len(o)
      <4>1. w[k].id = n + (k - Len(o)) /\ k - Len(o) \in Nat /\ k - Len(o) > 0
        BY <1>1, <1>6, <1>8, <3>2
      <4> QED BY <1>7, <2>4, <4>1
    <3> QED BY <1>1, <1>6, <3>1, <3>2
  <2> QED BY <2>1, <2>2, <2>3, <2>4 DEF Numbering
<1>10. Extended(j, w) = Extended(j, o) \o q
  <2>1. DOMAIN q \subseteq Lacking(j, q)
    <3> SUFFICES ASSUME NEW i \in DOMAIN q PROVE i \in Lacking(j, q)
      OBVIOUS
    <3>1. q[i].id = n + i /\ i \in Nat /\ i > 0
      BY <1>4, <1>5
    <3>2. \A k \in DOMAIN j : j[k].id # q[i].id
      BY <1>7, <3>1
    <3> QED BY <3>2 DEF Lacking
  <2>2. q \in Seq(Rows)
    BY <1>4
  <2>3. Extended(j, o \o q) = Extended(j, o) \o q
    BY <2>1, <2>2, ExtendedBehind, Zenon
  <2>4. w = o \o q
    BY <1>4 DEF Joined
  <2> QED BY <2>3, <2>4, Zenon
<1>11. Range(w) = Range(o) \cup Range(q)
  BY <1>4, ConcatParts DEF Joined
<1> QED BY <1>1, <1>4, <1>6, <1>9, <1>10, <1>11 DEF Joined

\* Some rows gone out, what is left to go out is what was: a run that goes on
\* after a crash appends no row twice and leaves none out.
LEMMA ExtendedSome ==
    ASSUME NEW j \in Seq(Rows), NEW o \in Seq(Rows), NEW n \in Nat, Numbering(j, o, n),
           NEW k \in 0 .. Len(o), NEW p, p = Extended(j, SubSeq(o, 1, k))
    PROVE  /\ p \in Seq(Rows) /\ Numbering(p, o, n)
           /\ Extended(p, o) = Extended(j, o)
           /\ Range(p) \cup Range(o) = Range(j) \cup Range(o)
<1> DEFINE pre == SubSeq(o, 1, k)
<1> DEFINE post == SubSeq(o, k + 1, Len(o))
<1>1. Len(o) \in Nat /\ k \in Nat /\ k <= Len(o) /\ DOMAIN o = 1 .. Len(o)
  OBVIOUS
<1>2. /\ pre \in Seq(Rows) /\ Len(pre) = k /\ DOMAIN pre = 1 .. k
      /\ \A i \in 1 .. k : pre[i] = o[i]
      /\ post \in Seq(Rows) /\ Len(post) = Len(o) - k /\ DOMAIN post = 1 .. Len(o) - k
      /\ \A i \in 1 .. Len(o) - k : post[i] = o[k + i]
      /\ o = pre \o post /\ p = Extended(j, pre)
  <2>1. SplitsAt(o, Rows, k, pre, post)
    BY SplitAt
  <2>2. p = Extended(j, pre)
    OBVIOUS
  <2> HIDE DEF pre, post
  <2>3. DOMAIN pre = 1 .. Len(pre) /\ DOMAIN post = 1 .. Len(post)
    BY <2>1 DEF SplitsAt
  <2> QED BY <2>1, <2>2, <2>3, Zenon DEF SplitsAt
<1> HIDE DEF pre, post
<1>3. \A i \in 1 .. k : i \in DOMAIN o
  BY <1>1
<1>4. \A i \in 1 .. Len(o) - k : k + i \in DOMAIN o
  BY <1>1
<1>5. p \in Seq(Rows) /\ Range(p) = Range(j) \cup {pre[i] : i \in Lacking(j, pre)}
  <2>1. pre \in Seq(Rows)
    BY <1>2, Zenon
  <2>2. /\ Extended(j, pre) \in Seq(Rows)
        /\ Range(Extended(j, pre)) = Range(j) \cup {pre[i] : i \in Lacking(j, pre)}
    BY <2>1, ExtendedType, Zenon
  <2>3. p = Extended(j, pre)
    BY <1>2, Zenon
  <2> QED BY <2>2, <2>3, Zenon
<1> DEFINE M == Lacking(j, pre)
<1>14. M \subseteq 1 .. k
  BY <1>2 DEF Lacking
<1>15. /\ \A i \in DOMAIN p : p[i] \in Range(j) \cup {pre[l] : l \in M}
       /\ \A x \in Range(j) \cup {pre[l] : l \in M} : \E i \in DOMAIN p : p[i] = x
  BY <1>5 DEF Range
<1> HIDE DEF M
<1>6. \A i \in DOMAIN p : \/ \E l \in DOMAIN j : p[i] = j[l]
                          \/ \E l \in 1 .. k : l \in M /\ p[i] = o[l]
  BY <1>2, <1>14, <1>15 DEF Range
<1>7. \A l \in DOMAIN j : \E i \in DOMAIN p : p[i] = j[l]
  BY <1>5 DEF Range
<1>8. \A l \in M : \E i \in DOMAIN p : p[i] = o[l]
  BY <1>2, <1>14, <1>15
<1> USE DEF M
<1>9. \A i, l \in DOMAIN o : o[i].id = o[l].id => i = l
  BY <1>1 DEF Numbering
<1>10. \A i \in DOMAIN o : o[i].id <= n
  BY <1>1 DEF Numbering
<1>11. Numbering(p, o, n)
  <2>1. \A i \in DOMAIN p : p[i].id <= n
    BY <1>3, <1>6, <1>10 DEF Numbering
  <2>2. ASSUME NEW i \in DOMAIN p, NEW l \in DOMAIN o, p[i].id = o[l].id
        PROVE  p[i] = o[l]
    BY <1>3, <1>6, <1>9, <2>2 DEF Numbering
  <2> QED BY <2>1, <2>2 DEF Numbering
<1>12. Extended(p, o) = Extended(j, o)
  <2> DEFINE K == Lacking(j, o)
  <2> DEFINE L == Lacking(p, o)
  <2> DEFINE rest == Picked(post, {i \in DOMAIN post : k + i \in K})
  <2>1. Picked(o, K) = Picked(pre, K) \o rest
    <3> DEFINE H == {i \in DOMAIN post : k + i \in K}
    <3>1. Behind(H, Len(pre), post, K) /\ Joined(o, pre, post)
      BY <1>2 DEF Behind, Joined
    <3> HIDE DEF K, H
    <3>2. Picked(o, K) = Picked(pre, K) \o Picked(post, H)
      BY <1>2, <3>1, PickedConcat
    <3> QED BY <3>2 DEF H
  <2>2. Picked(o, L) = Picked(pre, L) \o Picked(post, {i \in DOMAIN post : k + i \in L})
    <3> DEFINE H == {i \in DOMAIN post : k + i \in L}
    <3>1. Behind(H, Len(pre), post, L) /\ Joined(o, pre, post)
      BY <1>2 DEF Behind, Joined
    <3> HIDE DEF L, H
    <3>2. Picked(o, L) = Picked(pre, L) \o Picked(post, H)
      BY <1>2, <3>1, PickedConcat
    <3> QED BY <3>2 DEF H
  <2>3. Picked(pre, K) = Picked(pre, Lacking(j, pre))
    <3>1. \A i \in DOMAIN pre : i \in K <=> i \in Lacking(j, pre)
      BY <1>2, <1>3 DEF Lacking
    <3> HIDE DEF K
    <3> QED BY <1>2, <3>1, PickedSame
  <2>4. Picked(pre, L) = << >>
    <3>1. ASSUME NEW i \in DOMAIN pre PROVE i \notin L
      <4>1. CASE i \in Lacking(j, pre)
        BY <1>8, <4>1 DEF Lacking
      <4>2. CASE i \notin Lacking(j, pre)
        <5>1. PICK l \in DOMAIN j : j[l].id = pre[i].id
          BY <4>2 DEF Lacking
        <5>2. j[l].id = o[i].id
          BY <1>2, <5>1
        <5>3. PICK m \in DOMAIN p : p[m] = j[l]
          BY <1>7
        <5> QED BY <5>2, <5>3 DEF Lacking
      <4> QED BY <4>1, <4>2
    <3>2. L \cap DOMAIN pre = {}
      BY <3>1
    <3> HIDE DEF L
    <3> QED BY <1>2, <3>2, PickedNone
  <2>5. {i \in DOMAIN post : k + i \in L} = {i \in DOMAIN post : k + i \in K}
    <3> SUFFICES ASSUME NEW i \in DOMAIN post PROVE k + i \in L <=> k + i \in K
      OBVIOUS
    <3>1. k + i \in DOMAIN o /\ \A l \in 1 .. k : l # k + i
      BY <1>1, <1>2, <1>4
    <3>2. \A l \in 1 .. k : o[l].id # o[k + i].id
      BY <1>3, <1>9, <3>1
    <3>3. (\E l \in DOMAIN p : p[l].id = o[k + i].id)
            <=> (\E l \in DOMAIN j : j[l].id = o[k + i].id)
      <4>1. ASSUME NEW l \in DOMAIN p, p[l].id = o[k + i].id
            PROVE  \E m \in DOMAIN j : j[m].id = o[k + i].id
        BY <1>6, <3>2, <4>1
      <4>2. ASSUME NEW l \in DOMAIN j, j[l].id = o[k + i].id
            PROVE  \E m \in DOMAIN p : p[m].id = o[k + i].id
        BY <1>7, <4>2
      <4> QED BY <4>1, <4>2
    <3> QED BY <3>1, <3>3 DEF Lacking
  <2>6. rest \in Seq(Rows) /\ Picked(pre, Lacking(j, pre)) \in Seq(Rows)
    BY <1>2, PickedType
  <2> HIDE DEF rest
  <2>7. Picked(o, L) = rest
    BY <2>2, <2>4, <2>5, <2>6, ConcatParts DEF rest
  <2>8. Picked(o, K) = Picked(pre, Lacking(j, pre)) \o rest
    BY <2>1, <2>3
  <2>9. p = j \o Picked(pre, Lacking(j, pre))
    BY <1>2 DEF Extended
  <2>10. (j \o Picked(pre, Lacking(j, pre))) \o rest = j \o (Picked(pre, Lacking(j, pre)) \o rest)
    BY <2>6, RowsAssociate
  <2> QED BY <2>7, <2>8, <2>9, <2>10 DEF Extended
<1>13. Range(p) \cup Range(o) = Range(j) \cup Range(o)
  <2>1. {pre[i] : i \in Lacking(j, pre)} \subseteq Range(o)
    BY <1>2, <1>3 DEF Lacking, Range
  <2> QED BY <1>5, <2>1
<1> QED BY <1>5, <1>11, <1>12, <1>13

\* All of them gone out, the outbox may be emptied.
LEMMA ExtendedAll ==
    ASSUME NEW j \in Seq(Rows), NEW o \in Seq(Rows), NEW n \in Nat, Numbering(j, o, n),
           NEW p, p = Extended(j, o)
    PROVE  /\ p \in Seq(Rows) /\ Numbering(p, << >>, n)
           /\ Extended(p, << >>) = p
           /\ Range(p) \cup Range(<< >>) = Range(j) \cup Range(o)
<1>1. Len(o) \in 0 .. Len(o) /\ SubSeq(o, 1, Len(o)) = o
  OBVIOUS
<1>2. p \in Seq(Rows) /\ Numbering(p, o, n)
  BY <1>1, ExtendedSome
<1>3. Numbering(p, << >>, n)
  BY <1>2 DEF Numbering
<1>4. Range(<< >>) = {}
  BY DEF Range
<1>5. Extended(p, << >>) = p
  BY <1>2, ExtendedType
<1>6. Range(p) = Range(j) \cup Range(o)
  BY ExtendedRange
<1> QED BY <1>2, <1>3, <1>4, <1>5, <1>6

-----------------------------------------------------------------------------
(* Steps that neither settle nor decide.                                    *)

LEMMA PublishedNext ==
    /\ Published' = Extended(journal', ckpt'.outbox)
    /\ NumberInv' <=> Numbering(journal', ckpt'.outbox, ckpt'.issued)
BY DEF Published, Appended, Missing, Journaled, Extended, Lacking, NumberInv, Numbering

\* The rows a reader of the book ever sees.
AllRows == Range(journal) \cup Range(ckpt.outbox)

SameBook(c, b) ==
    /\ c.start = b.start /\ c.settled = b.settled /\ c.decided = b.decided
    /\ c.pending = b.pending /\ c.account = b.account /\ c.ledger = b.ledger
    /\ c.fit = b.fit /\ c.issued = b.issued
    /\ c.after = b.after \/ (b.after = NotReal /\ c.after = b.settled)

Steady ==
    /\ ckpt' \in Checkpoints /\ journal' \in Seq(Rows) /\ NumberInv'
    /\ SameBook(ckpt', ckpt)
    /\ Published' = Published
    /\ AllRows' = AllRows

LEMMA SteadyIf ==
    ASSUME ShapeInv, NumberInv, ckpt' \in Checkpoints, journal' \in Seq(Rows),
           SameBook(ckpt', ckpt),
           Numbering(journal', ckpt'.outbox, ckpt.issued),
           Extended(journal', ckpt'.outbox) = Extended(journal, ckpt.outbox),
           Range(journal') \cup Range(ckpt'.outbox) = Range(journal) \cup Range(ckpt.outbox)
    PROVE  Steady
<1>1. NumberInv' /\ Published' = Published
  BY AppendedIs, PublishedNext DEF SameBook
<1>2. AllRows' = AllRows
  BY DEF AllRows
<1> QED BY <1>1, <1>2 DEF Steady

LEMMA SteadyStep ==
    ASSUME ShapeInv, NumberInv, [Next]_vars, ~ Commit, ~(Settle /\ ckpt' # ckpt)
    PROVE  Steady
<1>1. /\ ckpt \in Checkpoints /\ journal \in Seq(Rows) /\ ckpt.outbox \in Seq(Rows)
      /\ ckpt.issued \in Nat /\ ckpt.settled \in 0 .. NotReal
      /\ Numbering(journal, ckpt.outbox, ckpt.issued)
  BY AppendedIs, PaperAssumption DEF ShapeInv, Checkpoints, NotReal
<1>2. CASE ckpt' = ckpt /\ journal' = journal
  BY <1>1, <1>2, SteadyIf DEF SameBook
<1>3. ASSUME NEW said, ckpt' = Adopted(ckpt, said), journal' = journal
      PROVE  Steady
  <2>1. CASE said.enabled /\ ckpt.after = NotReal
    <3>1. ckpt' = [ckpt EXCEPT !.after = ckpt.settled]
      BY <1>3, <2>1 DEF Adopted
    <3>2. ckpt' \in Checkpoints /\ SameBook(ckpt', ckpt) /\ ckpt'.outbox = ckpt.outbox
      BY <1>1, <2>1, <3>1 DEF Checkpoints, SameBook
    <3> QED BY <1>1, <1>3, <3>2, SteadyIf
  <2>2. CASE ~(said.enabled /\ ckpt.after = NotReal)
    BY <1>2, <1>3, <2>2 DEF Adopted
  <2> QED BY <2>1, <2>2
<1>4. CASE journal' = Appended(ckpt.outbox) /\ ckpt' = [ckpt EXCEPT !.outbox = << >>]
  <2>1. ckpt' \in Checkpoints /\ SameBook(ckpt', ckpt) /\ ckpt'.outbox = << >>
    <3>1. << >> \in Seq(Rows)
      OBVIOUS
    <3> QED BY <1>1, <1>4, <3>1 DEF Checkpoints, SameBook
  <2>2. journal' = Extended(journal, ckpt.outbox)
    BY <1>4, AppendedIs
  <2>3. /\ journal' \in Seq(Rows) /\ Numbering(journal', << >>, ckpt.issued)
        /\ Extended(journal', << >>) = journal'
        /\ Range(journal') \cup Range(<< >>) = Range(journal) \cup Range(ckpt.outbox)
    BY <1>1, <2>2, ExtendedAll
  <2> QED BY <2>1, <2>2, <2>3, SteadyIf
<1>5. ASSUME NEW k \in 0 .. Len(ckpt.outbox), journal' = Appended(SubSeq(ckpt.outbox, 1, k)),
             ckpt' = ckpt
      PROVE  Steady
  <2>1. journal' = Extended(journal, SubSeq(ckpt.outbox, 1, k))
    BY <1>5, AppendedIs
  <2>2. /\ journal' \in Seq(Rows) /\ Numbering(journal', ckpt.outbox, ckpt.issued)
        /\ Extended(journal', ckpt.outbox) = Extended(journal, ckpt.outbox)
        /\ Range(journal') \cup Range(ckpt.outbox) = Range(journal) \cup Range(ckpt.outbox)
    BY <1>1, <2>1, ExtendedSome
  <2>3. SameBook(ckpt', ckpt)
    BY <1>5 DEF SameBook
  <2> QED BY <1>1, <1>5, <2>2, <2>3, SteadyIf
<1>6. ASSUME NEW target \in Days, Begin(target) PROVE Steady
  BY <1>2, <1>3, <1>6 DEF Begin, Adopt
<1>7. CASE VerdictCommand
  BY <1>2, <1>7 DEF VerdictCommand
<1>8. CASE Resume
  BY <1>3, <1>8 DEF Resume, Adopt
<1>9. CASE Reconcile
  BY <1>4, <1>9 DEF Reconcile
<1>10. CASE Settle
  <2>1. ckpt' = ckpt /\ journal' = journal
    BY <1>10 DEF Settle
  <2> QED BY <1>2, <2>1
<1>11. CASE Gate
  BY <1>2, <1>11 DEF Gate
<1>12. CASE Refuse \/ PublishFit
  BY <1>2, <1>12 DEF Refuse, PublishFit
<1>13. CASE Finish
  BY <1>4, <1>13 DEF Finish
<1>14. CASE Crash
  <2>1. CASE run.pc \in {"restore", "settled", "decided"}
    BY <1>5, <1>14, <2>1 DEF Crash
  <2>2. CASE run.pc \notin {"restore", "settled", "decided"}
    BY <1>2, <1>14, <2>2 DEF Crash
  <2> QED BY <2>1, <2>2
<1>15. CASE Console
  BY <1>2, <1>15 DEF Console, Enable, RecordFill, RecordSession
<1>16. CASE Tick
  BY <1>2, <1>16 DEF Tick
<1>17. CASE UNCHANGED vars
  BY <1>2, <1>17 DEF vars
<1> QED
  BY <1>6, <1>7, <1>8, <1>9, <1>10, <1>11, <1>12, <1>13, <1>14, <1>15, <1>16, <1>17
  DEF Next, Steps

-----------------------------------------------------------------------------
(* What a checkpoint's rows are.                                            *)

\* A set put in order holds what the set holds.
LEMMA SetToSeqIs ==
    ASSUME NEW S, IsFiniteSet(S)
    PROVE  SetToSeq(S) \in Seq(S) /\ Range(SetToSeq(S)) = S
<1> DEFINE n == Cardinality(S)
<1> DEFINE D == 1 .. n
<1>1. n \in Nat /\ ExistsBijection(D, S)
  BY FS_CardinalityType
<1>2. IsFiniteSet(D) /\ Cardinality(D) = n
  <2>1. IsFiniteSet(1 .. n) /\ Cardinality(1 .. n) = IF 1 > n THEN 0 ELSE (n - 1) + 1
    BY <1>1, FS_Interval
  <2> HIDE DEF n
  <2> QED BY <1>1, <2>1
<1> HIDE DEF n, D
<1> DEFINE f == SetToSeq(S)
<1>3. \E g \in [D -> S] : IsInjective(g)
  BY <1>1 DEF ExistsBijection, Bijection, Injection
<1>4. f = CHOOSE g \in [D -> S] : IsInjective(g)
  BY DEF SetToSeq, D, n
<1> HIDE DEF f
<1>5. f \in [D -> S] /\ IsInjective(f)
  BY <1>3, <1>4
<1>6. f \in Injection(D, S)
  BY <1>5 DEF Injection
<1>7. f \in Surjection(D, S)
  BY <1>2, <1>6, FS_Injection DEF n
<1>8. Range(f) = S
  BY <1>5, <1>7 DEF Surjection, Range
<1>9. f \in Seq(S)
  BY <1>1, <1>5 DEF D
<1> QED BY <1>8, <1>9 DEF f

\* What a row comes to does not hang on its identity.
IdFree(v) == \A r \in Rows, i \in Nat : v[[r EXCEPT !.id = i]] = v[r]

LEMMA NumberedSum ==
    ASSUME NEW v \in [Rows -> Int], IdFree(v),
           NEW rows \in Seq(Rows), NEW n \in Nat, NEW q, q = Numbered(rows, n)
    PROVE  SumOf(v, q) = SumOf(v, rows)
<1>1. q = [i \in DOMAIN rows |-> [rows[i] EXCEPT !.id = n + i]]
  BY DEF Numbered
<1>2. DOMAIN q = DOMAIN rows
  BY <1>1
<1>3. \A i \in DOMAIN rows : v[q[i]] = v[rows[i]]
  <2> SUFFICES ASSUME NEW i \in DOMAIN rows PROVE v[q[i]] = v[rows[i]]
    OBVIOUS
  <2>1. rows[i] \in Rows /\ n + i \in Nat
    OBVIOUS
  <2>2. q[i] = [rows[i] EXCEPT !.id = n + i]
    BY <1>1
  <2> QED BY <2>1, <2>2 DEF IdFree
<1>4. [i \in DOMAIN q |-> v[q[i]]] = [i \in DOMAIN rows |-> v[rows[i]]]
  BY <1>2, <1>3
<1> QED BY <1>4 DEF SumOf

LEMMA Measures ==
    /\ IdFree(SharesIn) /\ IdFree(CashIn)
    /\ \A d : IdFree(Marks(d))
    /\ \A d, s : IdFree(TradedIn(d, s))
<1> SUFFICES ASSUME NEW r \in Rows, NEW i \in Nat, NEW x, x = [r EXCEPT !.id = i]
             PROVE  /\ x \in Rows
                    /\ SharesIn[x] = SharesIn[r] /\ CashIn[x] = CashIn[r]
                    /\ \A d : Marks(d)[x] = Marks(d)[r]
                    /\ \A d, s : TradedIn(d, s)[x] = TradedIn(d, s)[r]
  BY DEF IdFree
<1>1. /\ x \in Rows /\ x.kind = r.kind /\ x.day = r.day /\ x.side = r.side
      /\ x.shares = r.shares /\ x.cash = r.cash /\ x.corrects = r.corrects
  BY DEF Rows
<1> QED BY <1>1 DEF SharesIn, CashIn, Marks, TradedIn, OfOrder

\* A measure none of whose rows counts comes to nothing.
LEMMA SumOfNone ==
    ASSUME NEW v \in [Rows -> Int], NEW w \in Seq(Rows), \A i \in DOMAIN w : v[w[i]] = 0
    PROVE  SumOf(v, w) = 0
<1> DEFINE f == [i \in DOMAIN w |-> v[w[i]]]
<1>1. f \in Seq(Int)
  BY MeasureType
<1>2. \A i \in DOMAIN f : f[i] = 0
  OBVIOUS
<1> HIDE DEF f
<1>3. Total(f) = 0
  BY <1>1, <1>2, TotalZero
<1> QED BY <1>3 DEF SumOf, f

LEMMA LockMeasures == \A d : IdFree(OnHandIn(d))
<1> SUFFICES ASSUME NEW r \in Rows, NEW i \in Nat, NEW x, x = [r EXCEPT !.id = i], NEW d
             PROVE  OnHandIn(d)[x] = OnHandIn(d)[r]
  BY DEF IdFree
<1>1. /\ x \in Rows /\ x.kind = r.kind /\ x.day = r.day /\ x.side = r.side
      /\ x.shares = r.shares
  BY DEF Rows
<1> QED BY <1>1 DEF OnHandIn, OnHand, Freed

\* Measures that agree on the rows come to the same.
LEMMA SumsAgree ==
    ASSUME NEW w, NEW u, NEW v, \A i \in DOMAIN w : u[w[i]] = v[w[i]]
    PROVE  SumOf(u, w) = SumOf(v, w)
<1>1. [i \in DOMAIN w |-> u[w[i]]] = [i \in DOMAIN w |-> v[w[i]]]
  OBVIOUS
<1> QED BY <1>1 DEF SumOf

\* A checkpoint that queues rows behind its outbox.
Grown(q) ==
    /\ ckpt' \in Checkpoints /\ journal' \in Seq(Rows) /\ NumberInv'
    /\ q \in Seq(Rows) /\ Published' = Published \o q
    /\ AllRows' = AllRows \cup Range(q)

LEMMA QueueIs ==
    ASSUME ShapeInv, NumberInv, NEW state \in Checkpoints,
           state.outbox = ckpt.outbox, state.issued = ckpt.issued,
           NEW new \in Seq(Rows), ckpt' = Queue(state, new), journal' = journal,
           NEW q, q = Numbered(new, ckpt.issued)
    PROVE  /\ Grown(q)
           /\ ckpt'.start = state.start /\ ckpt'.settled = state.settled
           /\ ckpt'.decided = state.decided /\ ckpt'.pending = state.pending
           /\ ckpt'.account = state.account /\ ckpt'.ledger = state.ledger
           /\ ckpt'.fit = state.fit /\ ckpt'.after = state.after
<1>1. /\ journal \in Seq(Rows) /\ ckpt.outbox \in Seq(Rows) /\ ckpt.issued \in Nat
      /\ Numbering(journal, ckpt.outbox, ckpt.issued)
      /\ Len(new) \in Nat /\ ckpt.issued + Len(new) \in Nat
  BY AppendedIs DEF ShapeInv, Checkpoints
<1> DEFINE o == ckpt.outbox \o q
<1> DEFINE m == ckpt.issued + Len(new)
<1>2. /\ q \in Seq(Rows) /\ o \in Seq(Rows) /\ Numbering(journal, o, m)
      /\ Extended(journal, o) = Extended(journal, ckpt.outbox) \o q
      /\ Range(o) = Range(ckpt.outbox) \cup Range(q)
  <2> DEFINE out == ckpt.outbox
  <2> DEFINE num == ckpt.issued
  <2>1. /\ out \in Seq(Rows) /\ num \in Nat /\ Numbering(journal, out, num)
        /\ q = Numbered(new, num) /\ journal \in Seq(Rows) /\ Joined(o, out, q)
    BY <1>1 DEF Joined
  <2> HIDE DEF out, num, o
  <2>2. /\ q \in Seq(Rows) /\ o \in Seq(Rows)
        /\ Numbering(journal, o, num + Len(new))
        /\ Joined(Extended(journal, o), Extended(journal, out), q)
        /\ Range(o) = Range(out) \cup Range(q)
    BY <2>1, ExtendedMore
  <2>3. Joined(Extended(journal, o), Extended(journal, ckpt.outbox), q)
    BY <2>2 DEF out
  <2>4. m = num + Len(new) /\ Range(o) = Range(ckpt.outbox) \cup Range(q)
    BY <2>2 DEF out, num
  <2> HIDE DEF m
  <2> QED BY <2>2, <2>3, <2>4, Zenon DEF Joined
<1>3. ckpt' = [state EXCEPT !.outbox = o, !.issued = m]
  BY DEF Queue
<1>4. m \in Nat
  BY <1>1
<1> HIDE DEF o, m
<1>5. /\ ckpt' \in Checkpoints /\ ckpt'.outbox = o /\ ckpt'.issued = m
      /\ ckpt'.start = state.start /\ ckpt'.settled = state.settled
      /\ ckpt'.decided = state.decided /\ ckpt'.pending = state.pending
      /\ ckpt'.account = state.account /\ ckpt'.ledger = state.ledger
      /\ ckpt'.fit = state.fit /\ ckpt'.after = state.after
  <2>1. o \in Seq(Rows)
    BY <1>2, Zenon
  <2> QED BY <1>3, <1>4, <2>1 DEF Checkpoints
<1>6. NumberInv' /\ Published' = Published \o q
  BY <1>2, <1>5, AppendedIs, PublishedNext
<1>7. AllRows' = AllRows \cup Range(q)
  BY <1>2, <1>5 DEF AllRows
<1> QED BY <1>1, <1>2, <1>5, <1>6, <1>7 DEF Grown

EquityRow(d) == Row("equity", d, "none", 0, 0)

LEMMA EquityRowIs ==
    ASSUME NEW d \in Days
    PROVE  /\ EquityRow(d) \in Rows /\ EquityRow(d).kind = "equity" /\ EquityRow(d).day = d
           /\ EquityRow(d).shares = 0 /\ EquityRow(d).cash = 0
<1>1. "equity" \in Kinds /\ "none" \in Sides \cup {"none"} /\ 0 \in 0 .. N
  BY PaperAssumption DEF Kinds
<1>2. EquityRow(d) = RowOf("equity", d, "none", 0, 0, 0)
  BY DEF EquityRow, Row, RowOf
<1> QED BY <1>1, <1>2 DEF RowOf, Rows

\* A settlement: its day, and the account, ledger and rows it comes to.
SettledAs(d, a, l, w, q) ==
    /\ d = Next2Settle(ckpt) /\ d \in Days /\ ckpt.settled < d /\ d < run.target
    /\ ckpt.start # 0
    /\ Explained(a, l, w, ckpt, run.said, d)
    /\ q = Numbered(Append(w, EquityRow(d)), ckpt.issued)
    /\ Grown(q)
    /\ ckpt'.start = ckpt.start /\ ckpt'.settled = d /\ ckpt'.decided = ckpt.decided
    /\ ckpt'.account = a /\ ckpt'.ledger = l /\ ckpt'.fit = ckpt.fit
    /\ ckpt'.after = ckpt.after

LEMMA SettleIs ==
    ASSUME ShapeInv, NumberInv, CalendarInv, PlanInv, LedgerInv, Settle, ckpt' # ckpt
    PROVE  \E d, a, l, w, q : SettledAs(d, a, l, w, q)
<1> DEFINE d == Next2Settle(ckpt)
<1>1. /\ ckpt \in Checkpoints /\ Sound(ckpt.account) /\ run.pc = "settle"
      /\ run.target \in Days /\ run.said \in Saids /\ ckpt.start # 0 /\ d < run.target
  BY DEF ShapeInv, PlanInv, Settle, Working
<1>2. d \in Days /\ ckpt.settled < d
  BY <1>1, PaperAssumption DEF Next2Settle, CalendarInv, Checkpoints, Days
<1> HIDE DEF d
<1>3. PICK open \in SUBSET OrderedOn(ckpt, d) :
        LET m == Settlement(ckpt, run.said, run.acted, d, open) IN
        /\ ~ Raised(m.account)
        /\ ckpt' = SettledState(m, d)
        /\ journal' = journal
  BY DEF Settle, d
<1> DEFINE m == Settlement(ckpt, run.said, run.acted, d, open)
<1>4. \A s \in Sides : ckpt.ledger[d][s].real.q = 0
  BY <1>2 DEF LedgerInv, NoEntry, Nothing
<1>5. Making(m, ckpt, run.said, d)
  BY <1>1, <1>2, <1>4, SettlementMaking
<1>6. ~ Raised(m.account) /\ ckpt' = SettledState(m, d) /\ journal' = journal
  BY <1>3
<1> HIDE DEF m
<1>7. PICK a, l, w : /\ m = [account |-> a, ledger |-> l, rows |-> w]
                     /\ a = Failed \/ Explained(a, l, w, ckpt, run.said, d)
  BY <1>5 DEF Making
<1>8. m.account = a /\ m.ledger = l /\ m.rows = w
  BY <1>7
<1>9. Explained(a, l, w, ckpt, run.said, d)
  BY <1>6, <1>7, <1>8, RaisedIs
<1>10. a \in Accounts /\ l \in Ledgers /\ w \in Seq(Rows)
  BY <1>9 DEF Explained, Sound
<1> DEFINE new == Append(w, EquityRow(d))
<1> DEFINE state == [ckpt EXCEPT !.account = a, !.ledger = l,
                                 !.pending = OpenOrders(ckpt, d), !.settled = d]
<1> DEFINE q == Numbered(new, ckpt.issued)
<1>11. new \in Seq(Rows)
  BY <1>2, <1>10, EquityRowIs
<1>12. ckpt' = Queue(state, new)
  BY <1>6, <1>8 DEF SettledState, EquityRow
<1>13. OpenOrders(ckpt, d) \in SUBSET (Days \X Sides) /\ d \in 0 .. N
  BY <1>1, <1>2 DEF OpenOrders, Checkpoints, Days
<1>14. /\ state \in Checkpoints /\ state.outbox = ckpt.outbox /\ state.issued = ckpt.issued
       /\ state.start = ckpt.start /\ state.settled = d /\ state.decided = ckpt.decided
       /\ state.account = a /\ state.ledger = l /\ state.fit = ckpt.fit
       /\ state.after = ckpt.after
  BY <1>1, <1>10, <1>13 DEF Checkpoints
<1> HIDE DEF state, new
<1>15. q = Numbered(new, ckpt.issued)
  OBVIOUS
<1> HIDE DEF q
<1>16. /\ Grown(q)
       /\ ckpt'.start = ckpt.start /\ ckpt'.settled = d /\ ckpt'.decided = ckpt.decided
       /\ ckpt'.account = a /\ ckpt'.ledger = l /\ ckpt'.fit = ckpt.fit
       /\ ckpt'.after = ckpt.after
  BY <1>6, <1>11, <1>12, <1>14, <1>15, QueueIs
<1>17. SettledAs(d, a, l, w, q)
  BY <1>1, <1>2, <1>9, <1>15, <1>16 DEF SettledAs, d, new
<1> QED BY <1>17

\* A decision: its sheet, and the order rows that publish it.
DecidedAs(d, orders, w, q) ==
    /\ d = run.target /\ d \in Days /\ orders \in Sheets
    /\ w \in Seq(Rows) /\ Range(w) = { Row("order", d, s, 0, 0) : s \in orders }
    /\ q = Numbered(w, ckpt.issued)
    /\ Grown(q)
    /\ ckpt'.start = (IF ckpt.start = 0 THEN d ELSE ckpt.start)
    /\ ckpt'.settled = ckpt.settled
    /\ ckpt'.decided = [ckpt.decided EXCEPT ![d] = IF today > d THEN "late" ELSE "on_day"]
    /\ ckpt'.account = ckpt.account /\ ckpt'.ledger = ckpt.ledger
    /\ ckpt'.fit = (IF FitDue(d) THEN d ELSE ckpt.fit)
    /\ ckpt'.after = ckpt.after

LEMMA OrderRowIs ==
    ASSUME NEW d \in Days, NEW s \in Sides
    PROVE  /\ Row("order", d, s, 0, 0) \in Rows
           /\ Row("order", d, s, 0, 0).kind = "order" /\ Row("order", d, s, 0, 0).day = d
           /\ Row("order", d, s, 0, 0).side = s
           /\ Row("order", d, s, 0, 0).shares = 0 /\ Row("order", d, s, 0, 0).cash = 0
<1>1. "order" \in Kinds /\ s \in Sides \cup {"none"} /\ 0 \in 0 .. N
  BY PaperAssumption DEF Kinds
<1>2. Row("order", d, s, 0, 0) = RowOf("order", d, s, 0, 0, 0)
  BY DEF Row, RowOf
<1> QED BY <1>1, <1>2 DEF RowOf, Rows

LEMMA CommitIs ==
    ASSUME ShapeInv, NumberInv, Commit
    PROVE  \E d, orders, w, q : DecidedAs(d, orders, w, q)
<1> DEFINE d == run.target
<1>1. /\ ckpt \in Checkpoints /\ d \in Days /\ d \in 0 .. N
  BY DEF ShapeInv, Commit, Working, Days
<1>2. PICK orders \in Sheets : ckpt' = DecidedState(orders) /\ journal' = journal
  BY DEF Commit
<1>3. orders \subseteq Sides /\ IsFiniteSet(orders)
  <2>1. orders \in SUBSET Sides /\ IsFiniteSet(Sides)
    <3>1. IsFiniteSet({"buy"}) /\ Sides = {"buy"} \cup {"sell"}
      BY FS_Singleton DEF Sides
    <3>2. IsFiniteSet({"buy"} \cup {"sell"})
      BY <3>1, FS_AddElement
    <3> QED BY <3>1, <3>2, PaperAssumption DEF Sides
  <2> QED BY <2>1, FS_Subset
<1> DEFINE R == { Row("order", d, s, 0, 0) : s \in orders }
<1> DEFINE w == SetToSeq(R)
<1>4. R \subseteq Rows /\ IsFiniteSet(R)
  <2>1. R \subseteq Rows
    BY <1>1, <1>3, OrderRowIs
  <2>2. IsFiniteSet(R)
    <3> DEFINE both == {Row("order", d, "buy", 0, 0)} \cup {Row("order", d, "sell", 0, 0)}
    <3>1. IsFiniteSet(both)
      <4>1. ASSUME NEW x, NEW y PROVE IsFiniteSet({x} \cup {y})
        BY FS_Singleton, FS_AddElement
      <4> QED BY <4>1
    <3>2. R \in SUBSET both
      BY <1>3 DEF Sides
    <3> QED BY <3>1, <3>2, FS_Subset
  <2> QED BY <2>1, <2>2
<1>5. w \in Seq(Rows) /\ Range(w) = R
  <2> HIDE DEF R
  <2>1. w \in Seq(R) /\ Range(w) = R
    BY <1>4, SetToSeqIs
  <2> HIDE DEF w
  <2> QED BY <1>4, <2>1
<1> DEFINE dec == [ckpt.decided EXCEPT ![d] = IF today > d THEN "late" ELSE "on_day"]
<1> DEFINE start == IF ckpt.start = 0 THEN d ELSE ckpt.start
<1> DEFINE fit == IF FitDue(d) THEN d ELSE ckpt.fit
<1> DEFINE pend == ckpt.pending \cup ({d} \X orders)
<1> DEFINE state == [ckpt EXCEPT !.decided = dec, !.start = start, !.pending = pend, !.fit = fit]
<1> DEFINE q == Numbered(w, ckpt.issued)
<1>6. ckpt' = Queue([ckpt EXCEPT !.decided[d] = IF today > d THEN "late" ELSE "on_day",
                       !.start = IF @ = 0 THEN d ELSE @,
                       !.pending = @ \cup ({d} \X orders),
                       !.fit = IF FitDue(d) THEN d ELSE @], w)
  BY <1>2 DEF DecidedState
<1>7. ckpt' = Queue(state, w)
  <2> HIDE DEF w
  <2> QED BY <1>6
<1>8. dec \in [Days -> {"no", "on_day", "late"}] /\ start \in 0 .. N /\ fit \in 0 .. N
  BY <1>1 DEF Checkpoints
<1>9. pend \in SUBSET (Days \X Sides)
  BY <1>1, <1>3 DEF Checkpoints
<1> HIDE DEF dec, start, fit, pend, w, R
<1>10. /\ state \in Checkpoints /\ state.outbox = ckpt.outbox /\ state.issued = ckpt.issued
       /\ state.start = start /\ state.settled = ckpt.settled /\ state.decided = dec
       /\ state.account = ckpt.account /\ state.ledger = ckpt.ledger /\ state.fit = fit
       /\ state.after = ckpt.after
  BY <1>1, <1>8, <1>9 DEF Checkpoints
<1> HIDE DEF state
<1>11. q = Numbered(w, ckpt.issued)
  OBVIOUS
<1> HIDE DEF q
<1>12. /\ Grown(q)
       /\ ckpt'.start = start /\ ckpt'.settled = ckpt.settled /\ ckpt'.decided = dec
       /\ ckpt'.account = ckpt.account /\ ckpt'.ledger = ckpt.ledger /\ ckpt'.fit = fit
       /\ ckpt'.after = ckpt.after
  BY <1>2, <1>5, <1>7, <1>10, <1>11, QueueIs
<1>13. DecidedAs(d, orders, w, q)
  BY <1>1, <1>5, <1>11, <1>12 DEF DecidedAs, R, dec, start, fit
<1> QED BY <1>13

-----------------------------------------------------------------------------
(* The rows and the account stay in step.                                   *)

LEMMA PublishedType ==
    ASSUME ShapeInv, NumberInv
    PROVE  Published \in Seq(Rows) /\ Range(Published) = AllRows
<1>1. /\ journal \in Seq(Rows) /\ ckpt.outbox \in Seq(Rows) /\ ckpt.issued \in Nat
      /\ Numbering(journal, ckpt.outbox, ckpt.issued)
      /\ Published = Extended(journal, ckpt.outbox)
  BY AppendedIs DEF ShapeInv, Checkpoints
<1>2. Published \in Seq(Rows)
  BY <1>1, ExtendedType
<1>3. Range(Published) = AllRows
  BY <1>1, ExtendedRange DEF AllRows
<1> QED BY <1>2, <1>3

LEMMA GrownSum ==
    ASSUME ShapeInv, NumberInv, NEW w \in Seq(Rows), NEW q, q = Numbered(w, ckpt.issued),
           Grown(q)
    PROVE  /\ SumOf(SharesIn, Published') = SumOf(SharesIn, Published) + SumOf(SharesIn, w)
           /\ SumOf(CashIn, Published') = SumOf(CashIn, Published) + SumOf(CashIn, w)
           /\ \A d : SumOf(Marks(d), Published')
                       = SumOf(Marks(d), Published) + SumOf(Marks(d), w)
           /\ \A d, s : SumOf(TradedIn(d, s), Published')
                          = SumOf(TradedIn(d, s), Published) + SumOf(TradedIn(d, s), w)
<1> DEFINE p == Published
<1> DEFINE n == ckpt.issued
<1> DEFINE u == Published'
<1>1. p \in Seq(Rows) /\ q \in Seq(Rows) /\ u = p \o q /\ n \in Nat /\ q = Numbered(w, n)
  BY PublishedType DEF Grown, ShapeInv, Checkpoints
<1> HIDE DEF p, n, u
<1>2. ASSUME NEW v \in [Rows -> Int], IdFree(v)
      PROVE  SumOf(v, u) = SumOf(v, p) + SumOf(v, w)
  <2>1. SumOf(v, p \o q) = SumOf(v, p) + SumOf(v, q)
    BY <1>1, SumOfConcat
  <2>2. SumOf(v, q) = SumOf(v, w)
    BY <1>1, <1>2, NumberedSum
  <2> QED BY <1>1, <2>1, <2>2
<1>3. SumOf(SharesIn, u) = SumOf(SharesIn, p) + SumOf(SharesIn, w)
  BY <1>2, MeasureTypes, Measures
<1>4. SumOf(CashIn, u) = SumOf(CashIn, p) + SumOf(CashIn, w)
  BY <1>2, MeasureTypes, Measures
<1>5. ASSUME NEW d PROVE SumOf(Marks(d), u) = SumOf(Marks(d), p) + SumOf(Marks(d), w)
  BY <1>2, MeasureTypes, Measures
<1>6. ASSUME NEW d, NEW s
      PROVE  SumOf(TradedIn(d, s), u) = SumOf(TradedIn(d, s), p) + SumOf(TradedIn(d, s), w)
  <2>1. TradedIn(d, s) \in [Rows -> Int] /\ IdFree(TradedIn(d, s))
    BY MeasureTypes, Measures
  <2> QED BY <1>2, <2>1
<1> QED BY <1>3, <1>4, <1>5, <1>6 DEF p, u

\* The rows a settlement queues, summed.
Closing(x, w, d) == x = Append(w, EquityRow(d))
OfSettlement(w) == \A i \in DOMAIN w : w[i].kind \in SettlementKinds

LEMMA SettledSum ==
    ASSUME NEW d \in Days, NEW w \in Seq(Rows), NEW x, Closing(x, w, d), OfSettlement(w)
    PROVE  /\ x \in Seq(Rows)
           /\ SumOf(SharesIn, x) = SumOf(SharesIn, w)
           /\ SumOf(CashIn, x) = SumOf(CashIn, w)
           /\ \A e : SumOf(Marks(e), x) = IF e = d THEN 1 ELSE 0
           /\ \A e, s : SumOf(TradedIn(e, s), x) = SumOf(TradedIn(e, s), w)
<1> DEFINE r == EquityRow(d)
<1>1. r \in Rows /\ r.kind = "equity" /\ r.day = d /\ r.shares = 0 /\ r.cash = 0
  BY EquityRowIs
<1> HIDE DEF r
<1>2. x = Append(w, r) /\ x \in Seq(Rows)
  BY <1>1 DEF r, Closing
<1>3. \A v \in [Rows -> Int] : SumOf(v, x) = SumOf(v, w) + v[r] /\ SumOf(v, w) \in Int
  <2> SUFFICES ASSUME NEW v \in [Rows -> Int]
               PROVE  SumOf(v, x) = SumOf(v, w) + v[r] /\ SumOf(v, w) \in Int
    OBVIOUS
  <2>1. SumOf(v, x) = SumOf(v, w) + v[r]
    BY <1>1, <1>2, SumOfAppend
  <2>2. SumOf(v, w) \in Int
    BY MeasureType
  <2> QED BY <2>1, <2>2
<1>4. /\ SharesIn[r] = 0 /\ CashIn[r] = 0
      /\ \A e : Marks(e)[r] = IF e = d THEN 1 ELSE 0
      /\ \A e, s : TradedIn(e, s)[r] = 0
  BY <1>1 DEF SharesIn, CashIn, Marks, TradedIn, OfOrder
<1>5. SumOf(SharesIn, x) = SumOf(SharesIn, w)
  <2>1. SumOf(SharesIn, x) = SumOf(SharesIn, w) + SharesIn[r] /\ SumOf(SharesIn, w) \in Int
    BY <1>3, MeasureTypes, Zenon
  <2>2. SharesIn[r] = 0
    BY <1>4
  <2> QED BY <2>1, <2>2
<1>6. SumOf(CashIn, x) = SumOf(CashIn, w)
  <2>1. SumOf(CashIn, x) = SumOf(CashIn, w) + CashIn[r] /\ SumOf(CashIn, w) \in Int
    BY <1>3, MeasureTypes, Zenon
  <2>2. CashIn[r] = 0
    BY <1>4
  <2> QED BY <2>1, <2>2
<1>7. ASSUME NEW e PROVE SumOf(Marks(e), x) = IF e = d THEN 1 ELSE 0
  <2>1. \A i \in DOMAIN w : w[i] \in Rows /\ w[i].kind # "equity"
    BY DEF OfSettlement, SettlementKinds
  <2>2. \A i \in DOMAIN w : Marks(e)[w[i]] = 0
    BY <2>1 DEF Marks
  <2>3. SumOf(Marks(e), w) = 0
    BY <2>2, MeasureTypes, SumOfNone
  <2>4. SumOf(Marks(e), x) = SumOf(Marks(e), w) + Marks(e)[r]
    BY <1>3, MeasureTypes
  <2> QED BY <1>4, <2>3, <2>4
<1>8. ASSUME NEW e, NEW s PROVE SumOf(TradedIn(e, s), x) = SumOf(TradedIn(e, s), w)
  <2>1. TradedIn(e, s) \in [Rows -> Int] /\ TradedIn(e, s)[r] = 0
    BY <1>4, MeasureTypes
  <2> QED BY <1>3, <2>1
<1> QED BY <1>2, <1>5, <1>6, <1>7, <1>8

\* The rows a decision queues move nothing.
LEMMA DecidedSum ==
    ASSUME NEW d \in Days, NEW w \in Seq(Rows), NEW orders \in SUBSET Sides,
           Range(w) = { Row("order", d, s, 0, 0) : s \in orders }
    PROVE  /\ SumOf(SharesIn, w) = 0 /\ SumOf(CashIn, w) = 0
           /\ \A e : SumOf(Marks(e), w) = 0
           /\ \A e, s : SumOf(TradedIn(e, s), w) = 0
<1>1. \A i \in DOMAIN w : w[i] \in Rows /\ w[i].kind = "order" /\ w[i].shares = 0 /\ w[i].cash = 0
  <2> SUFFICES ASSUME NEW i \in DOMAIN w
               PROVE  w[i] \in Rows /\ w[i].kind = "order" /\ w[i].shares = 0 /\ w[i].cash = 0
    OBVIOUS
  <2>1. w[i] \in Range(w)
    BY DEF Range
  <2>2. PICK s \in orders : w[i] = Row("order", d, s, 0, 0)
    BY <2>1
  <2> QED BY <2>2, OrderRowIs
<1>2. SumOf(SharesIn, w) = 0
  <2>1. \A i \in DOMAIN w : SharesIn[w[i]] = 0
    BY <1>1 DEF SharesIn
  <2> QED BY <2>1, MeasureTypes, SumOfNone
<1>3. SumOf(CashIn, w) = 0
  <2>1. \A i \in DOMAIN w : CashIn[w[i]] = 0
    BY <1>1 DEF CashIn
  <2> QED BY <2>1, MeasureTypes, SumOfNone
<1>4. ASSUME NEW e PROVE SumOf(Marks(e), w) = 0
  <2>1. \A i \in DOMAIN w : Marks(e)[w[i]] = 0
    BY <1>1 DEF Marks
  <2> QED BY <2>1, MeasureTypes, SumOfNone
<1>5. ASSUME NEW e, NEW s PROVE SumOf(TradedIn(e, s), w) = 0
  <2>1. \A i \in DOMAIN w : TradedIn(e, s)[w[i]] = 0
    BY <1>1 DEF TradedIn, OfOrder
  <2> QED BY <2>1, MeasureTypes, SumOfNone
<1> QED BY <1>2, <1>3, <1>4, <1>5

\* What a numbered row says is what it said.
LEMMA NumberedRows ==
    ASSUME NEW w \in Seq(Rows), NEW n \in Nat, NEW q, q = Numbered(w, n), NEW r \in Range(q)
    PROVE  \E x \in Range(w) :
              /\ x \in Rows
              /\ r.kind = x.kind /\ r.day = x.day /\ r.side = x.side /\ r.corrects = x.corrects
              /\ r.shares = x.shares
<1>1. q = [i \in DOMAIN w |-> [w[i] EXCEPT !.id = n + i]]
  BY DEF Numbered
<1>2. PICK i \in DOMAIN w : r = [w[i] EXCEPT !.id = n + i]
  BY <1>1 DEF Range
<1>3. w[i] \in Rows /\ w[i] \in Range(w)
  BY DEF Range
<1>4. /\ r.kind = w[i].kind /\ r.day = w[i].day /\ r.side = w[i].side
      /\ r.corrects = w[i].corrects /\ r.shares = w[i].shares
  BY <1>2, <1>3 DEF Rows
<1> QED BY <1>3, <1>4

-----------------------------------------------------------------------------
(* Every step keeps the invariant, part by part.                            *)

LEMMA StepCases ==
    ASSUME ShapeInv, NumberInv, CalendarInv, PlanInv, LedgerInv, [Next]_vars
    PROVE  \/ Steady
           \/ Settle /\ \E d, a, l, w, q : SettledAs(d, a, l, w, q)
           \/ Commit /\ \E d, orders, w, q : DecidedAs(d, orders, w, q)
<1>1. CASE Commit
  BY <1>1, CommitIs
<1>2. CASE Settle /\ ckpt' # ckpt
  BY <1>2, SettleIs
<1>3. CASE ~ Commit /\ ~(Settle /\ ckpt' # ckpt)
  BY <1>3, SteadyStep
<1> QED BY <1>1, <1>2, <1>3

LEMMA LedgerStep ==
    ASSUME ShapeInv, NumberInv, CalendarInv, PlanInv, LedgerInv, [Next]_vars
    PROVE  LedgerInv'
<1>1. CASE Steady
  BY <1>1 DEF Steady, SameBook, LedgerInv
<1>2. ASSUME NEW d, NEW a, NEW l, NEW w, NEW q, SettledAs(d, a, l, w, q) PROVE LedgerInv'
  <2>1. /\ ckpt'.ledger = l /\ ckpt'.settled = d /\ d \in Days /\ ckpt.settled < d
        /\ \A e \in Days : e > d => l[e] = ckpt.ledger[e]
    BY <1>2 DEF SettledAs, Explained
  <2>2. ckpt.settled \in 0 .. N
    BY DEF ShapeInv, Checkpoints
  <2>3. \A e \in Days : e > d => e > ckpt.settled
    BY <2>1, <2>2, PaperAssumption DEF Days
  <2> QED BY <2>1, <2>3 DEF LedgerInv
<1>3. ASSUME NEW d, NEW orders, NEW w, NEW q, DecidedAs(d, orders, w, q) PROVE LedgerInv'
  BY <1>3 DEF DecidedAs, LedgerInv
<1> QED BY <1>1, <1>2, <1>3, StepCases

LEMMA CalendarStep ==
    ASSUME ShapeInv, NumberInv, CalendarInv, PlanInv, LedgerInv, [Next]_vars
    PROVE  CalendarInv'
<1>1. /\ ckpt.start \in 0 .. N /\ ckpt.settled \in 0 .. N
      /\ ckpt.decided \in [Days -> {"no", "on_day", "late"}] /\ N \in Nat
      /\ DueDays \subseteq Days
  BY PaperAssumption DEF ShapeInv, Checkpoints, Days
<1>2. CASE Steady
  BY <1>2 DEF Steady, SameBook, CalendarInv
<1>3. ASSUME Settle, NEW d, NEW a, NEW l, NEW w, NEW q, SettledAs(d, a, l, w, q)
      PROVE  CalendarInv'
  <2>1. /\ d = Next2Settle(ckpt) /\ d \in Days /\ d < run.target /\ ckpt.start # 0
        /\ ckpt'.start = ckpt.start /\ ckpt'.settled = d /\ ckpt'.decided = ckpt.decided
    BY <1>3 DEF SettledAs
  <2>2. ckpt.start <= d
    BY <1>1, <2>1 DEF Next2Settle, CalendarInv
  <2>3. ckpt.decided[ckpt.start] # "no"
    BY <2>1 DEF CalendarInv
  <2>4. run.pc = "settle" /\ run.target \in Days
    BY <1>3 DEF Settle, ShapeInv, Working
  <2>5. \A e \in DueDays : ckpt.start <= e /\ e <= d => ckpt.decided[e] # "no"
    <3>1. \A e \in DueDays : e <= d => e < run.target
      <4>1. d \in Int /\ run.target \in Int /\ d < run.target /\ \A e \in DueDays : e \in Int
        BY <1>1, <2>1, <2>4 DEF Days
      <4> DEFINE t == run.target
      <4> HIDE DEF t
      <4>2. \A e \in DueDays : e <= d => e < t
        BY <4>1 DEF t
      <4> QED BY <4>2 DEF t
    <3> QED BY <2>1, <2>4, <3>1 DEF PlanInv, Planning
  <2> QED BY <1>1, <2>1, <2>2, <2>3, <2>5 DEF CalendarInv, Days
<1>4. ASSUME NEW d, NEW orders, NEW w, NEW q, DecidedAs(d, orders, w, q) PROVE CalendarInv'
  <2>1. /\ d \in Days /\ d # 0
        /\ ckpt'.start = (IF ckpt.start = 0 THEN d ELSE ckpt.start)
        /\ ckpt'.settled = ckpt.settled
        /\ ckpt'.decided = [ckpt.decided EXCEPT ![d] = IF today > d THEN "late" ELSE "on_day"]
    BY <1>4 DEF DecidedAs, Days
  <2>2. \A e \in Days : ckpt'.decided[e] # "no" <=> e = d \/ ckpt.decided[e] # "no"
    BY <1>1, <2>1
  <2>3. CASE ckpt.start = 0
    BY <1>1, <2>1, <2>2, <2>3 DEF CalendarInv, Days
  <2>4. CASE ckpt.start # 0
    BY <1>1, <2>1, <2>2, <2>4 DEF CalendarInv, Days
  <2> QED BY <2>3, <2>4
<1> QED BY <1>2, <1>3, <1>4, StepCases

LEMMA RowsStep ==
    ASSUME ShapeInv, NumberInv, CalendarInv, PlanInv, LedgerInv, RowsInv, [Next]_vars
    PROVE  RowsInv'
<1>1. /\ ckpt.settled \in 0 .. N /\ ckpt.issued \in Nat
      /\ ckpt.decided \in [Days -> {"no", "on_day", "late"}] /\ N \in Nat
  BY PaperAssumption DEF ShapeInv, Checkpoints
<1>2. AllRows \subseteq Rows /\ \A r \in AllRows : Reached(r)
  <2>1. AllRows \subseteq Rows
    BY PublishedType DEF Range
  <2> QED BY <2>1 DEF RowsInv, AllRows
<1>3. RowsInv' <=> \A r \in AllRows' : Reached(r)'
  BY DEF RowsInv, AllRows
<1>4. CASE Steady
  BY <1>2, <1>3, <1>4 DEF Steady, SameBook, Reached
<1>5. ASSUME NEW d, NEW a, NEW l, NEW w, NEW q, SettledAs(d, a, l, w, q) PROVE RowsInv'
  <2>1. /\ d \in Days /\ ckpt.settled < d /\ ckpt'.settled = d /\ ckpt'.decided = ckpt.decided
        /\ AllRows' = AllRows \cup Range(q)
        /\ w \in Seq(Rows) /\ \A i \in DOMAIN w : SessionRow(w[i], ckpt, d)
    BY <1>5 DEF SettledAs, Explained, Grown
  <2>2. ASSUME NEW r \in AllRows PROVE Reached(r)'
    <3>1. r \in Rows /\ Reached(r)
      BY <1>2
    <3>2. r.day \in 1 .. N /\ r.corrects \in 0 .. N
      BY <3>1 DEF Rows, Days
    <3> QED BY <1>1, <2>1, <3>1, <3>2 DEF Reached, Days
  <2>3. ASSUME NEW r \in Range(q) PROVE Reached(r)'
    <3> DEFINE x == Append(w, EquityRow(d))
    <3>1. x \in Seq(Rows) /\ q = Numbered(x, ckpt.issued)
      BY <1>5, <2>1, EquityRowIs DEF SettledAs
    <3>2. \A y \in Range(x) : y = EquityRow(d) \/ \E i \in DOMAIN w : y = w[i]
      BY <2>1, EquityRowIs DEF Range
    <3> HIDE DEF x
    <3>3. PICK y \in Range(x) : /\ y \in Rows /\ r.kind = y.kind /\ r.day = y.day
                                /\ r.corrects = y.corrects
      BY <1>1, <3>1, NumberedRows
    <3>4. CASE y = EquityRow(d)
      BY <2>1, <3>3, <3>4, EquityRowIs DEF Reached, Days
    <3>5. ASSUME NEW i \in DOMAIN w, y = w[i] PROVE Reached(r)'
      <4>1. /\ y.kind \in SettlementKinds /\ y.day = d
            /\ y.kind = "correction" => y.corrects <= ckpt.settled
        BY <2>1, <3>5 DEF SessionRow
      <4>2. y.corrects \in 0 .. N
        BY <3>3 DEF Rows
      <4> QED BY <1>1, <2>1, <3>3, <4>1, <4>2 DEF Reached, SettlementKinds, Days
    <3> QED BY <3>2, <3>3, <3>4, <3>5
  <2> QED BY <1>3, <2>1, <2>2, <2>3
<1>6. ASSUME NEW d, NEW orders, NEW w, NEW q, DecidedAs(d, orders, w, q) PROVE RowsInv'
  <2>1. /\ d \in Days /\ orders \in Sheets /\ ckpt'.settled = ckpt.settled
        /\ ckpt'.decided = [ckpt.decided EXCEPT ![d] = IF today > d THEN "late" ELSE "on_day"]
        /\ AllRows' = AllRows \cup Range(q)
        /\ w \in Seq(Rows) /\ Range(w) = { Row("order", d, s, 0, 0) : s \in orders }
        /\ q = Numbered(w, ckpt.issued)
    BY <1>6 DEF DecidedAs, Grown
  <2>2. \A e \in Days : ckpt'.decided[e] # "no" <=> e = d \/ ckpt.decided[e] # "no"
    BY <1>1, <2>1
  <2>3. ASSUME NEW r \in AllRows PROVE Reached(r)'
    <3>1. r \in Rows /\ Reached(r) /\ r.day \in Days
      BY <1>2 DEF Rows
    <3> QED BY <2>1, <2>2, <3>1 DEF Reached
  <2>4. ASSUME NEW r \in Range(q) PROVE Reached(r)'
    <3>1. PICK y \in Range(w) : r.kind = y.kind /\ r.day = y.day /\ r.shares = y.shares
      BY <1>1, <2>1, NumberedRows
    <3>2. PICK s \in orders : y = Row("order", d, s, 0, 0)
      BY <2>1, <3>1
    <3>3. s \in Sides
      BY <2>1, PaperAssumption DEF Sides
    <3>4. y.kind = "order" /\ y.day = d /\ y.shares = 0
      BY <2>1, <3>2, <3>3, OrderRowIs
    <3> QED BY <2>1, <2>2, <3>1, <3>4 DEF Reached
  <2> QED BY <1>3, <2>1, <2>3, <2>4
<1> QED BY <1>4, <1>5, <1>6, StepCases

LEMMA BalanceStep ==
    ASSUME ShapeInv, NumberInv, CalendarInv, PlanInv, LedgerInv, BalanceInv, [Next]_vars
    PROVE  BalanceInv'
<1>1. /\ ckpt.start \in 0 .. N /\ ckpt.settled \in 0 .. N /\ N \in Nat /\ Cash \in Int
      /\ ckpt.account.held \in Int /\ ckpt.account.cash \in Int
  BY PaperAssumption DEF ShapeInv, Checkpoints, Accounts
<1>2. /\ Published \in Seq(Rows)
      /\ SumOf(SharesIn, Published) \in Int /\ SumOf(CashIn, Published) \in Int
  BY PublishedType, MeasureTypes, MeasureType
<1>3. CASE Steady
  BY <1>3 DEF Steady, SameBook, BalanceInv
<1>4. ASSUME NEW d, NEW a, NEW l, NEW w, NEW q, SettledAs(d, a, l, w, q) PROVE BalanceInv'
  <2> DEFINE x == Append(w, EquityRow(d))
  <2>1. /\ d = Next2Settle(ckpt) /\ d \in Days /\ ckpt.settled < d /\ ckpt.start # 0
        /\ ckpt'.account = a /\ ckpt'.start = ckpt.start /\ ckpt'.settled = d
        /\ w \in Seq(Rows)
        /\ a.held = ckpt.account.held + SumOf(SharesIn, w)
        /\ a.cash = ckpt.account.cash + SumOf(CashIn, w)
        /\ Closing(x, w, d) /\ q = Numbered(x, ckpt.issued) /\ Grown(q)
    BY <1>4 DEF SettledAs, Explained, Closing
  <2>2. OfSettlement(w)
    BY <1>4 DEF SettledAs, Explained, SessionRow, OfSettlement
  <2> HIDE DEF x
  <2>3. /\ x \in Seq(Rows)
        /\ SumOf(SharesIn, x) = SumOf(SharesIn, w)
        /\ SumOf(CashIn, x) = SumOf(CashIn, w)
        /\ \A e : SumOf(Marks(e), x) = IF e = d THEN 1 ELSE 0
    BY <2>1, <2>2, SettledSum
  <2>4. /\ SumOf(SharesIn, Published') = SumOf(SharesIn, Published) + SumOf(SharesIn, x)
        /\ SumOf(CashIn, Published') = SumOf(CashIn, Published) + SumOf(CashIn, x)
        /\ \A e : SumOf(Marks(e), Published')
                    = SumOf(Marks(e), Published) + SumOf(Marks(e), x)
    BY <2>1, <2>3, GrownSum
  <2>5. SumOf(SharesIn, w) \in Int /\ SumOf(CashIn, w) \in Int
    BY <2>1, MeasureTypes, MeasureType
  <2>6. ckpt'.account.held = SumOf(SharesIn, Published')
    BY <1>1, <1>2, <2>1, <2>3, <2>4, <2>5 DEF BalanceInv
  <2>7. ckpt'.account.cash = Cash + SumOf(CashIn, Published')
    BY <1>1, <1>2, <2>1, <2>3, <2>4, <2>5 DEF BalanceInv
  <2>8. ASSUME NEW e \in Days
        PROVE  SumOf(Marks(e), Published')
                 = IF ckpt'.start # 0 /\ ckpt'.start <= e /\ e <= ckpt'.settled THEN 1 ELSE 0
    <3>1. SumOf(Marks(e), Published')
            = (IF ckpt.start # 0 /\ ckpt.start <= e /\ e <= ckpt.settled THEN 1 ELSE 0)
              + (IF e = d THEN 1 ELSE 0)
      BY <2>3, <2>4 DEF BalanceInv
    <3>2. /\ d = IF ckpt.settled = 0 THEN ckpt.start ELSE ckpt.settled + 1
          /\ ckpt.settled # 0 => ckpt.start <= ckpt.settled
          /\ e \in 1 .. N
      BY <2>1 DEF Next2Settle, CalendarInv, Days
    <3>3. ckpt.start # 0 /\ ckpt'.start = ckpt.start /\ ckpt'.settled = d /\ ckpt.settled < d
      BY <2>1
    <3>4. CASE e = d
      BY <1>1, <2>1, <3>1, <3>2, <3>3, <3>4
    <3>5. CASE e # d
      BY <1>1, <2>1, <3>1, <3>2, <3>3, <3>5
    <3> QED BY <3>4, <3>5
  <2> QED BY <2>6, <2>7, <2>8 DEF BalanceInv
<1>5. ASSUME NEW d, NEW orders, NEW w, NEW q, DecidedAs(d, orders, w, q) PROVE BalanceInv'
  <2>1. /\ d \in Days /\ orders \in SUBSET Sides
        /\ ckpt'.start = (IF ckpt.start = 0 THEN d ELSE ckpt.start)
        /\ ckpt'.settled = ckpt.settled /\ ckpt'.account = ckpt.account
        /\ w \in Seq(Rows) /\ Range(w) = { Row("order", d, s, 0, 0) : s \in orders }
        /\ q = Numbered(w, ckpt.issued) /\ Grown(q)
    BY <1>5, PaperAssumption DEF DecidedAs, Sides
  <2>2. /\ SumOf(SharesIn, w) = 0 /\ SumOf(CashIn, w) = 0
        /\ \A e : SumOf(Marks(e), w) = 0
    BY <2>1, DecidedSum
  <2>3. /\ SumOf(SharesIn, Published') = SumOf(SharesIn, Published) + SumOf(SharesIn, w)
        /\ SumOf(CashIn, Published') = SumOf(CashIn, Published) + SumOf(CashIn, w)
        /\ \A e : SumOf(Marks(e), Published')
                    = SumOf(Marks(e), Published) + SumOf(Marks(e), w)
    BY <2>1, GrownSum
  <2>4. /\ SumOf(SharesIn, Published') = SumOf(SharesIn, Published)
        /\ SumOf(CashIn, Published') = SumOf(CashIn, Published)
    BY <1>2, <2>2, <2>3
  <2>5. ASSUME NEW e \in Days
        PROVE  SumOf(Marks(e), Published')
                 = IF ckpt'.start # 0 /\ ckpt'.start <= e /\ e <= ckpt'.settled THEN 1 ELSE 0
    <3>1. SumOf(Marks(e), Published')
            = (IF ckpt.start # 0 /\ ckpt.start <= e /\ e <= ckpt.settled THEN 1 ELSE 0) + 0
      BY <2>2, <2>3 DEF BalanceInv
    <3>2. ckpt.start = 0 => ckpt.settled = 0
      BY DEF CalendarInv
    <3>3. e \in 1 .. N
      BY DEF Days
    <3> QED BY <1>1, <2>1, <3>1, <3>2, <3>3
  <2> QED BY <2>1, <2>4, <2>5 DEF BalanceInv
<1> QED BY <1>3, <1>4, <1>5, StepCases

LEMMA LockStep ==
    ASSUME ShapeInv, NumberInv, CalendarInv, PlanInv, LedgerInv, RowsInv, BalanceInv, LockInv,
           [Next]_vars
    PROVE  LockInv'
<1>1. ckpt.settled \in 0 .. N /\ ckpt.account.held \in Nat /\ N \in Nat
  BY PaperAssumption DEF ShapeInv, Checkpoints, Accounts
<1>2. CASE Steady
  BY <1>2 DEF Steady, LockInv
<1>3. ASSUME NEW d, NEW a, NEW l, NEW w, NEW q, SettledAs(d, a, l, w, q), NEW e \in Days
      PROVE  0 <= SumOf(OnHandIn(e), Published')
  <2> DEFINE x == Append(w, EquityRow(d))
  <2> DEFINE v == OnHandIn(e)
  <2>1. /\ d \in Days /\ ckpt.settled < d /\ w \in Seq(Rows) /\ Sound(a)
        /\ a.held = ckpt.account.held + SumOf(SharesIn, w)
        /\ a.avail <= ckpt.account.held + SumOf(FreedIn, w)
        /\ \A i \in DOMAIN w : w[i] \in Rows /\ w[i].day = d
        /\ q = Numbered(x, ckpt.issued) /\ Grown(q)
    BY <1>3 DEF SettledAs, Explained, SessionRow
  <2>2. d \in Int /\ e \in Int /\ ckpt.settled \in Int /\ a.held \in Nat /\ a.avail \in Nat
    BY <1>1, <2>1 DEF Days, Sound, Accounts
  <2>3. v \in [Rows -> Int] /\ SharesIn \in [Rows -> Int] /\ IdFree(v)
    BY LockTypes, LockMeasures, MeasureTypes
  <2>4. SumOf(v, Published') = SumOf(v, Published) + SumOf(v, w)
    <3> DEFINE p == Published
    <3> DEFINE u == Published'
    <3> DEFINE n == ckpt.issued
    <3>1. /\ p \in Seq(Rows) /\ q \in Seq(Rows) /\ u = p \o q /\ n \in Nat
          /\ q = Numbered(x, n)
      BY <2>1, PublishedType DEF Grown, ShapeInv, Checkpoints
    <3> HIDE DEF p, u, n
    <3>2. EquityRow(d) \in Rows /\ x \in Seq(Rows)
      BY <2>1, EquityRowIs
    <3>3. SumOf(v, x) = SumOf(v, w) + v[EquityRow(d)]
      <4> HIDE DEF v
      <4> QED BY <2>1, <2>3, <3>2, SumOfAppend
    <3>4. v[EquityRow(d)] = 0
      BY <2>1, <3>2, EquityRowIs DEF OnHandIn
    <3> HIDE DEF x, v
    <3>5. SumOf(v, q) = SumOf(v, x)
      BY <2>3, <3>1, <3>2, NumberedSum
    <3>6. SumOf(v, u) = SumOf(v, p) + SumOf(v, q)
      BY <2>3, <3>1, SumOfConcat
    <3>7. SumOf(v, w) \in Int
      BY <2>1, <2>3, MeasureType
    <3> QED BY <3>3, <3>4, <3>5, <3>6, <3>7 DEF p, u
  <2>5. SumOf(v, Published) \in Int /\ SumOf(v, w) \in Int /\ SumOf(SharesIn, w) \in Int
    BY <2>1, <2>3, PublishedType, MeasureType
  <2>6. e >= d => SumOf(v, Published) = ckpt.account.held
    <3> SUFFICES ASSUME e >= d PROVE SumOf(v, Published) = ckpt.account.held
      OBVIOUS
    <3> DEFINE p == Published
    <3>1. \A i \in DOMAIN p : p[i] \in Rows /\ Reached(p[i])
      <4>1. p \in Seq(Rows) /\ Range(p) = AllRows
        BY PublishedType
      <4> HIDE DEF p
      <4>2. \A i \in DOMAIN p : p[i] \in Rows /\ p[i] \in AllRows
        BY <4>1 DEF Range
      <4> QED BY <4>2 DEF RowsInv, AllRows
    <3> HIDE DEF p
    <3>2. \A i \in DOMAIN p : v[p[i]] = SharesIn[p[i]]
      <4> SUFFICES ASSUME NEW i \in DOMAIN p PROVE v[p[i]] = SharesIn[p[i]]
        OBVIOUS
      <4>1. p[i] \in Rows /\ Reached(p[i]) /\ p[i].day \in Int
        BY <3>1 DEF Rows, Days
      <4>2. p[i].shares = 0 \/ p[i].day < e
        BY <2>1, <2>2, <4>1 DEF Reached
      <4> QED BY <4>1, <4>2 DEF OnHandIn, OnHand, SharesIn
    <3>3. SumOf(v, p) = SumOf(SharesIn, p)
      BY <3>2, SumsAgree
    <3> QED BY <3>3 DEF BalanceInv, p
  <2>7. CASE e < d
    <3>1. \A i \in DOMAIN w : v[w[i]] = 0
      BY <2>1, <2>2, <2>7 DEF OnHandIn, OnHand
    <3>2. SumOf(v, w) = 0
      BY <2>1, <2>3, <3>1, SumOfNone
    <3>3. 0 <= SumOf(v, Published)
      BY DEF LockInv
    <3> QED BY <2>4, <2>5, <3>2, <3>3
  <2>8. CASE e = d
    <3>1. \A i \in DOMAIN w : v[w[i]] = FreedIn[w[i]]
      BY <2>1, <2>2, <2>8 DEF OnHandIn, OnHand, FreedIn
    <3>2. SumOf(v, w) = SumOf(FreedIn, w)
      BY <3>1, SumsAgree
    <3> QED BY <1>1, <2>1, <2>2, <2>4, <2>5, <2>6, <2>8, <3>2
  <2>9. CASE e > d
    <3>1. \A i \in DOMAIN w : v[w[i]] = SharesIn[w[i]]
      BY <2>1, <2>2, <2>9 DEF OnHandIn, OnHand, SharesIn
    <3>2. SumOf(v, w) = SumOf(SharesIn, w)
      BY <3>1, SumsAgree
    <3> QED BY <1>1, <2>1, <2>2, <2>4, <2>5, <2>6, <2>9, <3>2
  <2> HIDE DEF v
  <2> QED BY <2>2, <2>7, <2>8, <2>9 DEF v
<1>4. ASSUME NEW d, NEW orders, NEW w, NEW q, DecidedAs(d, orders, w, q), NEW e \in Days
      PROVE  0 <= SumOf(OnHandIn(e), Published')
  <2> DEFINE v == OnHandIn(e)
  <2>1. /\ d \in Days /\ orders \in SUBSET Sides /\ w \in Seq(Rows)
        /\ Range(w) = { Row("order", d, s, 0, 0) : s \in orders }
        /\ q = Numbered(w, ckpt.issued) /\ Grown(q)
    BY <1>4, PaperAssumption DEF DecidedAs, Sides
  <2>2. v \in [Rows -> Int] /\ IdFree(v)
    BY LockTypes, LockMeasures
  <2>3. \A i \in DOMAIN w : v[w[i]] = 0
    <3> SUFFICES ASSUME NEW i \in DOMAIN w PROVE v[w[i]] = 0
      OBVIOUS
    <3>1. w[i] \in Range(w)
      BY DEF Range
    <3>2. PICK s \in orders : w[i] = Row("order", d, s, 0, 0)
      BY <2>1, <3>1
    <3>3. w[i] \in Rows /\ w[i].shares = 0
      BY <2>1, <3>2, OrderRowIs
    <3> QED BY <3>3 DEF OnHandIn
  <2> HIDE DEF v
  <2>4. SumOf(v, w) = 0
    BY <2>1, <2>2, <2>3, SumOfNone
  <2> DEFINE p == Published
  <2> DEFINE u == Published'
  <2> DEFINE n == ckpt.issued
  <2>5. /\ p \in Seq(Rows) /\ q \in Seq(Rows) /\ u = p \o q /\ n \in Nat /\ q = Numbered(w, n)
    BY <2>1, PublishedType DEF Grown, ShapeInv, Checkpoints
  <2> HIDE DEF p, u, n
  <2>6. SumOf(v, u) = SumOf(v, p) + SumOf(v, q)
    BY <2>2, <2>5, SumOfConcat
  <2>9. SumOf(v, q) = SumOf(v, w)
    BY <2>1, <2>2, <2>5, NumberedSum
  <2>7. SumOf(v, p) \in Int
    BY <2>2, <2>5, MeasureType
  <2>8. 0 <= SumOf(v, p)
    BY DEF LockInv, v, p
  <2> QED BY <2>4, <2>6, <2>7, <2>8, <2>9 DEF v, u
<1> QED BY <1>2, <1>3, <1>4, StepCases DEF LockInv

LEMMA MatchStep ==
    ASSUME ShapeInv, NumberInv, CalendarInv, PlanInv, RowsInv, LedgerInv, MatchInv,
           [Next]_vars
    PROVE  MatchInv'
<1>1. /\ ckpt.settled \in 0 .. N /\ ckpt.after \in 0 .. NotReal /\ N \in Nat
      /\ ckpt.ledger \in Ledgers /\ NotReal = N + 1
  BY PaperAssumption DEF ShapeInv, Checkpoints, NotReal
<1>2. Published \in Seq(Rows) /\ Range(Published) = AllRows
  BY PublishedType
<1>3. ASSUME NEW d, NEW s
      PROVE  TradedIn(d, s) \in [Rows -> Int] /\ SumOf(TradedIn(d, s), Published) \in Int
  <2>1. TradedIn(d, s) \in [Rows -> Int]
    BY MeasureTypes
  <2> QED BY <1>2, <2>1, MeasureType
<1>4. CASE Steady
  <2>1. /\ ckpt'.ledger = ckpt.ledger /\ Published' = Published
        /\ ckpt'.after = ckpt.after \/ (ckpt.after = NotReal /\ ckpt'.after = ckpt.settled)
    BY <1>4 DEF Steady, SameBook
  <2>2. CASE ckpt'.after = ckpt.after
    BY <2>1, <2>2 DEF MatchInv
  <2>3. CASE ckpt'.after = ckpt.settled
    <3>1. ASSUME NEW d \in Days, NEW s \in Sides, d > ckpt.settled
          PROVE  Signed(s, ckpt.ledger[d][s].real.q) = SumOf(TradedIn(d, s), Published)
      <4>1. ckpt.ledger[d][s].real.q = 0
        BY <3>1 DEF LedgerInv, NoEntry, Nothing
      <4>2. Signed(s, ckpt.ledger[d][s].real.q) = 0
        BY <4>1, SignedZero
      <4>3. \A i \in DOMAIN Published : Published[i] \in Rows /\ Reached(Published[i])
        BY <1>2 DEF Range, RowsInv, AllRows
      <4>4. ASSUME NEW r \in Rows, Reached(r) PROVE TradedIn(d, s)[r] = 0
        <5>1. r.day \in 1 .. N /\ r.corrects \in 0 .. N /\ d \in 1 .. N
          BY DEF Rows, Days
        <5>2. ~ OfOrder(r, d, s)
          BY <1>1, <3>1, <4>4, <5>1 DEF OfOrder, Reached
        <5> QED BY <5>2 DEF TradedIn
      <4>5. \A i \in DOMAIN Published : TradedIn(d, s)[Published[i]] = 0
        BY <4>3, <4>4
      <4>6. SumOf(TradedIn(d, s), Published) = 0
        <5>1. TradedIn(d, s) \in [Rows -> Int]
          BY <1>3
        <5> QED BY <1>2, <4>5, <5>1, SumOfNone
      <4> QED BY <4>2, <4>6
    <3> QED BY <2>1, <2>3, <3>1 DEF MatchInv
  <2> QED BY <2>1, <2>2, <2>3
<1>5. ASSUME NEW d, NEW a, NEW l, NEW w, NEW q, SettledAs(d, a, l, w, q) PROVE MatchInv'
  <2> DEFINE x == Append(w, EquityRow(d))
  <2>1. /\ d \in Days /\ ckpt'.ledger = l /\ ckpt'.after = ckpt.after
        /\ w \in Seq(Rows) /\ l \in Ledgers
        /\ Closing(x, w, d) /\ q = Numbered(x, ckpt.issued) /\ Grown(q)
        /\ \A e \in Days, s \in Sides :
              e > ckpt.after =>
                 Signed(s, l[e][s].real.q)
                   = Signed(s, ckpt.ledger[e][s].real.q) + SumOf(TradedIn(e, s), w)
    BY <1>5 DEF SettledAs, Explained, Closing
  <2>2. OfSettlement(w)
    BY <1>5 DEF SettledAs, Explained, SessionRow, OfSettlement
  <2> HIDE DEF x
  <2>3. /\ x \in Seq(Rows)
        /\ \A e, s : SumOf(TradedIn(e, s), x) = SumOf(TradedIn(e, s), w)
    BY <2>1, <2>2, SettledSum
  <2>4. \A e, s : SumOf(TradedIn(e, s), Published')
                    = SumOf(TradedIn(e, s), Published) + SumOf(TradedIn(e, s), x)
    BY <2>1, <2>3, GrownSum
  <2>5. ASSUME NEW e \in Days, NEW s \in Sides, e > ckpt.after
        PROVE  Signed(s, l[e][s].real.q) = SumOf(TradedIn(e, s), Published')
    <3>1. Signed(s, ckpt.ledger[e][s].real.q) = SumOf(TradedIn(e, s), Published)
      BY <2>5 DEF MatchInv
    <3>2. SumOf(TradedIn(e, s), Published')
            = SumOf(TradedIn(e, s), Published) + SumOf(TradedIn(e, s), w)
      BY <2>3, <2>4
    <3> QED BY <2>1, <2>5, <3>1, <3>2
  <2> QED BY <2>1, <2>5 DEF MatchInv
<1>6. ASSUME NEW d, NEW orders, NEW w, NEW q, DecidedAs(d, orders, w, q) PROVE MatchInv'
  <2>1. /\ d \in Days /\ orders \in SUBSET Sides
        /\ ckpt'.ledger = ckpt.ledger /\ ckpt'.after = ckpt.after
        /\ w \in Seq(Rows) /\ Range(w) = { Row("order", d, s, 0, 0) : s \in orders }
        /\ q = Numbered(w, ckpt.issued) /\ Grown(q)
    BY <1>6, PaperAssumption DEF DecidedAs, Sides
  <2>2. \A e, s : SumOf(TradedIn(e, s), w) = 0
    BY <2>1, DecidedSum
  <2>3. \A e, s : SumOf(TradedIn(e, s), Published')
                    = SumOf(TradedIn(e, s), Published) + SumOf(TradedIn(e, s), w)
    BY <2>1, GrownSum
  <2>4. \A e, s : SumOf(TradedIn(e, s), Published') = SumOf(TradedIn(e, s), Published)
    <3> SUFFICES ASSUME NEW e, NEW s
                 PROVE  SumOf(TradedIn(e, s), Published') = SumOf(TradedIn(e, s), Published)
      OBVIOUS
    <3>1. SumOf(TradedIn(e, s), w) = 0 /\ SumOf(TradedIn(e, s), Published) \in Int
      BY <1>3, <2>2
    <3> QED BY <2>3, <3>1
  <2> QED BY <2>1, <2>4 DEF MatchInv
<1> QED BY <1>4, <1>5, <1>6, StepCases

\* What the owner said is never taken back.
LEMMA FillsGrow ==
    ASSUME ShapeInv, [Next]_vars
    PROVE  /\ fills' \in Saids
           /\ \A d \in Days, s \in Sides :
                 /\ fills.key[d][s] # Silent => fills'.key[d][s] # Silent
                 /\ fills.session[d] # Silent => fills'.session[d] # Silent
<1>1. fills \in Saids
  BY DEF ShapeInv
<1>2. CASE fills' = fills
  BY <1>1, <1>2
<1>3. CASE Enable
  BY <1>1, <1>3 DEF Enable, Saids
<1>4. \A f \in Fills : f # Silent
  BY DEF Fills, Filled, Simulated, NotTraded, Silent
<1>5. ASSUME NEW d \in Days, NEW s \in Sides, NEW f \in Fills, RecordFill(d, s, f)
      PROVE  /\ fills' \in Saids
             /\ \A e \in Days, t \in Sides :
                   /\ fills.key[e][t] # Silent => fills'.key[e][t] # Silent
                   /\ fills.session[e] # Silent => fills'.session[e] # Silent
  <2> DEFINE row == [fills.key[d] EXCEPT ![s] = f]
  <2> DEFINE new == [fills.key EXCEPT ![d] = row]
  <2>1. fills' = [fills EXCEPT !.key = new]
    BY <1>1, <1>5 DEF RecordFill, Saids
  <2>2. /\ fills.key \in [Days -> [Sides -> Fills \cup {Silent}]]
        /\ fills.session \in [Days -> Fills \cup {Silent}] /\ fills.enabled \in BOOLEAN
    BY <1>1 DEF Saids
  <2>3. row \in [Sides -> Fills \cup {Silent}]
    BY <2>2
  <2>4. \A t \in Sides : row[t] = IF t = s THEN f ELSE fills.key[d][t]
    BY <2>2
  <2> HIDE DEF row
  <2>5. new \in [Days -> [Sides -> Fills \cup {Silent}]]
    BY <2>2, <2>3
  <2>6. \A e \in Days : new[e] = IF e = d THEN row ELSE fills.key[e]
    BY <2>2
  <2> HIDE DEF new
  <2>7. fills' \in Saids /\ fills'.key = new /\ fills'.session = fills.session
    BY <1>1, <2>1, <2>5 DEF Saids
  <2>8. ASSUME NEW e \in Days, NEW t \in Sides, fills.key[e][t] # Silent
        PROVE  new[e][t] # Silent
    BY <1>4, <2>4, <2>6, <2>8
  <2> QED BY <2>7, <2>8
<1>6. ASSUME NEW d \in Days, NEW f \in Fills, RecordSession(d, f)
      PROVE  /\ fills' \in Saids
             /\ \A e \in Days, t \in Sides :
                   /\ fills.key[e][t] # Silent => fills'.key[e][t] # Silent
                   /\ fills.session[e] # Silent => fills'.session[e] # Silent
  <2> DEFINE new == [fills.session EXCEPT ![d] = f]
  <2>1. fills' = [fills EXCEPT !.session = new]
    BY <1>1, <1>6 DEF RecordSession, Saids
  <2>2. fills.session \in [Days -> Fills \cup {Silent}]
    BY <1>1 DEF Saids
  <2>3. /\ new \in [Days -> Fills \cup {Silent}]
        /\ \A e \in Days : new[e] = IF e = d THEN f ELSE fills.session[e]
    BY <2>2
  <2> HIDE DEF new
  <2>4. fills' \in Saids /\ fills'.key = fills.key /\ fills'.session = new
    BY <1>1, <2>1, <2>3 DEF Saids
  <2> QED BY <1>4, <2>3, <2>4
<1>7. CASE Console
  BY <1>3, <1>5, <1>6, <1>7 DEF Console
<1>8. CASE Crash \/ Tick \/ VerdictCommand \/ UNCHANGED vars
  BY <1>2, <1>8 DEF Crash, Tick, VerdictCommand, vars
<1>9. CASE Steps
  BY <1>2, <1>9
  DEF Steps, Resume, Reconcile, Settle, Gate, Refuse, PublishFit, Commit, Finish
<1>10. CASE \E target \in Days : Begin(target)
  BY <1>2, <1>10 DEF Begin
<1> QED BY <1>7, <1>8, <1>9, <1>10 DEF Next

\* What a settlement leaves of its run.
LEMMA SettleRun ==
    ASSUME run \in Runs, Settle
    PROVE  \/ Stop /\ ckpt' = ckpt
           \/ \E acts : /\ acts \in {run.acted, run.acted \cup {Next2Settle(ckpt)}}
                        /\ run' = [pc |-> "settled", target |-> run.target,
                                   said |-> run.said, acted |-> acts]
<1> DEFINE d == Next2Settle(ckpt)
<1> DEFINE M(open) == Settlement(ckpt, run.said, run.acted, d, open)
<1> DEFINE A(open) == IF \E r \in Range(M(open).rows) : r.kind = "corporate_action"
                      THEN run.acted \cup {d} ELSE run.acted
<1>1. PICK open : \/ Stop /\ ckpt' = ckpt
                  \/ run' = [run EXCEPT !.pc = "settled", !.acted = A(open)]
  BY DEF Settle
<1>2. A(open) \in {run.acted, run.acted \cup {d}}
  OBVIOUS
<1> HIDE DEF A, d
<1>3. ASSUME run' = [run EXCEPT !.pc = "settled", !.acted = A(open)]
      PROVE  run' = [pc |-> "settled", target |-> run.target, said |-> run.said,
                     acted |-> A(open)]
  BY <1>3 DEF Runs
<1> QED BY <1>1, <1>2, <1>3 DEF d

\* A run keeps the records it read, or reads the ones there are.
LEMMA RunSaid ==
    ASSUME ShapeInv, [Next]_vars, Working'
    PROVE  run'.said = fills \/ (Working /\ run'.said = run.said)
<1>1. CASE Stop
  BY <1>1 DEF Stop, NoRun, Working
<1>2. ASSUME NEW said, NEW target, Adopt(said, target)
      PROVE  run'.said = said \/ Stop
  BY <1>2 DEF Adopt
<1>3. ASSUME NEW target \in Days, Begin(target) PROVE run'.said = fills \/ Stop
  BY <1>2, <1>3 DEF Begin
<1>4. CASE VerdictCommand
  BY <1>4 DEF VerdictCommand, NoRun, Working
<1>5. CASE Resume
  BY <1>1, <1>2, <1>5 DEF Resume, Working
<1>6. CASE Reconcile \/ Settle \/ Gate \/ Refuse \/ PublishFit \/ Commit \/ Finish
  <2>1. run.pc \in {"restore", "settled", "settle", "gate", "reread", "read", "decide",
                    "commit", "decided"}
    BY <1>6 DEF Reconcile, Settle, Gate, Refuse, PublishFit, Commit, Finish
  <2>2. ASSUME NEW pc, Goto(pc) PROVE run'.said = run.said /\ run'.target = run.target
    BY <2>2 DEF Goto
  <2>3. run'.said = run.said \/ Stop
    <3>1. CASE Settle
      BY <3>1, SettleRun DEF ShapeInv
    <3>2. CASE Reconcile \/ Gate \/ Refuse \/ PublishFit \/ Commit \/ Finish
      BY <2>2, <3>2 DEF Reconcile, Gate, Refuse, PublishFit, Commit, Finish
    <3> QED BY <1>6, <3>1, <3>2
  <2>4. run.pc = "read" => Stop
    BY <1>6
    DEF Reconcile, Settle, Gate, AfterGate, Refuse, PublishFit, Commit, Finish
  <2> QED BY <1>1, <2>1, <2>3, <2>4 DEF Working
<1>7. CASE Crash
  BY <1>1, <1>7 DEF Crash
<1>8. CASE Console \/ Tick \/ UNCHANGED vars
  BY <1>8 DEF Console, Enable, RecordFill, RecordSession, Tick, vars, Working
<1> QED BY <1>1, <1>3, <1>4, <1>5, <1>6, <1>7, <1>8 DEF Next, Steps

LEMMA EvidenceStep ==
    ASSUME ShapeInv, NumberInv, CalendarInv, PlanInv, LedgerInv, EvidenceInv, [Next]_vars
    PROVE  EvidenceInv'
<1>1. /\ ckpt.decided \in [Days -> {"no", "on_day", "late"}]
      /\ run.target \in 0 .. N /\ N \in Nat
  BY PaperAssumption DEF ShapeInv, Checkpoints, Runs
<1>2. ASSUME Working', NEW d \in Days, NEW s \in Sides
      PROVE  /\ run'.said.key[d][s] # Silent => fills'.key[d][s] # Silent
             /\ run'.said.session[d] # Silent => fills'.session[d] # Silent
  <2>1. CASE run'.said = fills
    BY <2>1, FillsGrow
  <2>2. CASE Working /\ run'.said = run.said
    BY <2>2, FillsGrow DEF EvidenceInv
  <2> QED BY <1>2, <2>1, <2>2, RunSaid
<1>3. ASSUME NEW d \in Days, NEW s \in Sides,
             \/ fills.key[d][s] # Silent \/ fills.session[d] # Silent
             \/ ckpt'.decided[d] = "late"
      PROVE  \/ fills'.key[d][s] # Silent \/ fills'.session[d] # Silent
             \/ ckpt'.decided[d] = "late"
  BY <1>3, FillsGrow
<1>4. ASSUME \A d \in Days, s \in Sides :
                ckpt'.ledger[d][s].ordered =>
                   \/ fills.key[d][s] # Silent \/ fills.session[d] # Silent
                   \/ ckpt'.decided[d] = "late"
      PROVE  EvidenceInv'
  BY <1>2, <1>3, <1>4 DEF EvidenceInv, PostHoc
<1>5. CASE Steady
  BY <1>4, <1>5 DEF Steady, SameBook, EvidenceInv, PostHoc
<1>6. ASSUME Settle, NEW d, NEW a, NEW l, NEW w, NEW q, SettledAs(d, a, l, w, q)
      PROVE  EvidenceInv'
  <2>1. /\ ckpt'.ledger = l /\ ckpt'.decided = ckpt.decided /\ d \in Days
        /\ \A e \in Days, s \in Sides :
              l[e][s].ordered =>
                 ckpt.ledger[e][s].ordered
                 \/ (e = d /\ Resolve(run.said, ckpt, d, s, TRUE) # Silent)
    BY <1>6 DEF SettledAs, Explained
  <2>2. Working
    BY <1>6 DEF Settle, Working
  <2>3. ASSUME NEW s \in Sides, Resolve(run.said, ckpt, d, s, TRUE) # Silent
        PROVE  \/ fills.key[d][s] # Silent \/ fills.session[d] # Silent
               \/ ckpt.decided[d] = "late"
    <3>1. \/ run.said.key[d][s] # Silent \/ run.said.session[d] # Silent
          \/ PostHoc(ckpt, d)
      BY <2>3 DEF Resolve
    <3> QED BY <2>1, <2>2, <3>1 DEF EvidenceInv, PostHoc
  <2>4. ASSUME NEW e \in Days, NEW s \in Sides, ckpt'.ledger[e][s].ordered
        PROVE  \/ fills.key[e][s] # Silent \/ fills.session[e] # Silent
               \/ ckpt'.decided[e] = "late"
    <3>1. CASE ckpt.ledger[e][s].ordered
      BY <2>1, <3>1, Zenon DEF EvidenceInv, PostHoc
    <3>2. CASE e = d /\ Resolve(run.said, ckpt, d, s, TRUE) # Silent
      BY <2>1, <2>3, <3>2
    <3> QED BY <2>1, <2>4, <3>1, <3>2, Zenon
  <2> QED BY <1>4, <2>4, Zenon
<1>7. ASSUME Commit, NEW d, NEW orders, NEW w, NEW q, DecidedAs(d, orders, w, q)
      PROVE  EvidenceInv'
  <2>1. /\ d = run.target /\ d \in Days /\ ckpt'.ledger = ckpt.ledger
        /\ ckpt'.decided = [ckpt.decided EXCEPT ![d] = IF today > d THEN "late" ELSE "on_day"]
    BY <1>7 DEF DecidedAs
  <2>2. ckpt.decided[d] = "no"
    <3>1. run.pc \in {"decide", "commit"}
      BY <1>7 DEF Commit
    <3>2. ckpt.decided[d] # "no" => d < run.target
      BY <2>1, <3>1 DEF PlanInv, Planning
    <3> QED BY <1>1, <2>1, <3>2
  <2>3. \A e \in Days : ckpt.decided[e] = "late" => ckpt'.decided[e] = "late"
    BY <1>1, <2>1, <2>2
  <2> QED BY <1>4, <2>1, <2>3 DEF EvidenceInv, PostHoc
<1> QED BY <1>5, <1>6, <1>7, StepCases

LEMMA FitStep ==
    ASSUME ShapeInv, NumberInv, CalendarInv, PlanInv, LedgerInv, FitInv, [Next]_vars
    PROVE  FitInv'
<1>1. CASE Commit
  <2>1. PICK d, orders, w, q : DecidedAs(d, orders, w, q)
    BY <1>1, CommitIs
  <2>2. ckpt'.fit = (IF FitDue(run.target) THEN run.target ELSE ckpt.fit)
    BY <2>1 DEF DecidedAs
  <2>3. fits' = fits /\ run'.pc = "decided"
    <3>1. run \in Runs
      BY DEF ShapeInv
    <3> QED BY <1>1, <3>1 DEF Commit, Goto, Runs
  <2>4. FitDue(run.target) => run.target \in fits
    BY <1>1 DEF Commit, FitInv
  <2> QED BY <2>2, <2>3, <2>4 DEF FitInv, FitStateKept
<1>2. ckpt'.fit = ckpt.fit \/ Commit
  <2>1. CASE Steady
    BY <2>1 DEF Steady, SameBook
  <2>2. ASSUME NEW d, NEW a, NEW l, NEW w, NEW q, SettledAs(d, a, l, w, q)
        PROVE  ckpt'.fit = ckpt.fit
    BY <2>2 DEF SettledAs
  <2> QED BY <2>1, <2>2, StepCases
<1>3. ASSUME ckpt'.fit = ckpt.fit, fits' = fits, run'.pc # "commit" PROVE FitInv'
  BY <1>3 DEF FitInv, FitStateKept
<1>4. CASE PublishFit
  <2>1. run \in Runs
    BY DEF ShapeInv
  <2>2. /\ FitDue(run.target) /\ fits' = fits \cup {run.target} /\ ckpt' = ckpt
        /\ run' = [run EXCEPT !.pc = "commit"]
    BY <1>4 DEF PublishFit, WithFit, Goto
  <2>3. run'.target = run.target
    BY <2>1, <2>2 DEF Runs
  <2>4. FitDue(run.target)'
    BY <2>2, <2>3 DEF FitDue
  <2> QED BY <2>2, <2>3, <2>4 DEF FitInv, FitStateKept
<1>5. CASE Finish
  <2>1. ckpt'.fit = ckpt.fit /\ run'.pc # "commit" /\ \E gone \in SUBSET Superseded : fits' = fits \ gone
    <3>1. ckpt'.fit = ckpt.fit
      BY <1>2, <1>5 DEF Finish, Commit
    <3> QED BY <1>5, <3>1 DEF Finish, Stop, NoRun
  <2> QED BY <2>1 DEF FitInv, FitStateKept, Superseded
<1>6. CASE fits' = fits /\ run' = run /\ ckpt' = ckpt
  BY <1>6 DEF FitInv, FitStateKept, FitDue
<1>7. Stop => run'.pc # "commit"
  BY DEF Stop, NoRun
<1>8. ASSUME NEW said, NEW target, Adopt(said, target) PROVE run'.pc # "commit"
  <2>1. Planned(Adopted(ckpt, said), said, target) # "commit"
    BY DEF Planned, Settling
  <2> QED BY <1>7, <1>8, <2>1 DEF Adopt
<1>9. ASSUME NEW target \in Days, Begin(target) PROVE fits' = fits /\ run'.pc # "commit"
  BY <1>8, <1>9 DEF Begin
<1>10. CASE Resume
  <2>1. fits' = fits /\ run'.pc # "commit"
    BY <1>8, <1>10 DEF Resume
  <2> QED BY <1>2, <1>3, <2>1, <1>1
<1>11. CASE VerdictCommand \/ Reconcile \/ Settle \/ Gate \/ Refuse \/ Crash
  <2>0. run \in Runs
    BY DEF ShapeInv
  <2>1. fits' = fits
    BY <1>11 DEF VerdictCommand, Reconcile, Settle, Gate, Refuse, Crash
  <2>2. ASSUME NEW pc, Goto(pc), pc # "commit" PROVE run'.pc # "commit"
    BY <2>0, <2>2 DEF Goto, Runs
  <2>3. CASE VerdictCommand
    BY <1>1, <1>2, <1>3, <2>1, <2>3 DEF VerdictCommand, NoRun
  <2>4. CASE Reconcile
    <3>1. Onward # "commit"
      BY DEF Onward, Settling
    <3> QED BY <1>1, <1>2, <1>3, <2>1, <2>2, <2>4, <3>1 DEF Reconcile
  <2>5. CASE Settle
    <3>1. Stop \/ run'.pc = "settled"
      BY <2>0, <2>5, SettleRun
    <3> QED BY <1>1, <1>2, <1>3, <1>7, <2>1, <3>1
  <2>6. CASE Gate
    <3>1. run'.pc # "commit"
      BY <1>7, <2>2, <2>6 DEF Gate
    <3> QED BY <1>1, <1>2, <1>3, <2>1, <3>1
  <2>7. CASE Refuse \/ Crash
    <3>1. run'.pc # "commit"
      BY <1>7, <2>7 DEF Refuse, Crash
    <3> QED BY <1>1, <1>2, <1>3, <2>1, <3>1
  <2> QED BY <1>11, <2>3, <2>4, <2>5, <2>6, <2>7
<1>12. CASE Console \/ Tick \/ UNCHANGED vars
  BY <1>6, <1>12 DEF Console, Enable, RecordFill, RecordSession, Tick, vars
<1>13. CASE \E target \in Days : Begin(target)
  BY <1>1, <1>2, <1>3, <1>9, <1>13
<1> QED BY <1>1, <1>4, <1>5, <1>10, <1>11, <1>12, <1>13 DEF Next, Steps

\* The decisions a finite calendar holds have a last one.
LEMMA HasLast ==
    ASSUME NEW m \in Nat, NEW D \in SUBSET (1 .. m), D # {}
    PROVE  \E d \in D : \A e \in D : e <= d
<1> SUFFICES ASSUME \A d \in D : \E e \in D : ~(e <= d) PROVE FALSE
  OBVIOUS
<1> DEFINE Q == { n \in Nat : \A e \in D : e <= m - n }
<1>1. 0 \in Q
  OBVIOUS
<1>2. ASSUME NEW n \in Nat, n \in Q PROVE n + 1 \in Q
  <2>1. ASSUME NEW e \in D PROVE e <= m - (n + 1)
    <3>1. e <= m - n /\ e \in 1 .. m
      BY <1>2
    <3>2. e # m - n
      <4>1. CASE e = m - n
        <5>1. \A x \in D : x <= e
          BY <1>2, <4>1
        <5> QED BY <5>1
      <4> QED BY <4>1
    <3> QED BY <3>1, <3>2
  <2> QED BY <2>1
<1> HIDE DEF Q
<1>3. Nat \subseteq Q
  BY <1>1, <1>2, Induction
<1>4. m \in Q
  BY <1>3
<1>5. PICK d : d \in D
  OBVIOUS
<1>6. d <= m - m /\ d \in 1 .. m
  BY <1>4, <1>5 DEF Q
<1> QED BY <1>6

LEMMA LastDecidedIs ==
    ASSUME NEW state \in Checkpoints
    PROVE  /\ LastDecided(state) \in 0 .. N
           /\ \A d \in Days : state.decided[d] # "no" => d <= LastDecided(state)
           /\ LastDecided(state) = 0 => \A d \in Days : state.decided[d] = "no"
<1> DEFINE D == DecidedOf(state)
<1>1. D \in SUBSET (1 .. N) /\ N \in Nat /\ \A d \in Days : state.decided[d] # "no" => d \in D
  BY PaperAssumption DEF DecidedOf, Days
<1>2. CASE D = {}
  BY <1>1, <1>2 DEF LastDecided, Days
<1>3. CASE D # {}
  <2>1. \E d \in D : \A e \in D : e <= d
    <3> HIDE DEF D
    <3> QED BY <1>1, <1>3, HasLast
  <2>2. LastDecided(state) \in D /\ \A e \in D : e <= LastDecided(state)
    BY <1>3, <2>1 DEF LastDecided
  <2> QED BY <1>1, <2>2 DEF Days
<1> QED BY <1>2, <1>3

\* The days a checkpoint has behind it.
Behindhand(state) ==
    /\ state.start \in 0 .. N /\ state.settled \in 0 .. N
    /\ state.settled # 0 => state.start # 0 /\ state.start <= state.settled
    /\ \A d \in DueDays :
          state.start # 0 /\ state.start <= d /\ d <= state.settled => state.decided[d] # "no"

\* The sessions a run for target has checked.
Cleared(state, target) ==
    /\ \A d \in Days : state.decided[d] # "no" => d < target
    /\ \A d \in DueDays :
          state.start # 0 /\ state.start <= d /\ d < target => state.decided[d] # "no"

Way(pc, state, target) ==
    /\ pc \in {"settle", "gate"}
    /\ pc = "settle" => state.start # 0 /\ Next2Settle(state) < target
    /\ pc = "gate" => ToSettle(state, target) = {}

LEMMA SettlingIs ==
    ASSUME NEW state, Behindhand(state), NEW target \in Days
    PROVE  Way(Settling(state, target), state, target)
<1>1. target \in 1 .. N /\ N \in Nat /\ Next2Settle(state) \in Int
  BY PaperAssumption DEF Days, Next2Settle, Behindhand
<1>2. CASE ToSettle(state, target) = {}
  BY <1>2 DEF Settling, Way
<1>3. CASE ToSettle(state, target) # {}
  <2>1. state.start # 0 /\ Next2Settle(state) .. target - 1 # {}
    BY <1>3 DEF ToSettle
  <2>2. PICK d : d \in Next2Settle(state) .. target - 1
    BY <2>1
  <2>3. Next2Settle(state) < target
    BY <1>1, <2>2
  <2> QED BY <1>3, <2>1, <2>3 DEF Settling, Way
<1> QED BY <1>2, <1>3

LEMMA PlannedIs ==
    ASSUME NEW state \in Checkpoints, Behindhand(state), NEW said, NEW target \in Days,
           NEW pc, pc = Planned(state, said, target)
    PROVE  /\ pc \in {"reread", "stop", "settle", "gate"}
           /\ pc \in {"settle", "gate"} => Cleared(state, target) /\ Way(pc, state, target)
<1>1. /\ target \in 1 .. N /\ N \in Nat /\ DueDays \subseteq Days
      /\ LastDecided(state) \in 0 .. N
  BY PaperAssumption, LastDecidedIs DEF Days
<1>2. Way(Settling(state, target), state, target)
  BY SettlingIs
<1>3. pc \in {"reread", "stop"} \/ pc = Settling(state, target)
  BY DEF Planned
<1>4. ASSUME pc \in {"settle", "gate"} PROVE Cleared(state, target)
  <2> DEFINE last == LastDecided(state)
  <2>1. /\ ~(last # 0 /\ target = last) /\ ~(last # 0 /\ target < last)
        /\ ~ \E d \in ToSettle(state, target) \cap DueDays : state.decided[d] = "no"
    BY <1>4 DEF Planned
  <2>2. last < target
    BY <1>1, <2>1
  <2>3. ASSUME NEW d \in Days, state.decided[d] # "no" PROVE d < target
    <3>1. d <= last /\ d \in 1 .. N
      BY <2>3, LastDecidedIs DEF Days
    <3> QED BY <1>1, <2>2, <3>1
  <2>4. ASSUME NEW d \in DueDays, state.start # 0, state.start <= d, d < target
        PROVE  state.decided[d] # "no"
    <3>1. d \in 1 .. N /\ state.start \in 0 .. N /\ state.settled \in 0 .. N
      BY <1>1 DEF Days, Behindhand
    <3>2. CASE d <= state.settled
      BY <2>4, <3>2 DEF Behindhand
    <3>3. CASE ~(d <= state.settled)
      <4>1. d \in Next2Settle(state) .. target - 1
        BY <1>1, <2>4, <3>1, <3>3 DEF Next2Settle
      <4>2. d \in ToSettle(state, target) \cap DueDays
        BY <2>4, <4>1 DEF ToSettle
      <4> QED BY <2>1, <4>2
    <3> QED BY <3>2, <3>3
  <2> QED BY <2>3, <2>4 DEF Cleared
<1> QED BY <1>2, <1>3, <1>4 DEF Way

LEMMA AdoptIs ==
    ASSUME ShapeInv, CalendarInv, NEW said, NEW target \in Days, Adopt(said, target)
    PROVE  \/ Stop
           \/ \E pc \in {"reread", "settle", "gate"} :
                 /\ run' = [pc |-> pc, target |-> target, said |-> said, acted |-> {}]
                 /\ pc \in {"settle", "gate"} =>
                       Cleared(ckpt', target) /\ Way(pc, ckpt', target)
<1> DEFINE state == Adopted(ckpt, said)
<1> DEFINE pc == Planned(state, said, target)
<1>1. state \in Checkpoints /\ Behindhand(state)
  <2>1. ckpt \in Checkpoints /\ Behindhand(ckpt) /\ ckpt.settled \in 0 .. NotReal
    BY PaperAssumption DEF ShapeInv, CalendarInv, Behindhand, Checkpoints, NotReal
  <2>2. CASE said.enabled /\ ckpt.after = NotReal
    <3>1. state = [ckpt EXCEPT !.after = ckpt.settled]
      BY <2>2 DEF Adopted
    <3> QED BY <2>1, <3>1 DEF Checkpoints, Behindhand
  <2>3. CASE ~(said.enabled /\ ckpt.after = NotReal)
    BY <2>1, <2>3 DEF Adopted
  <2> QED BY <2>2, <2>3
<1>2. /\ ckpt' = state
      /\ \/ pc # "stop" /\ run' = [pc |-> pc, target |-> target, said |-> said, acted |-> {}]
         \/ Stop
  BY DEF Adopt
<1> HIDE DEF state
<1>3. pc = Planned(state, said, target)
  OBVIOUS
<1> HIDE DEF pc
<1>4. /\ pc \in {"reread", "stop", "settle", "gate"}
      /\ pc \in {"settle", "gate"} => Cleared(state, target) /\ Way(pc, state, target)
  BY <1>1, <1>3, PlannedIs
<1> QED BY <1>2, <1>4

\* The plan of a run, as a predicate of the run and the checkpoint.
PlanOf(r, c, v) ==
    /\ r.pc \notin {"idle", "read"} => v # "killed"
    /\ r.pc \in {"settle", "settled", "gate", "decide", "commit"} => Cleared(c, r.target)
    /\ r.pc = "settle" => c.start # 0 /\ Next2Settle(c) < r.target
    /\ r.pc \in {"gate", "decide", "commit"} => ToSettle(c, r.target) = {}
    /\ r.pc \in {"decide", "commit"} => c.start = 0 \/ r.target \in DueDays

LEMMA PlanIs ==
    /\ PlanInv <=> PlanOf(run, ckpt, verdict)
    /\ PlanInv' <=> PlanOf(run', ckpt', verdict')
BY DEF PlanInv, PlanOf, Working, Planning, Cleared, Due, Next2Settle, ToSettle

LEMMA PlanSame ==
    ASSUME NEW r, NEW c, NEW b, NEW v, PlanOf(r, c, v), SameBook(b, c)
    PROVE  PlanOf(r, b, v)
BY DEF PlanOf, SameBook, Cleared, Next2Settle, ToSettle

LEMMA PlanStep ==
    ASSUME ShapeInv, NumberInv, CalendarInv, PlanInv, LedgerInv, [Next]_vars
    PROVE  PlanInv'
<1>1. run \in Runs /\ PlanOf(run, ckpt, verdict)
  BY PlanIs DEF ShapeInv
<1>2. Behindhand(ckpt)
  BY DEF ShapeInv, CalendarInv, Behindhand, Checkpoints
<1>3. CASE Stop
  <2>1. PlanOf(run', ckpt', verdict')
    BY <1>3 DEF Stop, NoRun, PlanOf
  <2> QED BY <2>1, PlanIs
<1>4. ASSUME NEW said, NEW target \in Days, Adopt(said, target), verdict' # "killed"
      PROVE  PlanInv'
  <2>1. CASE \E pc \in {"reread", "settle", "gate"} :
                 /\ run' = [pc |-> pc, target |-> target, said |-> said, acted |-> {}]
                 /\ pc \in {"settle", "gate"} =>
                       Cleared(ckpt', target) /\ Way(pc, ckpt', target)
    <3>1. PlanOf(run', ckpt', verdict')
      BY <1>4, <2>1 DEF PlanOf, Way
    <3> QED BY <3>1, PlanIs
  <2> QED BY <1>3, <1>4, <2>1, AdoptIs
<1>5. ASSUME NEW target \in Days, Begin(target) PROVE PlanInv'
  <2>1. verdict' # "killed"
    BY <1>5 DEF Begin
  <2>2. CASE Adopt(fills, target)
    BY <1>4, <2>1, <2>2
  <2>3. CASE run' = [pc |-> "restore", target |-> target, said |-> fills, acted |-> {}]
    <3>1. PlanOf(run', ckpt', verdict')
      BY <2>1, <2>3 DEF PlanOf
    <3> QED BY <3>1, PlanIs
  <2> QED BY <1>5, <2>2, <2>3 DEF Begin
<1>6. CASE VerdictCommand
  <2>1. PlanOf(run', ckpt', verdict')
    BY <1>6 DEF VerdictCommand, NoRun, PlanOf
  <2> QED BY <2>1, PlanIs
<1>7. CASE Resume
  <2>1. run.target \in Days /\ verdict' # "killed"
    BY <1>7 DEF Resume, ShapeInv, Working, PlanInv
  <2> QED BY <1>4, <1>7, <2>1 DEF Resume
\* A step that moves the run on and leaves the book as it was.
<1>8. ASSUME NEW pc, Goto(pc)
      PROVE  run'.pc = pc /\ run'.target = run.target
  BY <1>1, <1>8 DEF Goto, Runs
<1>9. CASE Reconcile
  <2>1. ckpt' = [ckpt EXCEPT !.outbox = << >>] /\ verdict' = verdict /\ Goto(Onward)
    BY <1>9 DEF Reconcile
  <2>2. SameBook(ckpt', ckpt)
    <3>1. ckpt \in Checkpoints
      BY DEF ShapeInv
    <3> QED BY <2>1, <3>1 DEF SameBook, Checkpoints
  <2>3. run'.pc = Onward /\ run'.target = run.target
    BY <1>8, <2>1
  <2>4. PlanOf(run', ckpt, verdict)
    <3>1. verdict # "killed"
      BY <1>9 DEF Reconcile, PlanInv, Working
    <3>2. CASE run.pc = "restore"
      BY <2>3, <3>1, <3>2 DEF Onward, PlanOf
    <3>3. CASE run.pc = "settled"
      <4>1. run.target \in Days /\ Cleared(ckpt, run.target)
        BY <1>1, <3>3 DEF PlanOf, ShapeInv, Working
      <4>2. Way(Settling(ckpt, run.target), ckpt, run.target)
        BY <1>2, <4>1, SettlingIs
      <4> QED BY <2>3, <3>1, <3>3, <4>1, <4>2 DEF Onward, PlanOf, Way
    <3> QED BY <1>9, <3>2, <3>3 DEF Reconcile
  <2> QED BY <2>1, <2>2, <2>4, PlanSame, PlanIs
<1>10. CASE Settle
  <2>1. CASE Stop
    BY <1>3, <2>1
  <2>2. CASE ~ Stop
    <3>1. run'.pc = "settled" /\ run'.target = run.target
      BY <1>1, <1>10, <2>2, SettleRun
    <3>2. ckpt'.start = ckpt.start /\ ckpt'.decided = ckpt.decided
      <4>1. CASE ckpt' # ckpt
        BY <1>10, <4>1, SettleIs DEF SettledAs
      <4> QED BY <4>1
    <3>3. verdict' = verdict
      BY <1>10 DEF Settle
    <3>5. run.pc = "settle"
      BY <1>10 DEF Settle
    <3>6. PlanOf(run', ckpt', verdict')
      BY <1>1, <3>1, <3>2, <3>3, <3>5 DEF PlanOf, Cleared
    <3> QED BY <3>6, PlanIs
  <2> QED BY <2>1, <2>2
<1>11. CASE Gate
  <2>1. CASE Stop
    BY <1>3, <2>1
  <2>2. CASE ~ Stop
    <3>1. /\ AfterGate(verdict') = "decide" /\ Goto("decide") /\ ckpt' = ckpt
      BY <1>11, <2>2 DEF Gate
    <3>2. run.pc = "gate" /\ verdict' # "killed" /\ Due(run.target)
      BY <3>1 DEF AfterGate
    <3>3. run'.pc = "decide" /\ run'.target = run.target
      BY <1>8, <3>1
    <3>4. PlanOf(run', ckpt', verdict')
      BY <1>1, <3>1, <3>2, <3>3 DEF PlanOf, Due
    <3> QED BY <3>4, PlanIs
  <2> QED BY <2>1, <2>2
<1>12. CASE PublishFit
  <2>1. run.pc = "decide" /\ ckpt' = ckpt /\ verdict' = verdict
    BY <1>12 DEF PublishFit
  <2>2. run'.pc = "commit" /\ run'.target = run.target
    BY <1>8, <1>12 DEF PublishFit
  <2>3. PlanOf(run', ckpt', verdict')
    BY <1>1, <2>1, <2>2 DEF PlanOf
  <2> QED BY <2>3, PlanIs
<1>13. CASE Commit
  <2>1. run.pc \in {"decide", "commit"} /\ verdict' = verdict
    BY <1>13 DEF Commit
  <2>2. run'.pc = "decided"
    BY <1>8, <1>13 DEF Commit
  <2>3. PlanOf(run', ckpt', verdict')
    BY <1>1, <2>1, <2>2 DEF PlanOf
  <2> QED BY <2>3, PlanIs
<1>14. CASE Refuse \/ Finish \/ Crash
  BY <1>3, <1>14 DEF Refuse, Finish, Crash
<1>15. CASE Console \/ Tick \/ UNCHANGED vars
  <2>1. run' = run /\ ckpt' = ckpt /\ verdict' = verdict
    BY <1>15 DEF Console, Enable, RecordFill, RecordSession, Tick, vars
  <2> QED BY <1>1, <2>1, PlanIs
<1> QED
  BY <1>5, <1>6, <1>7, <1>9, <1>10, <1>11, <1>12, <1>13, <1>14, <1>15 DEF Next, Steps

\* A run is a process that holds what it was started with, or none.
RunShape(r) ==
    /\ r \in Runs
    /\ r.pc \notin {"idle", "read"} => r.target \in Days /\ r.said \in Saids

LEMMA RunStep ==
    ASSUME ShapeInv, NumberInv, CalendarInv, PlanInv, LedgerInv, [Next]_vars
    PROVE  RunShape(run')
<1>1. run \in Runs /\ RunShape(run) /\ fills \in Saids /\ N \in Nat
  BY PaperAssumption DEF ShapeInv, RunShape, Working
<1>2. ASSUME NEW pc \in Pcs, NEW target \in 0 .. N, NEW said \in Saids \cup {<< >>},
             NEW acted \in SUBSET Days,
             pc \notin {"idle", "read"} => target \in Days /\ said \in Saids,
             run' = [pc |-> pc, target |-> target, said |-> said, acted |-> acted]
      PROVE  RunShape(run')
  BY <1>2 DEF RunShape, Runs
<1>3. CASE Stop
  BY <1>1, <1>2, <1>3 DEF Stop, NoRun, Pcs
<1>4. ASSUME NEW pc \in Pcs, Goto(pc), run.pc \notin {"idle", "read"} PROVE RunShape(run')
  <2>1. run' = [pc |-> pc, target |-> run.target, said |-> run.said, acted |-> run.acted]
    BY <1>1, <1>4 DEF Goto, Runs
  <2>2. run.target \in Days /\ run.said \in Saids /\ run.acted \in SUBSET Days
    BY <1>1, <1>4 DEF RunShape, Runs
  <2> QED BY <1>2, <2>1, <2>2 DEF Days
<1>5. ASSUME NEW said \in Saids, NEW target \in Days, Adopt(said, target)
      PROVE  RunShape(run')
  <2>1. CASE \E pc \in {"reread", "settle", "gate"} :
                 run' = [pc |-> pc, target |-> target, said |-> said, acted |-> {}]
    <3>1. PICK pc \in {"reread", "settle", "gate"} :
            run' = [pc |-> pc, target |-> target, said |-> said, acted |-> {}]
      BY <2>1
    <3>2. pc \in Pcs /\ target \in 0 .. N /\ {} \in SUBSET Days
      BY DEF Pcs, Days
    <3> QED BY <1>2, <3>1, <3>2
  <2> QED BY <1>3, <1>5, <2>1, AdoptIs
<1>6. ASSUME NEW target \in Days, Begin(target) PROVE RunShape(run')
  <2>1. CASE Adopt(fills, target)
    BY <1>1, <1>5, <2>1
  <2>2. CASE run' = [pc |-> "restore", target |-> target, said |-> fills, acted |-> {}]
    <3>1. "restore" \in Pcs /\ target \in 0 .. N /\ {} \in SUBSET Days
      BY DEF Pcs, Days
    <3> QED BY <1>1, <1>2, <2>2, <3>1
  <2> QED BY <1>6, <2>1, <2>2 DEF Begin
<1>7. CASE VerdictCommand
  <2>1. run' = [pc |-> "read", target |-> 0, said |-> << >>, acted |-> {}]
    BY <1>7 DEF VerdictCommand, NoRun
  <2> QED BY <1>1, <1>2, <2>1 DEF Pcs
<1>8. CASE Resume
  BY <1>1, <1>5, <1>8 DEF Resume, RunShape
<1>9. CASE Reconcile
  <2>1. Onward \in Pcs
    BY DEF Onward, Settling, Pcs
  <2> QED BY <1>4, <1>9, <2>1 DEF Reconcile
<1>10. CASE Settle
  <2>1. CASE Stop
    BY <1>3, <2>1
  <2>2. CASE ~ Stop
    <3>1. PICK acts : /\ acts \in {run.acted, run.acted \cup {Next2Settle(ckpt)}}
                      /\ run' = [pc |-> "settled", target |-> run.target,
                                 said |-> run.said, acted |-> acts]
      BY <1>1, <1>10, <2>2, SettleRun
    <3>2. run.target \in Days /\ run.said \in Saids /\ run.acted \in SUBSET Days
      BY <1>1, <1>10 DEF Settle, RunShape, Runs
    <3>3. Next2Settle(ckpt) \in Days
      <4>1. run.pc = "settle" /\ ckpt.start # 0 /\ Next2Settle(ckpt) < run.target
        BY <1>10 DEF Settle, PlanInv
      <4>2. ckpt.start \in 0 .. N /\ ckpt.settled \in 0 .. N
        BY DEF ShapeInv, Checkpoints
      <4> QED BY <1>1, <3>2, <4>1, <4>2 DEF Next2Settle, Days
    <3> QED BY <1>2, <3>1, <3>2, <3>3 DEF Pcs, Days
  <2> QED BY <2>1, <2>2
<1>11. CASE Gate
  BY <1>3, <1>4, <1>11 DEF Gate, AfterGate, Pcs
<1>12. CASE PublishFit \/ Commit
  BY <1>4, <1>12 DEF PublishFit, Commit, Pcs
<1>13. CASE Refuse \/ Finish \/ Crash
  BY <1>3, <1>13 DEF Refuse, Finish, Crash
<1>14. CASE Console \/ Tick \/ UNCHANGED vars
  BY <1>1, <1>14 DEF Console, Enable, RecordFill, RecordSession, Tick, vars
<1> QED
  BY <1>6, <1>7, <1>8, <1>9, <1>10, <1>11, <1>12, <1>13, <1>14 DEF Next, Steps

LEMMA ShapeStep ==
    ASSUME ShapeInv, NumberInv, CalendarInv, PlanInv, LedgerInv, [Next]_vars
    PROVE  ShapeInv' /\ NumberInv'
<1>1. ckpt' \in Checkpoints /\ Sound(ckpt'.account) /\ journal' \in Seq(Rows) /\ NumberInv'
  <2>1. CASE Steady
    BY <2>1 DEF Steady, SameBook, ShapeInv
  <2>2. ASSUME NEW d, NEW a, NEW l, NEW w, NEW q, SettledAs(d, a, l, w, q)
        PROVE  /\ ckpt' \in Checkpoints /\ Sound(ckpt'.account) /\ journal' \in Seq(Rows)
               /\ NumberInv'
    BY <2>2 DEF SettledAs, Grown, Explained
  <2>3. ASSUME NEW d, NEW orders, NEW w, NEW q, DecidedAs(d, orders, w, q)
        PROVE  /\ ckpt' \in Checkpoints /\ Sound(ckpt'.account) /\ journal' \in Seq(Rows)
               /\ NumberInv'
    BY <2>3 DEF DecidedAs, Grown, ShapeInv
  <2> QED BY <2>1, <2>2, <2>3, StepCases
<1>2. fills' \in Saids
  BY FillsGrow
<1>3. run' \in Runs /\ (Working' => run'.target \in Days /\ run'.said \in Saids)
  BY RunStep DEF RunShape, Working
<1>4. /\ damaged' \in BOOLEAN /\ fits' \subseteq Days
      /\ verdict' \in {"observing", "confirmed", "killed"}
      /\ exdates' \subseteq Days /\ today' \in Days
  <2>1. /\ damaged \in BOOLEAN /\ fits \subseteq Days
        /\ verdict \in {"observing", "confirmed", "killed"}
        /\ exdates \subseteq Days /\ today \in Days
    BY DEF ShapeInv
  <2>2. CASE UNCHANGED <<damaged, fits, verdict, exdates, today>>
    BY <2>1, <2>2
  <2>3. ASSUME NEW target \in Days, Begin(target)
        PROVE  UNCHANGED <<damaged, fits, verdict, exdates, today>>
    BY <2>3, Zenon DEF Begin, market
  <2>4. CASE VerdictCommand \/ Resume \/ Reconcile \/ Settle \/ Refuse \/ Commit \/ Console
    BY <2>2, <2>4
    DEF VerdictCommand, Resume, Reconcile, Settle, Refuse, Commit, Console, Enable,
        RecordFill, RecordSession, market
  <2>5. CASE Gate
    <3>1. verdict' \in {"observing", "confirmed", "killed"}
      BY <2>1, <2>5, PaperAssumption DEF Gate, Readings
    <3> QED BY <2>1, <2>5, <3>1 DEF Gate, market
  <2>6. CASE PublishFit
    <3>1. run.target \in Days
      BY <2>6 DEF PublishFit, ShapeInv, Working
    <3> QED BY <2>1, <2>6, <3>1 DEF PublishFit, WithFit, market
  <2>7. CASE Finish
    BY <2>1, <2>7 DEF Finish, market
  <2>8. CASE Crash
    BY <2>1, <2>8 DEF Crash, market
  <2>9. CASE Tick
    BY <2>1, <2>9, PaperAssumption DEF Tick, Days
  <2>10. CASE UNCHANGED vars
    BY <2>2, <2>10 DEF vars
  <2> QED
    BY <2>2, <2>3, <2>4, <2>5, <2>6, <2>7, <2>8, <2>9, <2>10 DEF Next, Steps
<1> QED BY <1>1, <1>2, <1>3, <1>4 DEF ShapeInv

-----------------------------------------------------------------------------
(* The invariant holds.                                                     *)

LEMMA BookInit ==
    ASSUME Init PROVE BookInv
<1>1. /\ N \in Nat \ {0} /\ Cash \in Nat /\ DueDays \subseteq Days
  BY PaperAssumption DEF Days
<1>2. NewAccount(Cash) \in Accounts /\ Sound(NewAccount(Cash))
      /\ NewAccount(Cash).held = 0 /\ NewAccount(Cash).cash = Cash
  BY <1>1, NewSound
<1>3. NoLedger \in Ledgers
  <2>1. NoEntry \in Entries /\ Nothing \in Outcomes
    BY DEF NoEntry, Nothing, Entries, Outcomes
  <2> QED BY <2>1 DEF NoLedger, Ledgers
<1>4. << >> \in Seq(Rows) /\ Len(<< >>) = 0 /\ DOMAIN << >> = {} /\ Range(<< >>) = {}
  BY DEF Range
<1>5. /\ ckpt.start = 0 /\ ckpt.settled = 0 /\ ckpt.decided = [d \in Days |-> "no"]
      /\ ckpt.pending = {} /\ ckpt.account = NewAccount(Cash) /\ ckpt.outbox = << >>
      /\ ckpt.after = NotReal /\ ckpt.ledger = NoLedger /\ ckpt.fit = 0 /\ ckpt.issued = 0
      /\ journal = << >>
  BY DEF Init, NewState
<1>6. ckpt \in Checkpoints
  <2>1. [d \in Days |-> "no"] \in [Days -> {"no", "on_day", "late"}]
    OBVIOUS
  <2>2. NotReal \in 0 .. NotReal
    BY <1>1 DEF NotReal
  <2> QED BY <1>1, <1>2, <1>3, <1>4, <2>1, <2>2 DEF Init, NewState, Checkpoints
<1>7. fills \in Saids
  BY DEF Init, Saids
<1>8. RunShape(run)
  BY <1>1 DEF Init, NoRun, RunShape, Runs, Pcs
<1>9. ShapeInv
  <2>1. Sound(ckpt.account) /\ journal \in Seq(Rows)
    BY <1>2, <1>4, <1>5
  <2>2. /\ damaged \in BOOLEAN /\ fits \subseteq Days
        /\ verdict \in {"observing", "confirmed", "killed"}
        /\ exdates \subseteq Days /\ today \in Days
    <3>1. damaged \in BOOLEAN /\ fits \subseteq Days
      BY DEF Init
    <3>2. verdict \in {"observing", "confirmed", "killed"}
      BY DEF Init
    <3>3. exdates \subseteq Days /\ today \in Days
      BY <1>1, PaperAssumption DEF Init, Days
    <3> QED BY <3>1, <3>2, <3>3
  <2> QED BY <1>6, <1>7, <1>8, <2>1, <2>2 DEF ShapeInv, RunShape, Working
<1>10. NumberInv
  BY <1>4, <1>5 DEF NumberInv
<1>11. CalendarInv /\ PlanInv
  BY <1>1, <1>5 DEF CalendarInv, PlanInv, Working, Planning, Init, NoRun, Days
<1>12. RowsInv
  BY <1>4, <1>5 DEF RowsInv
<1>13. LedgerInv
  BY <1>5 DEF LedgerInv, NoLedger
<1>14. Published = << >>
  BY <1>4, <1>5, AppendedIs, ExtendedType
<1>15. BalanceInv
  BY <1>1, <1>2, <1>5, <1>14, SumOfEmpty DEF BalanceInv
<1>16. MatchInv
  BY <1>5, <1>14, SumOfEmpty, SignedZero DEF MatchInv, NoLedger, NoEntry, Nothing
<1>18. LockInv
  BY <1>14, SumOfEmpty DEF LockInv
<1>17. EvidenceInv /\ FitInv
  BY <1>5 DEF EvidenceInv, FitInv, FitStateKept, Working, Init, NoRun, NoLedger, NoEntry
<1> QED BY <1>9, <1>10, <1>11, <1>12, <1>13, <1>15, <1>16, <1>17, <1>18 DEF BookInv

\* The book's invariant, which every property below reads.
THEOREM BookKept == Spec => []BookInv
<1>1. Init => BookInv
  BY BookInit
<1>2. BookInv /\ [Next]_vars => BookInv'
  BY ShapeStep, CalendarStep, PlanStep, RowsStep, LedgerStep, BalanceStep, LockStep,
     MatchStep, EvidenceStep, FitStep DEF BookInv
<1> QED BY <1>1, <1>2, PTL DEF Spec

\* The checkpoint, the records and the run hold what their files and the process
\* can hold (paper/state.py, paper/fills.py).
THEOREM BookTypes == Spec => []TypeOK
<1>1. BookInv => TypeOK
  <2> SUFFICES ASSUME BookInv PROVE TypeOK
    OBVIOUS
  <2>1. ckpt \in Checkpoints /\ run \in Runs /\ fills \in Saids
    BY DEF BookInv, ShapeInv
  <2>2. /\ ckpt.start \in 0 .. N /\ ckpt.settled \in 0 .. N /\ ckpt.after \in 0 .. NotReal
        /\ ckpt.fit \in 0 .. N /\ ckpt.decided \in [Days -> {"no", "on_day", "late"}]
        /\ ckpt.pending \subseteq Days \X Sides
    BY <2>1 DEF Checkpoints
  <2>3. ckpt.account.held \in Nat /\ ckpt.account.cash \in Nat
    BY <2>1 DEF Checkpoints, Accounts
  <2>4. /\ fills.session \in [Days -> Fills \cup {Silent}]
        /\ fills.key \in [Days -> [Sides -> Fills \cup {Silent}]]
    BY <2>1 DEF Saids
  <2>5. run.pc \in Pcs
    BY <2>1 DEF Runs
  <2>6. /\ fits \subseteq Days /\ exdates \subseteq Days
        /\ verdict \in {"observing", "confirmed", "killed"} /\ today \in Days
    BY DEF BookInv, ShapeInv
  <2> QED BY <2>2, <2>3, <2>4, <2>5, <2>6 DEF TypeOK, Pcs
<1> QED BY <1>1, BookKept, PTL

\* Whatever crashed while they went out, the rows a book published with those
\* still in its outbox account for every share and every yuan of the checkpointed
\* account and mark each settled session once (storage.append_jsonl_once).
THEOREM BooksAlwaysBalance == Spec => []BooksBalance
<1>1. BookInv => BooksBalance
  <2> SUFFICES ASSUME BookInv PROVE BooksBalance
    OBVIOUS
  <2>1. BalanceInv /\ Published \in Seq(Rows)
    BY PublishedType DEF BookInv
  <2> DEFINE rows == Published
  <2>2. rows \in Seq(Rows)
    BY <2>1
  <2> HIDE DEF rows
  <2>3. /\ RowSum(rows, LAMBDA r : r.shares) = SumOf(SharesIn, rows)
        /\ RowSum(rows, LAMBDA r : r.cash) = SumOf(CashIn, rows)
        /\ \A d : RowSum(rows, LAMBDA r : IF r.kind = "equity" /\ r.day = d THEN 1 ELSE 0)
                    = SumOf(Marks(d), rows)
    BY <2>2, RowSums
  <2>4. /\ ckpt.account.held = SumOf(SharesIn, rows)
        /\ ckpt.account.cash = Cash + SumOf(CashIn, rows)
        /\ \A d \in Days :
              SumOf(Marks(d), rows)
                = IF ckpt.start # 0 /\ ckpt.start <= d /\ d <= ckpt.settled THEN 1 ELSE 0
    BY <2>1 DEF BalanceInv, rows
  <2>5. /\ ckpt.account.held = RowSum(rows, LAMBDA r : r.shares)
        /\ ckpt.account.cash = Cash + RowSum(rows, LAMBDA r : r.cash)
    BY <2>3, <2>4
  <2>6. \A d \in Days :
           RowSum(rows, LAMBDA r : IF r.kind = "equity" /\ r.day = d THEN 1 ELSE 0)
             = IF ckpt.start # 0 /\ ckpt.start <= d /\ d <= ckpt.settled THEN 1 ELSE 0
    BY <2>3, <2>4
  <2> QED BY <2>5, <2>6 DEF BooksBalance, rows
<1> QED BY <1>1, BookKept, PTL

\* T+1: no session sold a share that came to the book that very day, bought or
\* created by its ex-date (DailyBroker.open_day, execute; fills._book).
THEOREM LocksHold == Spec => []SoldWasHeldBefore
<1>1. BookInv => SoldWasHeldBefore
  <2> SUFFICES ASSUME BookInv, NEW d \in Days
               PROVE  0 <= RowSum(Published, LAMBDA r : IF OnHand(r, d) THEN r.shares ELSE 0)
    BY DEF SoldWasHeldBefore, OnHand
  <2> DEFINE rows == Published
  <2>1. rows \in Seq(Rows)
    BY PublishedType DEF BookInv
  <2>2. 0 <= SumOf(OnHandIn(d), rows)
    BY DEF BookInv, LockInv
  <2> HIDE DEF rows
  <2>3. 0 <= RowSum(rows, LAMBDA r : IF OnHand(r, d) THEN r.shares ELSE 0)
    BY <2>1, <2>2, OnHandSum, Zenon
  <2> QED BY <2>3 DEF rows
<1> QED BY <1>1, BookKept, PTL

\* A session's execution rows and the corrections of it together are the outcome
\* the ledger measures the next correction on (fills._book).
THEOREM LedgerAlwaysMatches == Spec => []LedgerMatchesJournals
<1>1. BookInv => LedgerMatchesJournals
  <2> SUFFICES ASSUME BookInv PROVE LedgerMatchesJournals
    OBVIOUS
  <2> DEFINE rows == Published
  <2>1. MatchInv /\ ShapeInv /\ rows \in Seq(Rows)
    BY PublishedType DEF BookInv
  <2> HIDE DEF rows
  <2>2. \A d, s : RowSum(rows, LAMBDA r : IF OfOrder(r, d, s) THEN r.shares ELSE 0)
                    = SumOf(TradedIn(d, s), rows)
    BY <2>1, RowSums
  <2>3. ASSUME NEW d \in RealSessions(ckpt), NEW s \in Sides
        PROVE  LET traded == RowSum(rows, LAMBDA r : IF OfOrder(r, d, s) THEN r.shares ELSE 0)
               IN ckpt.ledger[d][s].real.q = IF s = "buy" THEN traded ELSE -traded
    <3>1. d \in Days /\ ckpt.after < d /\ ckpt.after \in 0 .. NotReal /\ d \in 1 .. N
      BY <2>1 DEF RealSessions, ShapeInv, Checkpoints, Days
    <3>2. Signed(s, ckpt.ledger[d][s].real.q) = SumOf(TradedIn(d, s), rows)
      <4>1. d > ckpt.after
        BY <3>1, PaperAssumption DEF NotReal
      <4> QED BY <2>1, <3>1, <4>1 DEF MatchInv, rows
    <3>3. ckpt.ledger[d][s].real.q \in Nat
      <4>1. ckpt.ledger \in Ledgers
        BY <2>1 DEF ShapeInv, Checkpoints
      <4> QED BY <3>1, <4>1, EntryType
    <3>4. ckpt.ledger[d][s].real.q
            = IF s = "buy" THEN SumOf(TradedIn(d, s), rows) ELSE -SumOf(TradedIn(d, s), rows)
      BY <3>2, <3>3 DEF Signed
    <3> QED BY <2>2, <3>4
  <2> QED BY <2>3 DEF LedgerMatchesJournals, OfOrder, rows
<1> QED BY <1>1, BookKept, PTL

\* On a taxed book the lots are the holding, share for share: restore_lots
\* refuses any other checkpoint.
THEOREM LotsAlwaysAddUp == Spec => []LotsAddUp
<1>1. BookInv => LotsAddUp
  BY DEF BookInv, ShapeInv, Sound, LotsAddUp
<1> QED BY <1>1, BookKept, PTL

\* A book on real fills settles no order it has no record of (fills._resolve).
THEOREM NothingAssumed == Spec => []OnlyRecordedFills
<1>1. BookInv => OnlyRecordedFills
  BY DEF BookInv, EvidenceInv, OnlyRecordedFills, RealSessions
<1> QED BY <1>1, BookKept, PTL

\* The fitted state the checkpoint names is on disk (_decision_state_dir).
THEOREM FitStateAlwaysKept == Spec => []FitStateKept
<1>1. BookInv => FitStateKept
  BY DEF BookInv, FitInv
<1> QED BY <1>1, BookKept, PTL

-----------------------------------------------------------------------------
(* The refinement of PaperAccount.                                          *)

\* The sheets a reader of the book sees.
SidesIn(rows, d) ==
    { r.side : r \in { x \in rows : x.kind = "order" /\ x.day = d } }
SheetOf(d) == IF ckpt.decided[d] = "no" THEN {"undecided"} ELSE SidesIn(AllRows, d)

LEMMA SheetIs ==
    ASSUME ShapeInv, NumberInv
    PROVE  /\ \A d : OrdersOf(d) = SidesIn(AllRows, d)
           /\ \A d \in Days : ckpt.decided[d] # "no" <=> SheetOf(d) # {"undecided"}
<1>1. \A d : OrdersOf(d) = SidesIn(AllRows, d)
  BY DEF OrdersOf, SidesIn, AllRows
<1>2. AllRows \subseteq Rows
  BY PublishedType DEF Range
<1>3. ASSUME NEW d PROVE SidesIn(AllRows, d) # {"undecided"}
  <2>1. \A r \in AllRows : r.side # "undecided"
    BY <1>2 DEF Rows, Sides
  <2> QED BY <2>1 DEF SidesIn
<1> QED BY <1>1, <1>3 DEF SheetOf

\* Every row keeps what it said when it is numbered.
LEMMA NumberedEach ==
    ASSUME NEW w \in Seq(Rows), NEW n \in Nat, NEW q, q = Numbered(w, n), NEW x \in Range(w)
    PROVE  \E r \in Range(q) : r.kind = x.kind /\ r.day = x.day /\ r.side = x.side
<1>1. q = [i \in DOMAIN w |-> [w[i] EXCEPT !.id = n + i]]
  BY DEF Numbered
<1>2. PICK i \in DOMAIN w : x = w[i]
  BY DEF Range
<1>3. w[i] \in Rows /\ q[i] = [w[i] EXCEPT !.id = n + i] /\ q[i] \in Range(q)
  BY <1>1 DEF Range
<1>4. q[i].kind = w[i].kind /\ q[i].day = w[i].day /\ q[i].side = w[i].side
  BY <1>3 DEF Rows
<1> QED BY <1>2, <1>3, <1>4

LEMMA SettlesOn ==
    ASSUME BookInv, Settle, NEW d, NEW a, NEW l, NEW w, NEW q, SettledAs(d, a, l, w, q)
    PROVE  /\ d \in Days /\ verdict # "killed" /\ verdict' = verdict
           /\ ckpt'.settled = d /\ ckpt'.decided = ckpt.decided
           /\ IF ckpt.settled = 0 THEN ckpt.decided[d] # "no" ELSE d = ckpt.settled + 1
           /\ d \in DueDays => ckpt.decided[d] # "no"
           /\ \A e : SidesIn(AllRows', e) = SidesIn(AllRows, e)
<1>1. /\ d = Next2Settle(ckpt) /\ d \in Days /\ d < run.target /\ ckpt.start # 0
      /\ ckpt'.settled = d /\ ckpt'.decided = ckpt.decided
      /\ AllRows' = AllRows \cup Range(q)
      /\ w \in Seq(Rows) /\ \A i \in DOMAIN w : SessionRow(w[i], ckpt, d)
      /\ q = Numbered(Append(w, EquityRow(d)), ckpt.issued)
  BY DEF SettledAs, Explained, Grown
<1>2. /\ ShapeInv /\ CalendarInv /\ PlanInv /\ run.pc = "settle" /\ ckpt.issued \in Nat
      /\ ckpt.start \in 0 .. N /\ ckpt.settled \in 0 .. N /\ N \in Nat
  BY PaperAssumption DEF BookInv, ShapeInv, Checkpoints, Settle
<1>3. verdict # "killed" /\ verdict' = verdict
  BY <1>2 DEF PlanInv, Working, Settle
<1>4. IF ckpt.settled = 0 THEN ckpt.decided[d] # "no" ELSE d = ckpt.settled + 1
  BY <1>1, <1>2 DEF Next2Settle, CalendarInv
<1>5. ckpt.start <= d
  BY <1>1, <1>2 DEF Next2Settle, CalendarInv
<1>6. d \in DueDays => ckpt.decided[d] # "no"
  BY <1>1, <1>2, <1>5 DEF PlanInv, Planning
<1>7. ASSUME NEW r \in Range(q) PROVE r.kind # "order"
  <2> DEFINE x == Append(w, EquityRow(d))
  <2>1. x \in Seq(Rows) /\ q = Numbered(x, ckpt.issued)
    BY <1>1, EquityRowIs
  <2>2. \A y \in Range(x) : y = EquityRow(d) \/ \E i \in DOMAIN w : y = w[i]
    BY <1>1, EquityRowIs DEF Range
  <2> HIDE DEF x
  <2>3. PICK y \in Range(x) : r.kind = y.kind
    BY <1>2, <2>1, NumberedRows
  <2>4. CASE y = EquityRow(d)
    BY <1>1, <2>3, <2>4, EquityRowIs
  <2>5. CASE \E i \in DOMAIN w : y = w[i]
    BY <1>1, <2>3, <2>5 DEF SessionRow, SettlementKinds
  <2> QED BY <2>2, <2>3, <2>4, <2>5
<1>8. \A e : SidesIn(AllRows', e) = SidesIn(AllRows, e)
  BY <1>1, <1>7 DEF SidesIn
<1> QED BY <1>1, <1>3, <1>4, <1>6, <1>8

LEMMA DecidesOn ==
    ASSUME BookInv, Commit, NEW d, NEW orders, NEW w, NEW q, DecidedAs(d, orders, w, q)
    PROVE  /\ d \in Days /\ orders \in Sheets /\ verdict # "killed" /\ verdict' = verdict
           /\ ckpt'.settled = ckpt.settled
           /\ ckpt.decided[d] = "no" /\ ckpt'.decided[d] # "no"
           /\ \A e \in Days : e # d => ckpt'.decided[e] = ckpt.decided[e]
           /\ \/ \A e \in Days : ckpt.decided[e] = "no"
              \/ d \in DueDays /\ ckpt.settled = d - 1
           /\ SidesIn(AllRows', d) = orders
           /\ \A e \in Days : e # d => SidesIn(AllRows', e) = SidesIn(AllRows, e)
<1>1. /\ d = run.target /\ d \in Days /\ orders \in Sheets
      /\ ckpt'.settled = ckpt.settled
      /\ ckpt'.decided = [ckpt.decided EXCEPT ![d] = IF today > d THEN "late" ELSE "on_day"]
      /\ AllRows' = AllRows \cup Range(q)
      /\ w \in Seq(Rows) /\ Range(w) = { Row("order", d, s, 0, 0) : s \in orders }
      /\ q = Numbered(w, ckpt.issued)
  BY DEF DecidedAs, Grown
<1>2. /\ ShapeInv /\ NumberInv /\ CalendarInv /\ PlanInv /\ RowsInv
      /\ run.pc \in {"decide", "commit"} /\ ckpt.issued \in Nat
      /\ ckpt.decided \in [Days -> {"no", "on_day", "late"}]
      /\ ckpt.start \in 0 .. N /\ ckpt.settled \in 0 .. N /\ N \in Nat /\ d \in 1 .. N
  BY <1>1, PaperAssumption DEF BookInv, ShapeInv, Checkpoints, Commit, Days
<1>3. verdict # "killed" /\ verdict' = verdict
  BY <1>2 DEF PlanInv, Working, Commit
<1>4. /\ \A e \in Days : ckpt.decided[e] # "no" => e < d
      /\ \A e \in DueDays : ckpt.start # 0 /\ ckpt.start <= e /\ e < d => ckpt.decided[e] # "no"
      /\ ToSettle(ckpt, d) = {} /\ Due(d)
  BY <1>1, <1>2 DEF PlanInv, Planning
<1>5. ckpt.decided[d] = "no"
  BY <1>1, <1>2, <1>4
<1>6. /\ ckpt'.decided[d] # "no"
      /\ \A e \in Days : e # d => ckpt'.decided[e] = ckpt.decided[e]
  BY <1>1, <1>2
<1>7. ckpt.start = 0 => \A e \in Days : ckpt.decided[e] = "no"
  BY <1>2 DEF CalendarInv
<1>8. ASSUME ckpt.start # 0 PROVE d \in DueDays /\ ckpt.settled = d - 1
  <2>1. d \in DueDays
    BY <1>4, <1>8 DEF Due
  <2>2. ckpt.start \in Days /\ ckpt.start < d
    BY <1>2, <1>4, <1>8 DEF CalendarInv, Days
  <2>3. Next2Settle(ckpt) .. d - 1 = {} /\ Next2Settle(ckpt) \in Int
    BY <1>2, <1>4, <1>8 DEF ToSettle, Next2Settle
  <2>4. ~(Next2Settle(ckpt) <= d - 1)
    <3>1. CASE Next2Settle(ckpt) <= d - 1
      <4>1. d - 1 \in Next2Settle(ckpt) .. d - 1
        BY <1>2, <2>3, <3>1
      <4> QED BY <2>3, <4>1
    <3> QED BY <3>1
  <2>5. ckpt.settled # 0 /\ d - 1 <= ckpt.settled
    BY <1>2, <2>2, <2>4 DEF Next2Settle
  <2>6. ~(d <= ckpt.settled)
    BY <1>2, <1>5, <1>8, <2>1, <2>2 DEF CalendarInv
  <2> QED BY <1>2, <2>1, <2>5, <2>6
<1>9. orders \subseteq Sides
  BY <1>1, PaperAssumption DEF Sides
<1>10. ASSUME NEW r \in Range(q)
       PROVE  r.kind = "order" /\ r.day = d /\ r.side \in orders
  <2>1. PICK y \in Range(w) : r.kind = y.kind /\ r.day = y.day /\ r.side = y.side
    BY <1>1, <1>2, NumberedRows
  <2>2. PICK s \in orders : y = Row("order", d, s, 0, 0)
    BY <1>1, <2>1
  <2>3. s \in Sides
    BY <1>9
  <2> QED BY <1>1, <2>1, <2>2, <2>3, OrderRowIs
<1>11. ASSUME NEW s \in orders
       PROVE  \E r \in Range(q) : r.kind = "order" /\ r.day = d /\ r.side = s
  <2> DEFINE x == Row("order", d, s, 0, 0)
  <2>1. x \in Range(w) /\ x.kind = "order" /\ x.day = d /\ x.side = s
    BY <1>1, <1>9, OrderRowIs
  <2> HIDE DEF x
  <2>2. w \in Seq(Rows) /\ ckpt.issued \in Nat /\ q = Numbered(w, ckpt.issued)
    BY <1>1, <1>2
  <2>3. \E r \in Range(q) : r.kind = x.kind /\ r.day = x.day /\ r.side = x.side
    BY <2>1, <2>2, NumberedEach
  <2> QED BY <2>1, <2>3
<1>12. \A r \in AllRows : ~(r.kind = "order" /\ r.day = d)
  BY <1>2, <1>5 DEF RowsInv, AllRows, Reached
<1>13. SidesIn(AllRows', d) = orders
  <2>1. SidesIn(AllRows', d) \subseteq orders
    BY <1>1, <1>10, <1>12 DEF SidesIn
  <2>2. orders \subseteq SidesIn(AllRows', d)
    BY <1>1, <1>11 DEF SidesIn
  <2> QED BY <2>1, <2>2
<1>14. ASSUME NEW e \in Days, e # d PROVE SidesIn(AllRows', e) = SidesIn(AllRows, e)
  <2>1. \A r \in Range(q) : ~(r.kind = "order" /\ r.day = e)
    BY <1>10, <1>14
  <2> QED BY <1>1, <2>1 DEF SidesIn
<1> QED BY <1>1, <1>3, <1>5, <1>6, <1>7, <1>8, <1>13, <1>14

\* A verdict is read from settled days only.
LEMMA JudgesOn ==
    ASSUME BookInv, [Next]_vars, verdict' # verdict
    PROVE  /\ verdict = "observing" /\ verdict' \in {"confirmed", "killed"}
           /\ ckpt.settled > 0 /\ ckpt' = ckpt /\ journal' = journal
<1>1. Gate
  <2>1. ASSUME NEW target \in Days PROVE ~ Begin(target)
    BY DEF Begin
  <2>2. /\ ~ VerdictCommand /\ ~ Crash /\ ~ Tick /\ ~ Console /\ ~ Refuse /\ ~ Resume
        /\ ~ UNCHANGED vars
    BY DEF VerdictCommand, Crash, Tick, Console, Enable, RecordFill, RecordSession,
       Refuse, Resume, vars
  <2>3. ~ Reconcile /\ ~ Settle /\ ~ PublishFit /\ ~ Commit /\ ~ Finish
    BY DEF Reconcile, Settle, PublishFit, Commit, Finish
  <2> QED BY <2>1, <2>2, <2>3 DEF Next, Steps
<1>2. verdict = "observing" /\ EquityDays # {} /\ verdict' \in Verdicts
  BY <1>1 DEF Gate, Readings
<1>3. verdict' \in {"confirmed", "killed"}
  BY <1>2, PaperAssumption
<1>4. PICK i \in DOMAIN journal : journal[i].kind = "equity"
  BY <1>2 DEF EquityDays
<1>5. /\ journal[i] \in Rows /\ journal[i] \in Range(journal) /\ ckpt.settled \in 0 .. N
      /\ N \in Nat /\ RowsInv
  BY <1>4, PaperAssumption DEF BookInv, ShapeInv, Checkpoints, Range
<1>6. journal[i].day \in 1 .. N /\ journal[i].day <= ckpt.settled
  BY <1>4, <1>5 DEF RowsInv, Reached, Rows, Days
<1> QED BY <1>1, <1>2, <1>3, <1>5, <1>6 DEF Gate

\* The sheets as PaperAccount sees them, before and after a step.
Shown == [d \in Days |-> IF ckpt.decided[d] = "no" THEN {"undecided"} ELSE OrdersOf(d)]

LEMMA ShownIs ==
    /\ Shown = [d \in Days |-> SheetOf(d)]
    /\ Shown' = [d \in Days |-> IF ckpt'.decided[d] = "no" THEN {"undecided"}
                                ELSE SidesIn(AllRows', d)]
<1>1. \A d : OrdersOf(d) = SidesIn(AllRows, d)
  BY DEF OrdersOf, SidesIn, AllRows
<1>2. \A d : OrdersOf(d)' = SidesIn(AllRows', d)
  BY DEF OrdersOf, SidesIn, AllRows
<1>3. Shown = [d \in Days |-> SheetOf(d)]
  BY <1>1 DEF Shown, SheetOf
<1>4. Shown' = [d \in Days |-> IF ckpt'.decided[d] = "no" THEN {"undecided"} ELSE OrdersOf(d)']
  BY DEF Shown
<1> QED BY <1>2, <1>3, <1>4

LEMMA ShowsSettlement ==
    ASSUME BookInv, Settle, NEW d, NEW a, NEW l, NEW w, NEW q, SettledAs(d, a, l, w, q)
    PROVE  Account!ASettle(d)
<1>1. /\ d \in Days /\ verdict # "killed" /\ verdict' = verdict
      /\ ckpt'.settled = d /\ ckpt'.decided = ckpt.decided
      /\ IF ckpt.settled = 0 THEN ckpt.decided[d] # "no" ELSE d = ckpt.settled + 1
      /\ d \in DueDays => ckpt.decided[d] # "no"
      /\ \A e : SidesIn(AllRows', e) = SidesIn(AllRows, e)
  BY SettlesOn
<1>2. ckpt.decided[d] # "no" => Shown[d] # {"undecided"}
  BY <1>1, SheetIs, ShownIs DEF BookInv
<1>3. Shown' = Shown
  BY <1>1, ShownIs DEF SheetOf
<1>4. /\ verdict # "killed"
      /\ ckpt'.settled = d
      /\ IF ckpt.settled = 0 THEN Shown[d] # {"undecided"} ELSE d = ckpt.settled + 1
      /\ d \in DueDays => Shown[d] # {"undecided"}
      /\ Shown' = Shown /\ verdict' = verdict
  BY <1>1, <1>2, <1>3
<1> QED BY <1>4 DEF Account!ASettle, Account!Undecided, Shown

LEMMA ShowsDecision ==
    ASSUME BookInv, Commit, NEW d, NEW orders, NEW w, NEW q, DecidedAs(d, orders, w, q)
    PROVE  Account!ADecide(d)
<1>1. /\ d \in Days /\ orders \in Sheets /\ verdict # "killed" /\ verdict' = verdict
      /\ ckpt'.settled = ckpt.settled
      /\ ckpt.decided[d] = "no" /\ ckpt'.decided[d] # "no"
      /\ \A e \in Days : e # d => ckpt'.decided[e] = ckpt.decided[e]
      /\ \/ \A e \in Days : ckpt.decided[e] = "no"
         \/ d \in DueDays /\ ckpt.settled = d - 1
      /\ SidesIn(AllRows', d) = orders
      /\ \A e \in Days : e # d => SidesIn(AllRows', e) = SidesIn(AllRows, e)
  BY DecidesOn
<1>2. Shown[d] = {"undecided"} /\ Shown'[d] = orders
  BY <1>1, ShownIs DEF SheetOf
<1>3. orders # {"undecided"}
  BY <1>1, PaperAssumption
<1>4. (\A e \in Days : ckpt.decided[e] = "no") => \A e \in Days : Shown[e] = {"undecided"}
  BY ShownIs DEF SheetOf
<1>5. Shown' = [Shown EXCEPT ![d] = orders]
  <2>1. \A e \in Days : Shown'[e] = IF e = d THEN orders ELSE Shown[e]
    BY <1>1, <1>2, ShownIs DEF SheetOf
  <2>2. Shown = [e \in Days |-> Shown[e]] /\ Shown' = [e \in Days |-> Shown'[e]]
    BY ShownIs
  <2>3. [Shown EXCEPT ![d] = orders] = [e \in Days |-> IF e = d THEN orders ELSE Shown[e]]
    BY <2>2
  <2> QED BY <2>1, <2>2, <2>3
<1>6. /\ verdict # "killed"
      /\ Shown[d] = {"undecided"} /\ Shown'[d] # {"undecided"}
      /\ { e \in Days : Shown[e] # {"undecided"} } = {} \/ (d \in DueDays /\ ckpt.settled = d - 1)
      /\ \E o \in Sheets : Shown' = [Shown EXCEPT ![d] = o]
      /\ ckpt'.settled = ckpt.settled /\ verdict' = verdict
  BY <1>1, <1>2, <1>3, <1>4, <1>5
<1> QED BY <1>6
        DEF Account!ADecide, Account!DecidedDays, Account!AbstractDays, Account!Undecided,
            Shown, Days

\* A book is one research replay stretched over the calendar: each of its steps,
\* a crash and the run after it included, is a step of PaperAccount or one a reader
\* of the account does not see (PaperEngine.run_day).
THEOREM BookImplements == Spec => Implements
<1>1. Init => Account!AInit
  <2> SUFFICES ASSUME Init PROVE Account!AInit
    OBVIOUS
  <2>1. ckpt.decided = [d \in Days |-> "no"] /\ ckpt.settled = 0 /\ verdict = "observing"
    BY DEF Init, NewState
  <2>2. Shown = [d \in Days |-> {"undecided"}]
    BY <2>1 DEF Shown
  <2> QED BY <2>1, <2>2
          DEF Account!AInit, Account!AbstractDays, Account!Undecided, Shown, Days
<1>2. BookInv /\ [Next]_vars => [Account!ANext]_(Account!avars)
  <2> SUFFICES ASSUME BookInv, [Next]_vars PROVE [Account!ANext]_(Account!avars)
    OBVIOUS
  <2>1. ASSUME NEW d \in Days, Account!ADecide(d) \/ Account!ASettle(d)
        PROVE  Account!ANext
    BY <2>1 DEF Account!ANext, Account!AbstractDays, Days
  <2>2. ASSUME Settle, NEW d, NEW a, NEW l, NEW w, NEW q, SettledAs(d, a, l, w, q)
        PROVE  Account!ANext
    <3>1. d \in Days
      BY <2>2 DEF SettledAs
    <3> QED BY <2>1, <2>2, <3>1, ShowsSettlement
  <2>3. ASSUME Commit, NEW d, NEW orders, NEW w, NEW q, DecidedAs(d, orders, w, q)
        PROVE  Account!ANext
    <3>1. d \in Days
      BY <2>3 DEF DecidedAs
    <3> QED BY <2>1, <2>3, <3>1, ShowsDecision
  <2>4. CASE Steady
    <3>1. Shown' = Shown /\ ckpt'.settled = ckpt.settled
      BY <2>4, ShownIs DEF Steady, SameBook, SheetOf
    <3>2. CASE verdict' = verdict
      BY <3>1, <3>2 DEF Account!avars, Shown
    <3>3. CASE verdict' # verdict
      <4>1. /\ verdict = "observing" /\ ckpt.settled > 0
            /\ verdict' \in {"confirmed", "killed"}
        BY <3>3, JudgesOn
      <4>2. Account!AVerdict
        BY <3>1, <4>1 DEF Account!AVerdict, Shown
      <4> QED BY <4>2 DEF Account!ANext
    <3> QED BY <3>2, <3>3
  <2> QED BY <2>2, <2>3, <2>4, StepCases DEF BookInv
<1> QED BY <1>1, <1>2, BookKept, PTL DEF Spec, Implements, Account!ASpec
================================================================================
