----------------------------- MODULE Portfolio -----------------------------
(***************************************************************************)
(* The money of the paper account (server/paperTrading/paperTradingEngine, *)
(* riskGuard, models) and what the portfolio engine tells of it            *)
(* (server/portfolio/portfolioEngine.js).  Money is counted in the unit to *)
(* which the engine rounds, so an average price is rounded here as there.  *)
(* A summary awaits a price for each position, and reads the position when *)
(* the price has come; fills and resets go on meanwhile.                   *)
(***************************************************************************)
EXTENDS Integers, Sequences, FiniteSets, FiniteSetsExt, Functions

CONSTANTS
  BookSymbols,
  BookOrders,                               \* the orders that arrive: side, quantity, price
  BookPrices,                               \* prices on the market
  OrderLimit, PositionLimit, LossLimit,     \* of the risk guard
  MaxPaperFills, MaxDays,
  MaxCrossings                              \* bounds; the last, of fills and resets during a summary

(* No route checks what arrives: "short" stands for the sides that are     *)
(* neither, quantities and prices may be negative or zero.                 *)
BookSides == {"buy", "sell", "short"}
BookOrder == [side : BookSides, quantity : Int, price : Int]

ASSUME BookAssumption ==
  /\ IsFiniteSet(BookSymbols) /\ BookOrders \subseteq BookOrder /\ BookPrices \subseteq Int
  /\ OrderLimit \in Nat /\ PositionLimit \in Nat /\ LossLimit \in Nat \ {0}
  /\ MaxPaperFills \in Nat /\ MaxDays \in Nat \ {0}

VARIABLES
  book,      \* each position: quantity, average and market price, realized profit
  paperFills,
  today,
  summary    \* the summary under way, and then its answer

bookVars == <<book, paperFills, today, summary>>

Flat == [quantity |-> 0, average |-> 0, market |-> 0, realized |-> 0]
NoSummary == [at |-> "none"]

Size(n) == IF n < 0 THEN -n ELSE n

BookInit ==
  /\ book = [s \in BookSymbols |-> Flat] /\ paperFills = <<>> /\ today = 1
  /\ summary = NoSummary

----------------------------------------------------------------------------
(* Fills. *)

(* The nearest whole number to n / d, halves away from zero. *)
Rounded(n, d) ==
  LET m == (2 * Size(n) + Size(d)) \div (2 * Size(d)) IN IF (n < 0) = (d < 0) THEN m ELSE -m

\* Mutant: the mean of the two prices, whatever their quantities.
AverageOfTwo(p, q, price) ==
  IF p.quantity + q = 0 THEN 0 ELSE IF p.quantity = 0 THEN price ELSE Rounded(p.average + price, 2)

(* The average price once q more are bought, also of what was sold short.  *)
AverageBought(p, q, price) ==
  IF p.quantity + q = 0 THEN 0 ELSE Rounded(p.average * p.quantity + price * q, p.quantity + q)

(* What is not bought is sold; what is sold beyond the position earns      *)
(* nothing.                                                                *)
Filled(p, side, q, price) ==
  IF side = "buy"
  THEN [p EXCEPT !.quantity = @ + q, !.average = AverageBought(p, q, price), !.market = price]
  ELSE [p EXCEPT !.quantity = @ - q, !.market = price,
                 !.realized = @ + (price - p.average) * Min({Size(p.quantity), q}),
                 !.average = IF p.quantity = q THEN 0 ELSE @]

TotalRealized == SumFunction([s \in BookSymbols |-> book[s].realized])

(* The loss is that since the account was reset, whatever the day. *)
CheckOrder(s, side, q) ==
  LET projected == IF side = "buy" THEN book[s].quantity + q ELSE book[s].quantity - q IN
  /\ q > 0 /\ q <= OrderLimit
  /\ side = "sell" => book[s].quantity >= q
  /\ Size(projected) <= PositionLimit
  /\ -TotalRealized < LossLimit

(* A summary under way sees the fill in the positions it has yet to read. *)
Crossed == IF summary.at = "pricing" THEN [summary EXCEPT !.crossed = @ + 1] ELSE summary

PlacePaperOrder(s, side, q, price) ==
  /\ CheckOrder(s, side, q)
  /\ book' = [book EXCEPT ![s] = Filled(@, side, q, price)]
  /\ paperFills' = Append(paperFills, [symbol |-> s, side |-> side, quantity |-> q, price |-> price, day |-> today])
  /\ summary' = Crossed
  /\ UNCHANGED today

(* Closing sells all there is, through the same guard: none once the loss  *)
(* limit is met.                                                           *)
ClosePaperPosition(s, price) ==
  /\ book[s].quantity # 0
  /\ PlacePaperOrder(s, IF book[s].quantity > 0 THEN "sell" ELSE "buy", Size(book[s].quantity), price)

(* A summary under way goes on with the positions of the old account. *)
ResetAccount ==
  /\ book' = [s \in BookSymbols |-> Flat] /\ paperFills' = <<>>
  /\ summary' = IF summary.at = "pricing" /\ summary.old = <<>>
                THEN [Crossed EXCEPT !.old = <<book>>] ELSE Crossed
  /\ UNCHANGED today

NextDay == today < MaxDays /\ today' = today + 1 /\ UNCHANGED <<book, paperFills, summary>>

----------------------------------------------------------------------------
(* What is told. *)

Flow(fill) == (IF fill.side = "buy" THEN -1 ELSE 1) * fill.quantity * fill.price

(* "Equity" after each fill: the cash, without the positions it bought. *)
EquityCurve(fs) == [i \in DOMAIN fs |-> SumFunction([k \in 1 .. i |-> Flow(fs[k])])]

MaxDrawdown(fs) ==
  LET curve == EquityCurve(fs)
      Peak(i) == Max({curve[k] : k \in 1 .. i})
  IN Max({0} \cup {Peak(i) - curve[i] : i \in {k \in DOMAIN fs : Peak(k) > 0}})

(* Days with fills.  With fewer than two, or no position, the value at     *)
(* risk is 0; else it is from the mean and the deviation of their flows.   *)
DailyFlow(fill) == (IF fill.side = "sell" THEN 1 ELSE -1) * fill.quantity * fill.price
Daily(fs, day) == SumFunction([i \in {k \in DOMAIN fs : fs[k].day = day} |-> DailyFlow(fs[i])])
ValueAtRisk(fs, exposure) ==
  LET days == {fs[i].day : i \in DOMAIN fs}
      total == SumFunction([d \in days |-> Daily(fs, d)])
  IN IF exposure = 0 \/ Cardinality(days) < 2 THEN [days |-> Cardinality(days), variance |-> 0, total |-> 0]
     ELSE [days |-> Cardinality(days), total |-> total,
           variance |-> Cardinality(days) * SumFunction([d \in days |-> Daily(fs, d) * Daily(fs, d)]) - total * total]

Exposure(rows, sign) ==
  SumFunction([s \in {t \in DOMAIN rows : rows[t].quantity * sign > 0} |-> rows[s].market * Size(rows[s].quantity)])

(* What a scenario does to the positions, in the parts the shock is in.    *)
StressImpact(rows, shock) == SumFunction([s \in DOMAIN rows |-> rows[s].market * shock * rows[s].quantity])

Unrealized(row) == (row.market - row.average) * row.quantity

GetSummary ==
  /\ summary = NoSummary
  /\ summary' = [at |-> "pricing", rows |-> <<>>, old |-> <<>>, crossed |-> 0, fills |-> paperFills]
  /\ UNCHANGED <<book, paperFills, today>>

(* The price of a position has come, from the feeds or not at all: then it *)
(* is the price of its last fill.                                          *)
Priced(s, price) ==
  /\ summary.at = "pricing" /\ s \notin DOMAIN summary.rows
  /\ LET p == IF summary.old = <<>> THEN book[s] ELSE summary.old[1][s]
         row == [quantity |-> p.quantity, average |-> p.average, market |-> IF price = 0 THEN p.market ELSE price]
     IN summary' = [summary EXCEPT !.rows = [t \in DOMAIN @ \cup {s} |-> IF t = s THEN row ELSE @[t]]]
  /\ UNCHANGED <<book, paperFills, today>>

(* The realized profit is read once all prices have come. *)
Summed ==
  /\ summary.at = "pricing" /\ DOMAIN summary.rows = BookSymbols
  /\ LET rows == summary.rows
         long == Exposure(rows, 1)
         short == Exposure(rows, -1)
     IN summary' = [at |-> "told", crossed |-> summary.crossed, rows |-> rows, fills |-> paperFills,
                    gross |-> long + short, net |-> long - short, realized |-> TotalRealized,
                    total |-> TotalRealized + SumFunction([s \in BookSymbols |-> Unrealized(rows[s])]),
                    drawdown |-> MaxDrawdown(paperFills), risk |-> ValueAtRisk(summary.fills, long + short),
                    impact |-> StressImpact(rows, -1)]
  /\ UNCHANGED <<book, paperFills, today>>

Trade ==
  \/ \E s \in BookSymbols, o \in BookOrders : PlacePaperOrder(s, o.side, o.quantity, o.price)
  \/ \E s \in BookSymbols, price \in BookPrices : ClosePaperPosition(s, price)

(* An answer changes nothing; it is kept until something else happens. *)
SummarySent == summary.at = "told" /\ summary' = NoSummary /\ UNCHANGED <<book, paperFills, today>>

BookRequest ==
  \/ Trade /\ Len(paperFills') <= MaxPaperFills
  \/ \E s \in BookSymbols, price \in BookPrices \cup {0} : Priced(s, price)
  \/ ResetAccount \/ NextDay \/ GetSummary \/ Summed

CrossedInTime == summary'.at = "pricing" => summary'.crossed <= MaxCrossings

BookNext == (summary.at # "told" /\ BookRequest /\ CrossedInTime) \/ SummarySent

BookSpec == BookInit /\ [][BookNext]_bookVars

----------------------------------------------------------------------------
(* Properties *)

BookTypeOK ==
  /\ \A s \in BookSymbols : Size(book[s].quantity) <= PositionLimit /\ book[s].average \in Int
  /\ Len(paperFills) <= MaxPaperFills /\ today \in 1 .. MaxDays
  /\ summary.at \in {"none", "pricing", "told"}

Plain(fs) == \A i \in DOMAIN fs : fs[i].side \in {"buy", "sell"}

(* A summary that no fill and no reset has crossed adds up as long as      *)
(* every fill was a purchase or a sale: realized and unrealized profit     *)
(* together are the cash that came in, less the cash that went out, and    *)
(* what the positions are worth at the prices told, but for half a unit a  *)
(* share at each purchase (applyFillToPosition, getPositionsWithPnL,       *)
(* getSummary).                                                            *)
SummaryAddsUp ==
  summary.at = "told" /\ summary.crossed = 0 /\ Plain(summary.fills) =>
    LET fs == summary.fills
        cash == SumFunction([i \in DOMAIN fs |-> Flow(fs[i])])
        worth == SumFunction([s \in BookSymbols |-> summary.rows[s].market * summary.rows[s].quantity])
    IN 2 * Size(summary.total - (cash + worth)) <= PositionLimit * Len(fs)
=============================================================================
