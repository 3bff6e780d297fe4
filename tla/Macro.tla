------------------------------- MODULE Macro -------------------------------
(***************************************************************************)
(* Correlation, beta and volatility of symbols (server/api/macroRoutes.js) *)
(* over the candles of one or more datasets, which are read one after the  *)
(* other while downloads and deletes go on.  A dataset is what its row     *)
(* says and the candles of its file; a candle's day is 0, or its close 0,  *)
(* where it does not parse.  Closes are powers of two up to ReturnScale,   *)
(* the unit in which returns are exact.                                    *)
(***************************************************************************)
EXTENDS Integers, Sequences, FiniteSets, FiniteSetsExt, Functions, Filter

CONSTANTS
  MacroIds,      \* ids of datasets
  Contents,      \* what a dataset may be: its label, timeframe and candles
  NoContent,
  Queries,       \* requests: kind, ids, symbols wanted, and the symbols that
                 \* go with a list of ids (none with a single id)
  MacroSymbols, NoSymbol,
  ReturnScale

MacroCandle == [symbol : MacroSymbols, day : Nat, close : Nat]

ASSUME MacroAssumption ==
  /\ ReturnScale \in Nat \ {0} /\ NoContent \notin Contents
  /\ \A c \in Contents : c.candles \in Seq(MacroCandle) /\ c.label \in MacroSymbols \cup {NoSymbol}
  /\ \A q \in Queries :
       /\ q.wanted \in Seq(MacroSymbols) /\ q.order \in Seq(MacroSymbols \cup {NoSymbol})
       /\ q.ids \in Seq(MacroIds)

VARIABLES
  stored,   \* the content of each dataset
  query     \* the request: what is left to read, and what was read or answered

macroVars == <<stored, query>>

----------------------------------------------------------------------------
(* Returns. *)

Usable(c) == c.day # 0 /\ c.close > 0

\* Mutant: the rows are taken as they come.
ByDayAsRead(rows) == rows

(* By day; where days are equal, as they were read. *)
NotAfter(rows, i) == {j \in DOMAIN rows : rows[j].day < rows[i].day \/ (rows[j].day = rows[i].day /\ j <= i)}
ByDay(rows) ==
  [k \in DOMAIN rows |-> rows[CHOOSE i \in DOMAIN rows : Cardinality(NotAfter(rows, i)) = k]]

Return(prev, next) == ((next - prev) * ReturnScale) \div prev

CandlesOf(candles, s) == {c \in Range(candles) : c.symbol = s}
UsableOf(candles, s) == {c \in CandlesOf(candles, s) : Usable(c)}

(* The return of a day is that of its last row over the row before it. *)
Returns(candles, s) ==
  LET rows == ByDay(Filtered(candles, UsableOf(candles, s)))
      LastOf(d) == Max({i \in 2 .. Len(rows) : rows[i].day = d})
  IN [d \in {rows[i].day : i \in 2 .. Len(rows)} |-> Return(rows[LastOf(d) - 1].close, rows[LastOf(d)].close)]

Missing(candles, symbols) == {s \in Range(symbols) : Returns(candles, s) = << >>}

(* Days on which both have a return. *)
Aligned(a, b) == DOMAIN a \cap DOMAIN b

(* Covariance of f and g over the days, times their number squared. *)
Covariance(f, g, days) ==
  Cardinality(days) * MapThenSumSet(LAMBDA d : f[d] * g[d], days)
    - MapThenSumSet(LAMBDA d : f[d], days) * MapThenSumSet(LAMBDA d : g[d], days)

Uncorrelated == [cov |-> 0, a |-> 0, b |-> 0]

(* A correlation stands for cov / sqrt(a * b); it is null when that is 0/0. *)
Correlation(f, g) ==
  LET days == Aligned(f, g)
      varA == Covariance(f, f, days)
      varB == Covariance(g, g, days)
  IN IF Cardinality(days) < 2 \/ varA * varB = 0 THEN Uncorrelated
     ELSE [cov |-> Covariance(f, g, days), a |-> varA, b |-> varB]

(* Beta is null when the benchmark does not move, r2 when either does not. *)
HasBeta(asset, benchmark) == Correlation(asset, benchmark) # Uncorrelated

(* What the answer blames when days are wanting. *)
RootCause(candles, symbols) ==
  LET common == {d \in UNION {DOMAIN Returns(candles, s) : s \in Range(symbols)} :
                   \A s \in Range(symbols) : d \in DOMAIN Returns(candles, s)}
  IN CASE \E s \in Range(symbols) : CandlesOf(candles, s) = {} -> "dataset_file_missing"
       [] \E s \in Range(symbols) : UsableOf(candles, s) = {} -> "not_parsed"
       [] common = {} -> "no_overlap"
       [] OTHER -> "different_date_keys"

----------------------------------------------------------------------------
(* Answers. *)

Told(status, candles, reason) ==
  [status |-> status, candles |-> candles, reason |-> reason]

(* The first two symbols decide whether there is enough in common. *)
Enough(kind, candles, wanted) ==
  LET R(i) == Returns(candles, wanted[i]) IN
  CASE kind = "correlation" -> Len(wanted) >= 2 /\ Cardinality(Aligned(R(1), R(2))) >= 2
    [] kind = "beta" -> HasBeta(R(1), R(Len(wanted)))
    [] OTHER -> \A i \in DOMAIN wanted : Cardinality(DOMAIN R(i)) >= 2

Answer(q, candles) ==
  LET cause == IF q.kind = "volatility" THEN "none" ELSE RootCause(candles, q.wanted) IN
  IF Missing(candles, q.wanted) # {} THEN Told("missing_symbols", candles, cause)
  ELSE IF Enough(q.kind, candles, q.wanted) THEN Told("ready", candles, "none")
  ELSE Told("not_enough_data", candles, cause)

----------------------------------------------------------------------------
(* Loading. *)

NoQuery == [phase |-> "none"]

MacroInit == stored \in [MacroIds -> Contents \cup {NoContent}] /\ query = NoQuery

(* Downloads and deletes. *)
DatasetChanges(id, content) ==
  /\ stored[id] # content
  /\ stored' = [stored EXCEPT ![id] = content]
  /\ UNCHANGED query

Reading(q, phase, pending, candles) ==
  [phase |-> phase, kind |-> q.kind, wanted |-> q.wanted, order |-> q.order, ids |-> q.ids,
   pending |-> pending, candles |-> candles]

Ask(q) ==
  /\ query.phase \in {"none", "answered"}
  /\ query' = IF q.ids = <<>> THEN [phase |-> "answered", kind |-> q.kind, wanted |-> q.wanted,
                                    answer |-> Told("not_enough_data", <<>>, "none")]
              ELSE Reading(q, IF Len(q.ids) = 1 /\ q.order = <<>> THEN "primary" ELSE "listed", q.ids, <<>>)
  /\ UNCHANGED stored

Answered(answer) ==
  query' = [phase |-> "answered", kind |-> query.kind, wanted |-> query.wanted, answer |-> answer]

Listed(i) == IF i \in DOMAIN query.order THEN query.order[i] ELSE stored[query.ids[i]].label

(* Of the datasets that are named, a candle of a symbol nobody asked for   *)
(* counts as one of the symbol at the dataset's place.                     *)
Patched(i) ==
  [k \in DOMAIN stored[query.ids[i]].candles |->
    LET c == stored[query.ids[i]].candles[k] IN
    IF c.symbol \in Range(query.wanted) \/ Listed(i) = NoSymbol THEN c ELSE [c EXCEPT !.symbol = Listed(i)]]

(* One that cannot be read is passed over. *)
ReadListed ==
  /\ query.phase = "listed"
  /\ LET i == Len(query.ids) - Len(query.pending) + 1
         candles == query.candles \o IF stored[query.ids[i]] = NoContent THEN <<>> ELSE Patched(i)
     IN IF Len(query.pending) > 1
        THEN query' = [query EXCEPT !.pending = Tail(@), !.candles = candles]
        ELSE Answered(IF candles = <<>> THEN Told("dataset_not_found", <<>>, "none") ELSE Answer(query, candles))
  /\ UNCHANGED stored

(* The dataset with the most candles that names the symbol. *)
Compatible(s, timeframe) ==
  {id \in MacroIds : stored[id] # NoContent /\ stored[id].label = s /\ stored[id].timeframe = timeframe}
Best(s, timeframe, id) ==
  /\ id \in Compatible(s, timeframe)
  /\ \A other \in Compatible(s, timeframe) : Len(stored[other].candles) <= Len(stored[id].candles)

(* What the one dataset lacks is looked for in the registry. *)
ReadPrimary ==
  /\ query.phase = "primary"
  /\ LET content == stored[query.ids[1]] IN
       IF content = NoContent THEN Answered(Told("dataset_not_found", <<>>, "none"))
       ELSE LET lacking == {s \in Missing(content.candles, query.wanted) : Compatible(s, content.timeframe) # {}} IN
            IF lacking = {} \/ query.kind = "volatility" THEN Answered(Answer(query, content.candles))
            ELSE \E found \in [lacking -> MacroIds] :
                   LET names == Filtered(query.wanted, lacking) IN
                   /\ \A s \in lacking : Best(s, content.timeframe, found[s])
                   /\ query' = Reading(query, "found", [i \in DOMAIN names |-> <<found[names[i]], names[i]>>],
                                       content.candles)
  /\ UNCHANGED stored

(* Of a dataset that was found, the candles of the symbol. *)
ReadFound ==
  /\ query.phase = "found"
  /\ LET next == Head(query.pending)
         candles == query.candles \o IF stored[next[1]] = NoContent THEN <<>>
                                     ELSE Filtered(stored[next[1]].candles, CandlesOf(stored[next[1]].candles, next[2]))
     IN IF Len(query.pending) > 1
        THEN query' = [query EXCEPT !.pending = Tail(@), !.candles = candles]
        ELSE Answered(Answer(query, candles))
  /\ UNCHANGED stored

MacroNext ==
  \/ \E id \in MacroIds, content \in Contents \cup {NoContent} : DatasetChanges(id, content)
  \/ \E q \in Queries : Ask(q)
  \/ ReadListed \/ ReadPrimary \/ ReadFound

MacroSpec == MacroInit /\ [][MacroNext]_macroVars

----------------------------------------------------------------------------
(* Properties *)

MacroTypeOK ==
  /\ stored \in [MacroIds -> Contents \cup {NoContent}]
  /\ query.phase \in {"none", "listed", "primary", "found", "answered"}
  /\ query.phase = "answered" =>
       query.answer.status \in {"ready", "missing_symbols", "not_enough_data", "dataset_not_found"}

(* The return of each day over the last day before it that has a candle. *)
DailyReturns(candles, s) ==
  LET rows == UsableOf(candles, s)
      days == {c.day : c \in rows}
      Close(d) == (CHOOSE c \in rows : c.day = d).close
      Before(d) == Max({e \in days : e < d})
  IN [d \in {e \in days : e # Min(days)} |-> Return(Close(Before(d)), Close(d))]

OneADay(candles, s) ==
  \A i, j \in DOMAIN candles :
    (/\ candles[i].symbol = s /\ candles[j].symbol = s /\ candles[i].day = candles[j].day
     /\ Usable(candles[i]) /\ Usable(candles[j])) => i = j

(* Where no day has two candles of a symbol, the returns of a ready answer *)
(* are those from one day to the next that has a candle, in whatever order *)
(* datasets were read and their candles stored, and though they changed    *)
(* while they were read (groupedReturns, resolveAndLoadCandles).           *)
ReturnsFollowDays ==
  query.phase = "answered" /\ query.answer.status = "ready" =>
    \A s \in Range(query.wanted) :
      OneADay(query.answer.candles, s) => Returns(query.answer.candles, s) = DailyReturns(query.answer.candles, s)
=============================================================================
