----------------------------- MODULE DeskProofs -----------------------------
(***************************************************************************)
(* For any alerts, market, cycles and bounds: a trigger keeps the next one *)
(* away for its cooldown, and every crossing reported had a move of the    *)
(* market of its own (Alerts); a condition passes only on data that its    *)
(* source held (RuleEngine); a summary that nothing crossed adds up        *)
(* (Portfolio); returns are those from one day to the next (Macro); and    *)
(* the types of the desk as a whole, one component in motion (MCDesk).     *)
(***************************************************************************)
EXTENDS MCDesk, ExecutionProofs, ListProofs, FunctionTheorems, SequenceTheorems, TLAPS

----------------------------------------------------------------------------
(* Alerts                                                                  *)

Values == Int \cup {NoValue}

AlertObject == [id : 1 .. MaxObjects, symbol : AlertSymbols, rule : AlertObjects,
                enabled : BOOLEAN, last : Nat \cup {NoValue}]

AlertRow == [object : Nat \ {0}, at : Nat, marked : BOOLEAN]

CycleState == [left : SUBSET Nat, group : SUBSET Nat, at : {"tick", "data", "alerts"},
               symbol : AlertSymbols \cup {NoValue}, price : Values,
               now : [Fields -> Values] \cup {NoValue}, before : [Kept -> Values]]

StoreTyped ==
  /\ objects \in Seq(AlertObject) /\ Len(objects) <= MaxObjects
  /\ \A i \in DOMAIN objects : objects[i].last # NoValue => objects[i].last <= clock
  /\ \A a \in DOMAIN table : table[a] \in DOMAIN objects /\ objects[table[a]].id = a

HistoryTyped ==
  /\ history \in Seq(AlertRow) /\ Len(history) <= MaxHistory
  /\ \A k \in DOMAIN history : history[k].object \in DOMAIN objects /\ history[k].at <= clock

(* A cycle that has looked at a symbol has alerts of it left; once it      *)
(* evaluates them it knows all the fields.                                 *)
CycleTyped(y) ==
  /\ cycle[y].left \subseteq DOMAIN objects
  /\ cycle[y].group \subseteq {i \in DOMAIN objects : objects[i].symbol = cycle[y].symbol}
  /\ cycle[y].at # "tick" => cycle[y].left # {} /\ cycle[y].symbol \in AlertSymbols
  /\ cycle[y].at = "alerts" => cycle[y].now \in [Fields -> Values]

WorldTyped ==
  /\ clock \in 0 .. MaxTime /\ market \in [AlertSymbols -> MarketData]
  /\ moves \in [AlertSymbols -> 0 .. MaxMoves] /\ overlapped \in BOOLEAN

AlertTyped ==
  /\ StoreTyped /\ HistoryTyped /\ WorldTyped
  /\ previous \in [AlertSymbols -> [Kept -> Values]]
  /\ cycle \in [Cycles -> CycleState] /\ \A y \in Cycles : CycleTyped(y)

(* How often an alert is in the history.                                   *)
Entries(i) == Cardinality({k \in DOMAIN history : history[k].object = i})

Crossing(s) == {i \in DOMAIN objects : objects[i].symbol = s /\ objects[i].rule.type = "price_cross"}

(* What a pair of known prices needs at least: one move, if they differ.   *)
Changed(p, q) == IF NoValue \notin {p, q} /\ p # q THEN 1 ELSE 0

Looks(y) == cycle[y].at # "tick"

Sighted(y) == IF cycle[y].at = "data" THEN cycle[y].price ELSE cycle[y].now["price"]

(* From what a symbol's last evaluation saw to what the cycle sees, and on *)
(* to the market.                                                          *)
Due(y) == Changed(previous[cycle[y].symbol]["price"], Sighted(y))
Beyond(y) == Changed(Sighted(y), market[cycle[y].symbol]["price"])

Waits(y, i) == cycle[y].at = "data" \/ i \in cycle[y].group

(* Entries in the history and crossings still to be found are covered by   *)
(* the moves there have been: of a symbol no cycle looks at ...            *)
RestCovered(s) ==
  LET ahead == Changed(previous[s]["price"], market[s]["price"])
  IN ahead <= moves[s] /\ \A i \in Crossing(s) : Entries(i) + ahead <= moves[s]

(* ... and of the one a cycle looks at.                                    *)
LookCovered(y) ==
  LET s == cycle[y].symbol
  IN /\ Due(y) + Beyond(y) <= moves[s]
     /\ \A i \in Crossing(s) : /\ Entries(i) + Beyond(y) <= moves[s]
                               /\ Waits(y, i) => Entries(i) + Due(y) + Beyond(y) <= moves[s]

MovesCover ==
  /\ \A y, z \in UnderWay : y = z
  /\ \A y \in Cycles : cycle[y].at = "alerts" => cycle[y].before = previous[cycle[y].symbol]
  /\ \A s \in AlertSymbols : (\A y \in Cycles : Looks(y) => cycle[y].symbol # s) => RestCovered(s)
  /\ \A y \in Cycles : Looks(y) => LookCovered(y)

AlertInv == AlertTyped /\ TriggersKept /\ (~overlapped => MovesCover)
LEMMA AlertTypes ==
  ASSUME AlertTyped
  PROVE  /\ clock \in Nat /\ MaxTime \in Nat /\ MaxObjects \in Nat /\ Len(objects) \in Nat
         /\ DOMAIN objects = 1 .. Len(objects) /\ DOMAIN history = 1 .. Len(history) /\ Len(history) \in Nat
         /\ \A i \in DOMAIN objects : objects[i] \in AlertObject
         /\ \A k \in DOMAIN history : history[k] \in AlertRow /\ history[k].at <= clock /\ history[k].object \in DOMAIN objects
<1>1. objects \in Seq(AlertObject) /\ history \in Seq(AlertRow) /\ clock \in 0 .. MaxTime
  BY DEF AlertTyped, StoreTyped, HistoryTyped, WorldTyped
<1>2. \A i \in DOMAIN objects : objects[i] \in AlertObject
  BY <1>1
<1>3. \A k \in DOMAIN history : history[k] \in AlertRow
  BY <1>1
<1>4. \A k \in DOMAIN history : history[k].at <= clock /\ history[k].object \in DOMAIN objects
  BY DEF AlertTyped, HistoryTyped
<1>5. clock \in Nat /\ MaxTime \in Nat /\ MaxObjects \in Nat
  BY <1>1, BoundAssumption
<1>6. Len(objects) \in Nat /\ DOMAIN objects = 1 .. Len(objects) /\ DOMAIN history = 1 .. Len(history) /\ Len(history) \in Nat
  BY <1>1
<1>. QED
  BY <1>2, <1>3, <1>4, <1>5, <1>6

(* An object is stored under its id, at the end.                           *)
LEMMA PutTyped ==
  ASSUME AlertTyped, NEW o \in AlertObject, o.last # NoValue => o.last <= clock, Put(o)
  PROVE  AlertTyped'
<1>1. /\ objects \in Seq(AlertObject) /\ Len(objects) < MaxObjects /\ objects' = Append(objects, o)
      /\ table' = [x \in DOMAIN table \cup {o.id} |-> IF x = o.id THEN Len(objects) + 1 ELSE table[x]]
      /\ UNCHANGED <<history, previous, cycle, clock, market, moves, overlapped>>
  BY DEF AlertTyped, StoreTyped, Put, world
<1>2. /\ objects' \in Seq(AlertObject) /\ Len(objects') = Len(objects) + 1 /\ Len(objects) \in Nat
      /\ DOMAIN objects = 1 .. Len(objects) /\ DOMAIN objects' = 1 .. Len(objects) + 1
      /\ objects'[Len(objects) + 1] = o /\ \A i \in DOMAIN objects : objects'[i] = objects[i]
  BY <1>1
<1>3. \A i \in DOMAIN objects' : objects'[i] = o \/ (i \in DOMAIN objects /\ objects'[i] = objects[i])
  BY <1>2
<1>4. StoreTyped'
  <2>1. \A i \in DOMAIN objects' : objects'[i].last # NoValue => objects'[i].last <= clock
    BY <1>3 DEF AlertTyped, StoreTyped
  <2>2. \A a \in DOMAIN table' : table'[a] \in DOMAIN objects' /\ objects'[table'[a]].id = a
    <3>. SUFFICES ASSUME NEW a \in DOMAIN table' PROVE table'[a] \in DOMAIN objects' /\ objects'[table'[a]].id = a
      OBVIOUS
    <3>1. CASE a = o.id
      BY <1>1, <1>2, <3>1
    <3>2. CASE a # o.id
      <4>1. a \in DOMAIN table /\ table'[a] = table[a]
        BY <1>1, <3>2
      <4>2. table[a] \in DOMAIN objects /\ objects[table[a]].id = a
        BY <4>1 DEF AlertTyped, StoreTyped
      <4>. QED
        BY <1>2, <4>1, <4>2
    <3>. QED
      BY <3>1, <3>2
  <2>3. Len(objects') <= MaxObjects
    BY <1>1, <1>2, BoundAssumption
  <2>. QED
    BY <1>1, <1>2, <2>1, <2>2, <2>3 DEF StoreTyped
<1>5. HistoryTyped'
  BY <1>1, <1>2 DEF AlertTyped, HistoryTyped
<1>6. ASSUME NEW y \in Cycles PROVE CycleTyped(y)'
  BY <1>1, <1>2 DEF AlertTyped, CycleTyped
<1>. QED
  BY <1>1, <1>4, <1>5, <1>6 DEF AlertTyped, WorldTyped

LEMMA CreateTyped ==
  ASSUME AlertTyped, NEW s \in AlertSymbols, NEW rule \in AlertObjects, Create(s, rule)
  PROVE  AlertTyped'
<1>. DEFINE o == [id |-> Cardinality(Used) + 1, symbol |-> s, rule |-> rule, enabled |-> TRUE, last |-> NoValue]
            f == [i \in DOMAIN objects |-> objects[i].id]
<1>1. Put(o) /\ Len(objects) < MaxObjects
  BY DEF Create, Put
<1>2. DOMAIN objects = 1 .. Len(objects) /\ Len(objects) \in Nat /\ MaxObjects \in Nat
  BY AlertTypes
<1>3. IsFiniteSet(DOMAIN objects) /\ Cardinality(DOMAIN objects) = Len(objects)
  <2>1. \A n \in Nat : IsFiniteSet(1 .. n) /\ Cardinality(1 .. n) = n
    BY FS_Interval
  <2>. QED
    BY <1>2, <2>1
<1>4. f \in Surjection(DOMAIN objects, Used)
  BY DEF Surjection, Used
<1>. HIDE DEF f
<1>5. IsFiniteSet(Used) /\ Cardinality(Used) <= Cardinality(DOMAIN objects)
  BY <1>3, <1>4, FS_Surjection
<1>6. Cardinality(Used) + 1 \in 1 .. MaxObjects
  BY <1>1, <1>2, <1>3, <1>5, FS_CardinalityType
<1>7. o \in AlertObject /\ o.last = NoValue
  BY <1>6 DEF AlertObject
<1>. HIDE DEF o
<1>. QED
  BY <1>1, <1>7, PutTyped

LEMMA UpdateTyped ==
  ASSUME AlertTyped, NEW a \in DOMAIN table, Update(a)
  PROVE  AlertTyped'
<1>1. table[a] \in DOMAIN objects
  BY DEF AlertTyped, StoreTyped
<1>. DEFINE old == objects[table[a]]
<1>2. old \in AlertObject /\ (old.last # NoValue => old.last <= clock)
  BY <1>1, AlertTypes DEF AlertTyped, StoreTyped
<1>3. PICK o \in Edits(old) : Put(o)
  BY DEF Update
<1>. HIDE DEF old
<1>4. o \in AlertObject /\ (o.last # NoValue => o.last <= clock)
  BY <1>2, <1>3 DEF Edits, AlertObject
<1>. QED
  BY <1>3, <1>4, PutTyped

LEMMA DeleteTyped ==
  ASSUME AlertTyped, NEW a \in DOMAIN table, Delete(a)
  PROVE  AlertTyped'
<1>1. /\ table' = [x \in DOMAIN table \ {a} |-> table[x]]
      /\ UNCHANGED <<objects, history, previous, cycle, clock, market, moves, overlapped>>
  BY DEF Delete, world
<1>2. StoreTyped'
  BY <1>1 DEF AlertTyped, StoreTyped
<1>. QED
  BY <1>1, <1>2 DEF AlertTyped, HistoryTyped, WorldTyped, CycleTyped

(* A step of one cycle that looks at it alone.                             *)
LEMMA CycleStepTyped ==
  ASSUME AlertTyped, UNCHANGED <<store, history, world>>, overlapped' \in BOOLEAN,
         previous' \in [AlertSymbols -> [Kept -> Values]],
         NEW y \in Cycles, NEW c \in CycleState, cycle' = [cycle EXCEPT ![y] = c],
         c.left \subseteq DOMAIN objects,
         c.group \subseteq {i \in DOMAIN objects : objects[i].symbol = c.symbol},
         c.at # "tick" => c.left # {} /\ c.symbol \in AlertSymbols,
         c.at = "alerts" => c.now \in [Fields -> Values]
  PROVE  AlertTyped'
<1>1. UNCHANGED <<objects, table, history, clock, market, moves>>
  BY DEF store, world
<1>2. cycle \in [Cycles -> CycleState]
  BY DEF AlertTyped
<1>3. cycle' \in [Cycles -> CycleState] /\ \A z \in Cycles : cycle'[z] = IF z = y THEN c ELSE cycle[z]
  BY <1>2
<1>4. ASSUME NEW z \in Cycles PROVE CycleTyped(z)'
  BY <1>1, <1>3 DEF AlertTyped, CycleTyped
<1>. QED
  BY <1>1, <1>3, <1>4 DEF AlertTyped, StoreTyped, HistoryTyped, WorldTyped

(* A cycle that is not under way looks at nothing; once started, nor does  *)
(* it yet.                                                                 *)
LEMMA StartDoes ==
  ASSUME AlertTyped, NEW y \in Cycles, StartCycle(y)
  PROVE  /\ AlertTyped' /\ UNCHANGED <<objects, history, previous, market, moves>>
         /\ ~Looks(y) /\ ~Looks(y)' /\ \A z \in Cycles : z # y => cycle'[z] = cycle[z]
<1>. DEFINE c == [cycle[y] EXCEPT !.left = Active]
<1>1. cycle \in [Cycles -> CycleState] /\ CycleTyped(y) /\ cycle[y] \in CycleState
  BY DEF AlertTyped
<1>2. cycle[y].left = {} /\ cycle' = [cycle EXCEPT ![y] = c] /\ UNCHANGED <<store, history, previous, world>>
  BY <1>1 DEF StartCycle, UnderWay
<1>3. cycle[y].at = "tick"
  BY <1>1, <1>2 DEF CycleTyped
<1>4. Active \subseteq DOMAIN objects /\ DOMAIN objects \subseteq Nat
  BY AlertTypes DEF Active, AlertTyped, StoreTyped
<1>5. /\ c \in CycleState /\ c.at = "tick" /\ c.left = Active /\ c.group = cycle[y].group
      /\ c.symbol = cycle[y].symbol
  BY <1>1, <1>3, <1>4 DEF CycleState
<1>. HIDE DEF c
<1>6. overlapped' \in BOOLEAN /\ previous' \in [AlertSymbols -> [Kept -> Values]]
  BY <1>2 DEF StartCycle, AlertTyped, WorldTyped
<1>7. c.group \subseteq {i \in DOMAIN objects : objects[i].symbol = c.symbol}
  BY <1>1, <1>5 DEF CycleTyped
<1>8. AlertTyped'
  BY <1>2, <1>4, <1>5, <1>6, <1>7, CycleStepTyped
<1>. QED
  BY <1>1, <1>2, <1>3, <1>5, <1>8 DEF Looks, store, world

(* The price of a symbol: the market's, or none.                           *)
LEMMA TickDoes ==
  ASSUME AlertTyped, NEW y \in Cycles, FetchTick(y)
  PROVE  /\ AlertTyped' /\ UNCHANGED <<objects, history, previous, market, moves, overlapped>>
         /\ cycle[y].left # {} /\ ~Looks(y) /\ \A z \in Cycles : z # y => cycle'[z] = cycle[z]
         /\ cycle'[y].at = "data" /\ cycle'[y].left = cycle[y].left /\ cycle'[y].symbol \in AlertSymbols
         /\ cycle'[y].price \in {NoValue, market[cycle'[y].symbol]["price"]}
<1>1. PICK i \in cycle[y].left, known \in BOOLEAN :
        cycle' = [cycle EXCEPT ![y] = [@ EXCEPT !.at = "data", !.symbol = objects[i].symbol,
                                 !.group = {k \in cycle[y].left : objects[k].symbol = objects[i].symbol},
                                 !.price = IF known THEN market[objects[i].symbol].price ELSE NoValue]]
  BY Zenon DEF FetchTick
<1>. DEFINE s == objects[i].symbol
            price == IF known THEN market[s]["price"] ELSE NoValue
            group == {k \in cycle[y].left : objects[k].symbol = s}
            c == [cycle[y] EXCEPT !.at = "data", !.symbol = s, !.group = group, !.price = price]
<1>2. /\ cycle \in [Cycles -> CycleState] /\ CycleTyped(y) /\ cycle[y] \in CycleState
      /\ UNCHANGED <<store, history, previous, world, overlapped>> /\ cycle[y].at = "tick"
  BY DEF AlertTyped, FetchTick
<1>3. i \in DOMAIN objects /\ cycle[y].left \subseteq DOMAIN objects /\ DOMAIN objects \subseteq Nat
  BY <1>2, AlertTypes DEF CycleTyped
<1>4. s \in AlertSymbols
  BY <1>3, AlertTypes DEF AlertObject
<1>5. price \in Values /\ price \in {NoValue, market[s]["price"]}
  <2>1. market[s] \in [Fields -> Values] /\ "price" \in Fields
    BY <1>4, MarketAssumption DEF AlertTyped, WorldTyped, Values, Fields
  <2>. QED
    BY <2>1 DEF Values
<1>6. group \in SUBSET Nat
  BY <1>3
<1>7. cycle' = [cycle EXCEPT ![y] = c]
  BY <1>1, <1>2
<1>. HIDE DEF s, price, group
<1>8. /\ c \in CycleState /\ c.at = "data" /\ c.left = cycle[y].left /\ c.group = group
      /\ c.symbol = s /\ c.price = price
  BY <1>2, <1>4, <1>5, <1>6 DEF CycleState
<1>. HIDE DEF c
<1>9. overlapped' \in BOOLEAN /\ previous' \in [AlertSymbols -> [Kept -> Values]]
  BY <1>2 DEF AlertTyped, WorldTyped
<1>10. c.group \subseteq {k \in DOMAIN objects : objects[k].symbol = c.symbol}
  BY <1>3, <1>8 DEF group
<1>11. UNCHANGED <<store, history, world>>
  BY <1>2
<1>12. AlertTyped'
  BY <1>3, <1>4, <1>7, <1>8, <1>9, <1>10, <1>11, CycleStepTyped
<1>. QED
  BY <1>2, <1>4, <1>5, <1>7, <1>8, <1>12 DEF Looks, store, world

(* The rest of the data, and what the last evaluation saw.                 *)
LEMMA DataDoes ==
  ASSUME AlertTyped, NEW y \in Cycles, FetchData(y)
  PROVE  /\ AlertTyped' /\ UNCHANGED <<objects, history, previous, market, moves, overlapped>>
         /\ \A z \in Cycles : z # y => cycle'[z] = cycle[z]
         /\ cycle[y].at = "data" /\ cycle'[y].at = "alerts" /\ cycle'[y].left = cycle[y].left
         /\ cycle'[y].symbol = cycle[y].symbol /\ cycle'[y].before = previous[cycle[y].symbol]
         /\ cycle'[y].now["price"] = cycle[y].price
<1>. DEFINE s == cycle[y].symbol
            now(fetched) == [f \in Fields |-> IF f = "price" THEN cycle[y].price
                                              ELSE IF f \in fetched THEN market[s][f] ELSE NoValue]
            c(fetched) == [cycle[y] EXCEPT !.at = "alerts", !.price = NoValue,
                                           !.now = now(fetched), !.before = previous[s]]
<1>1. /\ cycle \in [Cycles -> CycleState] /\ CycleTyped(y) /\ cycle[y] \in CycleState
      /\ UNCHANGED <<store, history, previous, world, overlapped>> /\ cycle[y].at = "data"
  BY DEF AlertTyped, FetchData
<1>2. PICK fetched \in Fetches : cycle' = [cycle EXCEPT ![y] = c(fetched)]
  BY Zenon DEF FetchData
<1>3. s \in AlertSymbols /\ cycle[y].price \in Values /\ cycle[y].left # {}
  BY <1>1 DEF CycleTyped, CycleState
<1>4. market[s] \in [Fields -> Values] /\ "price" \in Fields /\ previous[s] \in [Kept -> Values]
  BY <1>3, MarketAssumption DEF AlertTyped, WorldTyped, Values, Fields
<1>5. now(fetched) \in [Fields -> Values] /\ now(fetched)["price"] = cycle[y].price
  BY <1>3, <1>4 DEF Values
<1>. HIDE DEF now
<1>6. /\ c(fetched) \in CycleState /\ c(fetched).at = "alerts" /\ c(fetched).left = cycle[y].left
      /\ c(fetched).group = cycle[y].group /\ c(fetched).symbol = s
      /\ c(fetched).now = now(fetched) /\ c(fetched).before = previous[s]
  BY <1>1, <1>4, <1>5 DEF CycleState, Values
<1>. HIDE DEF c
<1>7. overlapped' \in BOOLEAN /\ previous' \in [AlertSymbols -> [Kept -> Values]] /\ UNCHANGED <<store, history, world>>
  BY <1>1 DEF AlertTyped, WorldTyped
<1>8. /\ c(fetched).left \subseteq DOMAIN objects
      /\ c(fetched).group \subseteq {k \in DOMAIN objects : objects[k].symbol = c(fetched).symbol}
  BY <1>1, <1>6 DEF CycleTyped
<1>9. AlertTyped'
  BY <1>2, <1>3, <1>5, <1>6, <1>7, <1>8, CycleStepTyped
<1>. QED
  BY <1>1, <1>2, <1>5, <1>6, <1>9 DEF store, world

(* The symbol is done: what was seen is kept, and the cycle looks at none. *)
LEMMA FinishDoes ==
  ASSUME AlertTyped, NEW y \in Cycles, FinishSymbol(y)
  PROVE  /\ AlertTyped' /\ UNCHANGED <<objects, history, market, moves, overlapped>>
         /\ cycle[y].left # {} /\ cycle[y].at = "alerts" /\ cycle[y].symbol \in AlertSymbols
         /\ ~Looks(y)' /\ \A z \in Cycles : z # y => cycle'[z] = cycle[z]
         /\ \A s \in AlertSymbols :
              previous'[s]["price"] = IF s = cycle[y].symbol THEN cycle[y].now["price"] ELSE previous[s]["price"]
<1>. DEFINE rest == {i \in cycle[y].left : objects[i].symbol # cycle[y].symbol}
            c == [Idle EXCEPT !.left = rest]
<1>1. /\ cycle \in [Cycles -> CycleState] /\ CycleTyped(y) /\ cycle[y] \in CycleState
      /\ UNCHANGED <<store, history, world, overlapped>> /\ cycle[y].at = "alerts"
      /\ previous' = [previous EXCEPT ![cycle[y].symbol] = [f \in Kept |-> cycle[y].now[f]]]
      /\ previous \in [AlertSymbols -> [Kept -> Values]]
  BY DEF AlertTyped, FinishSymbol, Seen
<1>2. cycle' = [cycle EXCEPT ![y] = c]
  BY DEF FinishSymbol
<1>3. /\ cycle[y].symbol \in AlertSymbols /\ cycle[y].left # {} /\ cycle[y].now \in [Fields -> Values]
      /\ cycle[y].left \subseteq DOMAIN objects /\ DOMAIN objects \subseteq Nat
  BY <1>1, AlertTypes DEF CycleTyped
<1>4. [f \in Kept |-> cycle[y].now[f]] \in [Kept -> Values] /\ "price" \in Kept
  BY <1>3 DEF Kept, Fields
<1>5. /\ previous' \in [AlertSymbols -> [Kept -> Values]]
      /\ \A s \in AlertSymbols :
           previous'[s]["price"] = IF s = cycle[y].symbol THEN cycle[y].now["price"] ELSE previous[s]["price"]
  BY <1>1, <1>3, <1>4
<1>6. rest \in SUBSET Nat /\ rest \subseteq DOMAIN objects
  BY <1>3
<1>. HIDE DEF rest
<1>7. Unseen \in [Kept -> Values]
  BY DEF Unseen, Values
<1>8. c \in CycleState /\ c.at = "tick" /\ c.left = rest /\ c.group = {}
  BY <1>6, <1>7 DEF CycleState, Idle, Values
<1>. HIDE DEF c
<1>9. overlapped' \in BOOLEAN /\ UNCHANGED <<store, history, world>>
  BY <1>1 DEF AlertTyped, WorldTyped
<1>10. AlertTyped'
  BY <1>2, <1>5, <1>6, <1>8, <1>9, CycleStepTyped
<1>. QED
  BY <1>1, <1>2, <1>3, <1>5, <1>8, <1>10 DEF Looks, store, world

(* Time passes, the market moves, the engine forgets.                      *)
LEMMA WorldStepTyped ==
  ASSUME AlertTyped, Tick \/ (\E s \in AlertSymbols, d \in MarketData : MarketMoves(s, d))
  PROVE  AlertTyped'
<1>1. UNCHANGED <<objects, table, history, previous, cycle, overlapped>>
  BY DEF Tick, MarketMoves, store
<1>2. /\ clock' \in 0 .. MaxTime /\ clock <= clock' /\ clock \in Nat /\ clock' \in Nat
      /\ market' \in [AlertSymbols -> MarketData] /\ moves' \in [AlertSymbols -> 0 .. MaxMoves]
  <2>1. CASE Tick
    BY <2>1, BoundAssumption DEF Tick, AlertTyped, WorldTyped
  <2>2. CASE \E s \in AlertSymbols, d \in MarketData : MarketMoves(s, d)
    BY <2>2, BoundAssumption DEF MarketMoves, AlertTyped, WorldTyped
  <2>. QED
    BY <2>1, <2>2
<1>3. StoreTyped'
  <2>1. \A i \in DOMAIN objects : objects[i].last # NoValue => objects[i].last \in Nat /\ objects[i].last <= clock
    BY AlertTypes DEF AlertTyped, StoreTyped, AlertObject
  <2>2. \A i \in DOMAIN objects : objects[i].last # NoValue => objects[i].last <= clock'
    BY <1>2, <2>1
  <2>. QED
    BY <1>1, <2>2 DEF AlertTyped, StoreTyped
<1>4. HistoryTyped'
  <2>1. \A k \in DOMAIN history : history[k].at \in Nat /\ history[k].at <= clock
    BY AlertTypes DEF AlertRow
  <2>2. \A k \in DOMAIN history : history[k].at <= clock'
    BY <1>2, <2>1
  <2>. QED
    BY <1>1, <2>2 DEF AlertTyped, HistoryTyped
<1>5. \A y \in Cycles : CycleTyped(y)'
  BY <1>1 DEF AlertTyped, CycleTyped
<1>. QED
  BY <1>1, <1>2, <1>3, <1>4, <1>5 DEF AlertTyped, WorldTyped

(* No cycle is under way any more and nothing was seen.                    *)
LEMMA ForgetDoes ==
  ASSUME AlertTyped, Forget, HistoryTyped'
  PROVE  /\ AlertTyped' /\ UNCHANGED <<objects, market, moves, overlapped>>
         /\ \A y \in Cycles : ~Looks(y)' /\ cycle'[y].left = {}
         /\ \A s \in AlertSymbols : previous'[s]["price"] = NoValue
<1>1. /\ UNCHANGED <<objects, table, clock, market, moves, overlapped>>
      /\ cycle' = [y \in Cycles |-> Idle] /\ previous' = [s \in AlertSymbols |-> Unseen]
  BY DEF Forget, store, world
<1>2. Unseen \in [Kept -> Values] /\ Unseen["price"] = NoValue
  BY DEF Unseen, Values, Kept
<1>3. Idle \in CycleState /\ Idle.at = "tick" /\ Idle.left = {} /\ Idle.group = {}
  BY <1>2 DEF CycleState, Idle, Values
<1>4. \A y \in Cycles : CycleTyped(y)'
  BY <1>1, <1>3 DEF CycleTyped
<1>5. cycle' \in [Cycles -> CycleState] /\ previous' \in [AlertSymbols -> [Kept -> Values]]
  BY <1>1, <1>2, <1>3
<1>. QED
  BY <1>1, <1>2, <1>3, <1>4, <1>5 DEF AlertTyped, StoreTyped, WorldTyped, Looks

(* A record comes last; the history drops its first at its limit.          *)
LEMMA HistoryGrows ==
  ASSUME AlertTyped, NEW i \in DOMAIN objects, NEW m \in BOOLEAN, Record(i, m)
  PROVE  \E d \in {0, 1} :
           /\ history' \in Seq(AlertRow) /\ Len(history') <= MaxHistory /\ Len(history') + d = Len(history) + 1
           /\ \A k \in DOMAIN history' :
                \/ k + d \in DOMAIN history /\ history'[k] = history[k + d]
                \/ k + d = Len(history) + 1 /\ history'[k] = [object |-> i, at |-> clock, marked |-> m]
<1>. DEFINE e == [object |-> i, at |-> clock, marked |-> m]
            h == Append(history, e)
<1>1. history \in Seq(AlertRow) /\ Len(history) \in Nat /\ Len(history) <= MaxHistory /\ MaxHistory \in Nat \ {0}
  BY HistoryAssumption DEF AlertTyped, HistoryTyped
<1>2. e \in AlertRow
  BY AlertTypes DEF AlertRow
<1>3. history' = IF Len(h) > MaxHistory THEN Tail(h) ELSE h
  BY DEF Record, Recent
<1>. HIDE DEF e
<1>4. /\ h \in Seq(AlertRow) /\ Len(h) = Len(history) + 1 /\ h # <<>>
      /\ \A k \in 1 .. Len(history) : h[k] = history[k]
      /\ h[Len(history) + 1] = e
  BY <1>1, <1>2, AppendProperties
<1>. HIDE DEF h
<1>5. CASE Len(h) > MaxHistory
  <2>1. /\ history' \in Seq(AlertRow) /\ Len(history') = Len(history)
        /\ \A k \in 1 .. Len(history) : history'[k] = h[k + 1]
    BY <1>1, <1>3, <1>4, <1>5, HeadTailProperties
  <2>2. \A k \in 1 .. Len(history) : k + 1 \in 1 .. Len(history) \/ k + 1 = Len(history) + 1
    BY <1>1
  <2>3. DOMAIN history' = 1 .. Len(history) /\ DOMAIN history = 1 .. Len(history)
    BY <1>1, <2>1
  <2>4. \A k \in DOMAIN history' : \/ k + 1 \in DOMAIN history /\ history'[k] = history[k + 1]
                                   \/ k + 1 = Len(history) + 1 /\ history'[k] = e
    BY <1>4, <2>1, <2>2, <2>3
  <2>. QED
    BY <1>1, <2>1, <2>4 DEF e
<1>6. CASE ~ (Len(h) > MaxHistory)
  <2>1. history' \in Seq(AlertRow) /\ history' = h /\ Len(history') <= MaxHistory
    BY <1>1, <1>3, <1>4, <1>6
  <2>2. DOMAIN history' = 1 .. Len(history) + 1 /\ DOMAIN history = 1 .. Len(history)
    BY <1>1, <1>4, <2>1
  <2>3. \A k \in DOMAIN history' : k + 0 = k /\ (k \in 1 .. Len(history) \/ k = Len(history) + 1)
    BY <1>1, <2>2
  <2>4. \A k \in DOMAIN history' : \/ k + 0 \in DOMAIN history /\ history'[k] = history[k + 0]
                                   \/ k + 0 = Len(history) + 1 /\ history'[k] = e
    BY <1>4, <2>1, <2>2, <2>3
  <2>. QED
    BY <1>4, <2>1, <2>4 DEF e
<1>. QED
  BY <1>5, <1>6

(* What the history holds stays typed, and one alert's entries grow by one *)
(* at most.                                                                *)
LEMMA RecordKeeps ==
  ASSUME AlertTyped, NEW i \in DOMAIN objects, NEW m \in BOOLEAN, Record(i, m),
         clock' = clock, DOMAIN objects' = DOMAIN objects
  PROVE  /\ HistoryTyped'
         /\ \A q \in DOMAIN objects : Entries(q)' <= Entries(q) + (IF q = i THEN 1 ELSE 0)
         /\ \A q \in DOMAIN objects : Entries(q) \in Nat /\ Entries(q)' \in Nat
<1>1. PICK d \in {0, 1} :
           /\ history' \in Seq(AlertRow) /\ Len(history') <= MaxHistory /\ Len(history') + d = Len(history) + 1
           /\ \A k \in DOMAIN history' :
                \/ k + d \in DOMAIN history /\ history'[k] = history[k + d]
                \/ k + d = Len(history) + 1 /\ history'[k] = [object |-> i, at |-> clock, marked |-> m]
  BY HistoryGrows
<1>2. HistoryTyped'
  <2>1. /\ \A k \in DOMAIN history : history[k].at <= clock /\ history[k].object \in DOMAIN objects
        /\ clock <= clock
    BY AlertTypes
  <2>2. ASSUME NEW k \in DOMAIN history' PROVE history'[k].object \in DOMAIN objects /\ history'[k].at <= clock
    BY <1>1, <2>1
  <2>. QED
    BY <1>1, <2>2 DEF HistoryTyped
<1>3. /\ DOMAIN history = 1 .. Len(history) /\ Len(history) \in Nat
      /\ DOMAIN history' = 1 .. Len(history') /\ Len(history') \in Nat
  BY <1>1, AlertTypes
<1>4. ASSUME NEW q \in DOMAIN objects
      PROVE  Entries(q)' <= Entries(q) + (IF q = i THEN 1 ELSE 0) /\ Entries(q) \in Nat /\ Entries(q)' \in Nat
  <2>. DEFINE S == {k \in DOMAIN history : history[k].object = q}
              N == {k \in DOMAIN history' : history'[k].object = q}
              T == IF q = i THEN S \cup {Len(history) + 1} ELSE S
              f == [k \in N |-> k + d]
  <2>1. IsFiniteSet(S) /\ IsFiniteSet(N)
    <3>1. \A n \in Nat : IsFiniteSet(1 .. n)
      BY FS_Interval
    <3>. QED
      BY <1>3, <3>1, FS_Subset
  <2>2. f \in [N -> T] /\ \A a, b \in N : f[a] = f[b] => a = b
    <3>1. N \subseteq Nat /\ d \in Nat
      BY <1>3
    <3>2. ASSUME NEW k \in N PROVE k + d \in T
      <4>1. CASE k + d \in DOMAIN history /\ history'[k] = history[k + d]
        BY <4>1
      <4>2. CASE k + d = Len(history) + 1 /\ history'[k] = [object |-> i, at |-> clock, marked |-> m]
        BY <4>2
      <4>. QED
        BY <1>1, <4>1, <4>2
    <3>. HIDE DEF N, T
    <3>3. \A a, b \in N : f[a] = a + d /\ f[b] = b + d
      OBVIOUS
    <3>. QED
      BY <3>1, <3>2, <3>3
  <2>3. f \in Injection(N, T)
    BY <2>2 DEF Injection, IsInjective
  <2>4. IsFiniteSet(T) /\ Cardinality(T) <= Cardinality(S) + (IF q = i THEN 1 ELSE 0)
    <3>1. Cardinality(S) \in Nat
      BY <2>1, FS_CardinalityType
    <3>2. /\ IsFiniteSet(S \cup {Len(history) + 1})
          /\ Cardinality(S \cup {Len(history) + 1}) \in {Cardinality(S), Cardinality(S) + 1}
      BY <2>1, FS_AddElement
    <3>. QED
      BY <2>1, <3>1, <3>2
  <2>. HIDE DEF f, T
  <2>5. Cardinality(N) <= Cardinality(T)
    BY <2>3, <2>4, FS_Injection
  <2>6. Cardinality(S) \in Nat /\ Cardinality(N) \in Nat /\ Cardinality(T) \in Nat
    BY <2>1, <2>4, FS_CardinalityType
  <2>7. Entries(q) = Cardinality(S) /\ Entries(q)' = Cardinality(N)
    BY DEF Entries
  <2>. HIDE DEF S, N
  <2>. QED
    BY <2>4, <2>5, <2>6, <2>7
<1>. QED
  BY <1>2, <1>4

(* A mark touches nothing but the time of the last trigger and, of a       *)
(* "once" alert, whether it is enabled.                                    *)
LEMMA MarkKeeps ==
  ASSUME AlertTyped, NEW i \in DOMAIN objects, objects' = Marked(objects[i].id)
  PROVE  /\ objects' \in Seq(AlertObject) /\ Len(objects') = Len(objects) /\ DOMAIN objects' = DOMAIN objects
         /\ \A k \in DOMAIN objects :
              /\ objects'[k].id = objects[k].id /\ objects'[k].symbol = objects[k].symbol
              /\ objects'[k].rule = objects[k].rule
              /\ objects'[k].last \in {objects[k].last, clock}
              /\ ~objects[k].enabled => ~objects'[k].enabled
         /\ Stored(i) => objects'[i].last = clock /\ (objects[i].rule.mode = "once" => ~objects'[i].enabled)
<1>1. /\ DOMAIN objects = 1 .. Len(objects) /\ Len(objects) \in Nat /\ clock \in Nat
      /\ \A k \in DOMAIN objects : objects[k] \in AlertObject
  BY AlertTypes
<1>. DEFINE touched(k) == objects[k].id = objects[i].id /\ Stored(k)
            mark(k) == [objects[k] EXCEPT !.last = clock, !.enabled = @ /\ objects[k].rule.mode # "once"]
<1>2. objects' = [k \in DOMAIN objects |-> IF touched(k) THEN mark(k) ELSE objects[k]]
  BY Zenon DEF Marked
<1>3. ASSUME NEW k \in DOMAIN objects
      PROVE  /\ mark(k) \in AlertObject /\ mark(k).id = objects[k].id /\ mark(k).symbol = objects[k].symbol
             /\ mark(k).rule = objects[k].rule /\ mark(k).last = clock
             /\ ~objects[k].enabled => ~mark(k).enabled
             /\ objects[k].rule.mode = "once" => ~mark(k).enabled
  BY <1>1 DEF AlertObject
<1>. HIDE DEF mark
<1>4. \A k \in DOMAIN objects : objects'[k] = IF touched(k) THEN mark(k) ELSE objects[k]
  BY <1>2
<1>5. Stored(i) => touched(i)
  OBVIOUS
<1>. HIDE DEF touched
<1>6. \A k \in DOMAIN objects : objects'[k] \in AlertObject
  BY <1>1, <1>3, <1>4
<1>7. objects' \in Seq(AlertObject) /\ Len(objects') = Len(objects) /\ DOMAIN objects' = DOMAIN objects
  BY <1>1, <1>2, <1>6
<1>. QED
  BY <1>3, <1>4, <1>5, <1>7

(* A trigger: recorded, marked if stored, and not again by this cycle.     *)
LEMMA TriggerDoes ==
  ASSUME AlertTyped, NEW y \in Cycles, NEW i \in DOMAIN objects, Trigger(y, i)
  PROVE  /\ AlertTyped' /\ UNCHANGED <<clock, previous, market, moves, overlapped>>
         /\ Record(i, Stored(i)) /\ Stored(i) \in BOOLEAN /\ objects' = Marked(objects[i].id)
         /\ Fires(y, i) /\ cycle[y].at = "alerts" /\ i \in cycle[y].group
         /\ \A z \in Cycles : z # y => cycle'[z] = cycle[z]
         /\ cycle'[y] = [cycle[y] EXCEPT !.group = @ \ {i}]
<1>. DEFINE c == [cycle[y] EXCEPT !.group = @ \ {i}]
<1>1. /\ cycle[y].at = "alerts" /\ i \in cycle[y].group /\ Fires(y, i)
      /\ Record(i, Stored(i)) /\ objects' = Marked(objects[i].id) /\ cycle' = [cycle EXCEPT ![y] = c]
      /\ UNCHANGED <<table, previous, clock, market, moves, overlapped>>
  BY DEF Trigger, world
<1>2. Stored(i) \in BOOLEAN
  BY DEF Stored
<1>3. cycle \in [Cycles -> CycleState] /\ \A z \in Cycles : CycleTyped(z)
  BY DEF AlertTyped
<1>4. /\ c \in CycleState /\ c.left = cycle[y].left /\ c.group \subseteq cycle[y].group /\ c.at = "alerts"
      /\ c.symbol = cycle[y].symbol /\ c.now = cycle[y].now
  BY <1>1, <1>3 DEF CycleState
<1>5. /\ objects' \in Seq(AlertObject) /\ Len(objects') = Len(objects) /\ DOMAIN objects' = DOMAIN objects
      /\ \A k \in DOMAIN objects :
           /\ objects'[k].id = objects[k].id /\ objects'[k].symbol = objects[k].symbol
           /\ objects'[k].last \in {objects[k].last, clock}
  BY <1>1, MarkKeeps
<1>. HIDE DEF c
<1>6. \A z \in Cycles : cycle'[z] = IF z = y THEN c ELSE cycle[z]
  BY <1>1, <1>3
<1>7. HistoryTyped'
  BY <1>1, <1>2, <1>5, RecordKeeps
<1>8. StoreTyped'
  <2>1. clock <= clock
    BY AlertTypes
  <2>2. \A k \in DOMAIN objects : objects'[k].last # NoValue => objects'[k].last <= clock
    BY <1>5, <2>1 DEF AlertTyped, StoreTyped
  <2>. QED
    BY <1>1, <1>5, <2>2 DEF AlertTyped, StoreTyped
<1>9. ASSUME NEW z \in Cycles PROVE CycleTyped(z)'
  <2>1. CycleTyped(z) /\ CycleTyped(y)
    BY <1>3
  <2>2. \A k \in DOMAIN objects : objects'[k].symbol = objects[k].symbol
    BY <1>5
  <2>3. CASE z = y
    <3>1. /\ c.left \subseteq DOMAIN objects'
          /\ c.at # "tick" => c.left # {} /\ c.symbol \in AlertSymbols
          /\ c.at = "alerts" => c.now \in [Fields -> Values]
      BY <1>1, <1>4, <1>5, <2>1 DEF CycleTyped
    <3>2. c.group \subseteq {k \in DOMAIN objects' : objects'[k].symbol = c.symbol}
      BY <1>4, <1>5, <2>1, <2>2 DEF CycleTyped
    <3>3. cycle'[z] = c
      BY <1>6, <2>3
    <3>. QED
      BY <3>1, <3>2, <3>3 DEF CycleTyped
  <2>4. CASE z # y
    BY <1>5, <1>6, <2>1, <2>2, <2>4 DEF CycleTyped
  <2>. QED
    BY <2>3, <2>4
<1>10. cycle' \in [Cycles -> CycleState]
  BY <1>1, <1>3, <1>4
<1>11. AlertTyped'
  BY <1>1, <1>7, <1>8, <1>9, <1>10 DEF AlertTyped, WorldTyped
<1>. QED
  BY <1>1, <1>2, <1>6, <1>11 DEF c

(* The process dies between the record and the mark.                       *)
LEMMA CrashDoes ==
  ASSUME AlertTyped, NEW y \in Cycles, NEW i \in DOMAIN objects, CrashAfterRecord(y, i)
  PROVE  /\ AlertTyped' /\ UNCHANGED <<objects, clock, market, moves, overlapped>>
         /\ Record(i, FALSE) /\ Fires(y, i) /\ cycle[y].at = "alerts" /\ i \in cycle[y].group
         /\ \A z \in Cycles : ~Looks(z)' /\ cycle'[z].left = {}
         /\ \A s \in AlertSymbols : previous'[s]["price"] = NoValue
<1>1. Record(i, FALSE) /\ Fires(y, i) /\ cycle[y].at = "alerts" /\ i \in cycle[y].group /\ Forget
  BY DEF CrashAfterRecord
<1>2. UNCHANGED <<objects, clock>>
  BY <1>1 DEF Forget, store, world
<1>3. HistoryTyped'
  BY <1>1, <1>2, RecordKeeps
<1>. QED
  BY <1>1, <1>2, <1>3, ForgetDoes

----------------------------------------------------------------------------
(* Alerts: a trigger is remembered, and keeps the next one away.           *)

(* Neither entries nor objects change, but for objects that are added.     *)
LEMMA RememberedStays ==
  ASSUME AlertTyped, TriggersKept, UNCHANGED history, \A k \in DOMAIN objects : objects'[k] = objects[k]
  PROVE  TriggersKept'
<1>1. \A k \in DOMAIN history : history[k].object \in DOMAIN objects
  BY AlertTypes
<1>2. CooldownKept /\ TriggerRemembered
  BY DEF TriggersKept
<1>3. CooldownKept'
  BY <1>1, <1>2 DEF CooldownKept
<1>4. TriggerRemembered'
  BY <1>1, <1>2 DEF TriggerRemembered
<1>. QED
  BY <1>3, <1>4 DEF TriggersKept

(* A record of an alert that fires, marked or not: what was marked before  *)
(* lies a cooldown back, or would have kept it from firing.                *)
LEMMA FiringKeeps ==
  ASSUME AlertTyped, TriggersKept, NEW y \in Cycles, NEW i \in DOMAIN objects, Fires(y, i),
         NEW m \in BOOLEAN, Record(i, m), DOMAIN objects' = DOMAIN objects,
         \A k \in DOMAIN objects : /\ objects'[k].rule = objects[k].rule
                                   /\ objects'[k].last \in {objects[k].last, clock}
                                   /\ ~objects[k].enabled => ~objects'[k].enabled,
         m => objects'[i].last = clock /\ (objects[i].rule.mode = "once" => ~objects'[i].enabled)
  PROVE  TriggersKept'
<1>1. PICK d \in {0, 1} :
           /\ history' \in Seq(AlertRow) /\ Len(history') <= MaxHistory /\ Len(history') + d = Len(history) + 1
           /\ \A k \in DOMAIN history' :
                \/ k + d \in DOMAIN history /\ history'[k] = history[k + d]
                \/ k + d = Len(history) + 1 /\ history'[k] = [object |-> i, at |-> clock, marked |-> m]
  BY HistoryGrows
<1>2. /\ DOMAIN history = 1 .. Len(history) /\ Len(history) \in Nat /\ clock \in Nat
      /\ DOMAIN history' = 1 .. Len(history') /\ Len(history') \in Nat
      /\ \A k \in DOMAIN history : /\ history[k].object \in DOMAIN objects /\ history[k].at <= clock
                                   /\ history[k] \in AlertRow
      /\ \A k \in DOMAIN objects : objects[k] \in AlertObject
  BY <1>1, AlertTypes
<1>3. CooldownKept /\ TriggerRemembered
  BY DEF TriggersKept
<1>4. ASSUME NEW j \in DOMAIN history, history[j].object = i, history[j].marked
      PROVE  /\ objects[i].rule.mode # "once"
             /\ objects[i].rule.mode = "cooldown_minutes" => clock - history[j].at >= Cooldown
  <2>1. /\ objects[i].last # NoValue /\ objects[i].last >= history[j].at
        /\ objects[i].rule.mode = "once" => ~objects[i].enabled
    BY <1>3, <1>4 DEF TriggerRemembered
  <2>2. objects[i].last \in Nat /\ history[j].at \in Nat /\ Cooldown \in Nat
    BY <1>2, <2>1, CooldownAssumption DEF AlertObject, AlertRow
  <2>3. objects[i].enabled /\ Cooled(objects[i])
    BY DEF Fires
  <2>4. objects[i].rule.mode = "cooldown_minutes" => clock - objects[i].last >= Cooldown
    BY <2>1, <2>3 DEF Cooled
  <2>. QED
    BY <1>2, <2>1, <2>2, <2>3, <2>4
<1>5. CooldownKept'
  <2>. SUFFICES ASSUME NEW j \in DOMAIN history', NEW k \in DOMAIN history', j < k,
                       history'[j].object = history'[k].object, history'[j].marked
                PROVE  LET mode == objects'[history'[j].object].rule.mode
                       IN  /\ mode # "once"
                           /\ mode = "cooldown_minutes" => history'[k].at - history'[j].at >= Cooldown
    BY DEF CooldownKept
  <2>1. j + d \in DOMAIN history /\ history'[j] = history[j + d] /\ j + d < k + d
    BY <1>1, <1>2
  <2>2. objects'[history'[j].object].rule = objects[history[j + d].object].rule
    BY <1>2, <2>1
  <2>3. CASE k + d \in DOMAIN history /\ history'[k] = history[k + d]
    BY <1>3, <2>1, <2>2, <2>3 DEF CooldownKept
  <2>4. CASE k + d = Len(history) + 1 /\ history'[k] = [object |-> i, at |-> clock, marked |-> m]
    <3>1. history'[k].object = i /\ history'[k].at = clock
      BY <2>4
    <3>. QED
      BY <1>4, <2>1, <2>2, <3>1
  <2>. QED
    BY <1>1, <2>3, <2>4
<1>6. TriggerRemembered'
  <2>. SUFFICES ASSUME NEW k \in DOMAIN history', history'[k].marked
                PROVE  LET o == objects'[history'[k].object]
                       IN  o.last # NoValue /\ o.last >= history'[k].at /\ (o.rule.mode = "once" => ~o.enabled)
    BY DEF TriggerRemembered
  <2>1. clock # NoValue /\ clock >= clock
    BY <1>2, NoValueAssumption
  <2>2. CASE k + d \in DOMAIN history /\ history'[k] = history[k + d]
    <3>. DEFINE q == history[k + d].object
    <3>1. /\ q \in DOMAIN objects /\ history[k + d].at <= clock /\ history[k + d].at \in Nat
          /\ history[k + d].marked
      BY <1>2, <2>2 DEF AlertRow
    <3>2. objects[q].last # NoValue /\ objects[q].last >= history[k + d].at /\ (objects[q].rule.mode = "once" => ~objects[q].enabled)
      BY <1>3, <2>2, <3>1 DEF TriggerRemembered
    <3>3. /\ objects'[q].rule = objects[q].rule /\ objects'[q].last \in {objects[q].last, clock}
          /\ ~objects[q].enabled => ~objects'[q].enabled
      BY <3>1
    <3>. QED
      BY <1>2, <2>1, <2>2, <3>1, <3>2, <3>3
  <2>3. CASE k + d = Len(history) + 1 /\ history'[k] = [object |-> i, at |-> clock, marked |-> m]
    <3>1. history'[k].object = i /\ history'[k].at = clock /\ m
      BY <2>3
    <3>. QED
      BY <2>1, <3>1
  <2>. QED
    BY <1>1, <2>2, <2>3
<1>. QED
  BY <1>5, <1>6 DEF TriggersKept

----------------------------------------------------------------------------
(* Alerts: every crossing reported had a move of its own.                  *)

LEMMA ChangedFacts ==
  /\ \A p, q : Changed(p, q) \in {0, 1}
  /\ \A p : Changed(p, p) = 0 /\ Changed(NoValue, p) = 0 /\ Changed(p, NoValue) = 0
BY DEF Changed

LEMMA CountsAreNumbers ==
  ASSUME AlertTyped
  PROVE  /\ \A i : Entries(i) \in Nat
         /\ \A i : i \notin DOMAIN objects => Entries(i) = 0
         /\ \A s \in AlertSymbols : moves[s] \in Nat
<1>1. DOMAIN history = 1 .. Len(history) /\ Len(history) \in Nat
  BY AlertTypes
<1>2. \A n \in Nat : IsFiniteSet(1 .. n)
  BY FS_Interval
<1>3. ASSUME NEW i PROVE Entries(i) \in Nat
  <2>1. IsFiniteSet({k \in DOMAIN history : history[k].object = i})
    BY <1>1, <1>2, FS_Subset
  <2>. QED
    BY <2>1, FS_CardinalityType DEF Entries
<1>4. ASSUME NEW i, i \notin DOMAIN objects PROVE Entries(i) = 0
  <2>1. {k \in DOMAIN history : history[k].object = i} = {}
    BY <1>4, AlertTypes
  <2>. QED
    BY <2>1, FS_EmptySet DEF Entries
<1>5. \A s \in AlertSymbols : moves[s] \in Nat
  BY BoundAssumption DEF AlertTyped, WorldTyped
<1>. QED
  BY <1>3, <1>4, <1>5

(* While one cycle is under way no other is.                               *)
LEMMA Alone ==
  ASSUME AlertTyped, MovesCover, NEW y \in Cycles, cycle[y].left # {}
  PROVE  \A z \in Cycles : z # y => ~Looks(z) /\ cycle[z].left = {}
BY DEF MovesCover, UnderWay, AlertTyped, CycleTyped, Looks

(* A crossing that fires differs from what was seen.                       *)
LEMMA CrossingDiffers ==
  ASSUME AlertTyped, NEW y \in Cycles, NEW i \in DOMAIN objects, cycle[y].at = "alerts", Fires(y, i),
         objects[i].rule.type = "price_cross"
  PROVE  Changed(cycle[y].before["price"], Sighted(y)) = 1
<1>. DEFINE a0 == cycle[y].before["price"]
            a == cycle[y].now["price"]
            b == objects[i].rule.threshold
<1>1. cycle[y].before \in [Kept -> Values] /\ cycle[y].now \in [Fields -> Values]
  BY DEF AlertTyped, CycleTyped, CycleState
<1>2. a0 \in Values /\ a \in Values
  BY <1>1 DEF Kept, Fields
<1>3. b \in Values
  BY AlertTypes, RuleAssumption DEF AlertObject, Values
<1>4. Crosses(a0, b, a, b)
  <2>1. Holds(objects[i].rule, cycle[y].now, cycle[y].before)
    BY DEF Fires
  <2>. QED
    BY <2>1 DEF Holds
<1>5. Sighted(y) = a
  BY DEF Sighted
<1>. HIDE DEF a0, a, b
<1>6. a0 # NoValue /\ a # NoValue /\ b # NoValue
  BY <1>4 DEF Crosses, CrossesUp, CrossesDown, KnownType
<1>7. a0 \in Int /\ a \in Int /\ b \in Int
  BY <1>2, <1>3, <1>6 DEF Values
<1>8. (a0 <= b /\ a > b) \/ (a0 >= b /\ a < b)
  BY <1>4 DEF Crosses, CrossesUp, CrossesDown
<1>9. a0 # a
  BY <1>7, <1>8
<1>. QED
  BY <1>5, <1>6, <1>9 DEF Changed, a0

(* Nothing moves but the store, which keeps the symbol and the rule of its *)
(* objects; a new object has no entries.                                   *)
LEMMA StoreStepCovers ==
  ASSUME AlertTyped, AlertTyped', MovesCover, UNCHANGED <<history, previous, cycle, market, moves>>,
         \A k \in DOMAIN objects : k \in DOMAIN objects' /\ objects'[k].symbol = objects[k].symbol
                                                        /\ objects'[k].rule = objects[k].rule
  PROVE  MovesCover'
<1>. USE DEF Looks
<1>1. \A i : Entries(i)' = Entries(i)
  BY DEF Entries
<1>2. /\ \A i : Entries(i) \in Nat /\ (i \notin DOMAIN objects => Entries(i) = 0)
      /\ \A s \in AlertSymbols : moves[s] \in Nat
  BY CountsAreNumbers
<1>3. \A s \in AlertSymbols : \A i \in Crossing(s)' : i \in Crossing(s) \/ Entries(i) = 0
  BY <1>2 DEF Crossing
<1>4. ASSUME NEW s \in AlertSymbols, RestCovered(s) PROVE RestCovered(s)'
  <2>1. Changed(previous[s]["price"], market[s]["price"]) \in {0, 1}
    BY ChangedFacts
  <2>. QED
    BY <1>1, <1>2, <1>3, <1>4, <2>1 DEF RestCovered
<1>5. ASSUME NEW y \in Cycles, Looks(y), LookCovered(y) PROVE LookCovered(y)'
  <2>1. PICK s \in AlertSymbols : s = cycle[y].symbol /\ s = cycle'[y].symbol
    BY <1>5 DEF AlertTyped, CycleTyped
  <2>2. Due(y)' = Due(y) /\ Beyond(y)' = Beyond(y) /\ \A i : Waits(y, i)' <=> Waits(y, i)
    BY DEF Due, Beyond, Sighted, Waits
  <2>3. Due(y) \in {0, 1} /\ Beyond(y) \in {0, 1}
    BY ChangedFacts DEF Due, Beyond
  <2>4. /\ Due(y) + Beyond(y) <= moves[s] /\ moves[s] \in Nat
        /\ \A i \in Crossing(s) : /\ Entries(i) + Beyond(y) <= moves[s]
                                  /\ Waits(y, i) => Entries(i) + Due(y) + Beyond(y) <= moves[s]
    BY <1>2, <1>5, <2>1 DEF LookCovered
  <2>5. ASSUME NEW i \in Crossing(s)'
        PROVE  /\ Entries(i) + Beyond(y) <= moves[s]
               /\ Waits(y, i) => Entries(i) + Due(y) + Beyond(y) <= moves[s]
    <3>1. CASE i \in Crossing(s)
      BY <2>4, <3>1
    <3>2. CASE Entries(i) = 0
      BY <2>3, <2>4, <3>2
    <3>. QED
      BY <1>3, <3>1, <3>2
  <2>. QED
    BY <1>1, <2>1, <2>2, <2>4, <2>5 DEF LookCovered
<1>. QED
  BY <1>4, <1>5 DEF MovesCover, UnderWay

(* Of a symbol for which nothing changes the moves still cover.            *)
LEMMA RestStays ==
  ASSUME NEW s \in AlertSymbols, RestCovered(s), UNCHANGED <<objects, history, market, moves>>,
         previous'[s]["price"] = previous[s]["price"]
  PROVE  RestCovered(s)'
BY DEF RestCovered, Crossing, Entries

(* A cycle starts where none was under way: nothing is looked at yet.      *)
LEMMA StartCovers ==
  ASSUME AlertTyped, MovesCover, NEW y \in Cycles, StartCycle(y), ~overlapped'
  PROVE  MovesCover'
<1>1. /\ AlertTyped' /\ UNCHANGED <<objects, history, previous, market, moves>>
      /\ ~Looks(y) /\ ~Looks(y)' /\ \A z \in Cycles : z # y => cycle'[z] = cycle[z]
  BY StartDoes
<1>2. UnderWay = {}
  BY DEF StartCycle
<1>3. \A z \in Cycles : ~Looks(z) /\ cycle[z].left = {}
  BY <1>2 DEF UnderWay, AlertTyped, CycleTyped, Looks
<1>4. \A z \in Cycles : ~Looks(z)'
  BY <1>1, <1>3 DEF Looks
<1>5. \A z \in Cycles : z # y => cycle'[z].left = {}
  BY <1>1, <1>3
<1>6. \A s \in AlertSymbols : RestCovered(s)'
  <2>1. \A s \in AlertSymbols : RestCovered(s)
    BY <1>3 DEF MovesCover
  <2>. QED
    BY <1>1, <2>1, RestStays
<1>. QED
  BY <1>4, <1>5, <1>6 DEF MovesCover, UnderWay, Looks

(* The price is the market's, or missing: what was ahead of the symbol is  *)
(* now due, or cannot be found.                                            *)
LEMMA TickCovers ==
  ASSUME AlertTyped, MovesCover, NEW y \in Cycles, FetchTick(y)
  PROVE  MovesCover'
<1>1. /\ UNCHANGED <<objects, history, previous, market, moves>>
      /\ cycle[y].left # {} /\ ~Looks(y) /\ \A z \in Cycles : z # y => cycle'[z] = cycle[z]
      /\ cycle'[y].at = "data" /\ cycle'[y].left = cycle[y].left /\ cycle'[y].symbol \in AlertSymbols
      /\ cycle'[y].price \in {NoValue, market[cycle'[y].symbol]["price"]}
  BY TickDoes
<1>2. \A z \in Cycles : ~Looks(z) /\ (z # y => ~Looks(z)')
  BY <1>1, Alone DEF Looks
<1>3. \A s \in AlertSymbols : RestCovered(s) /\ RestCovered(s)'
  <2>1. \A s \in AlertSymbols : RestCovered(s)
    BY <1>2 DEF MovesCover
  <2>. QED
    BY <1>1, <2>1, RestStays
<1>4. LookCovered(y)'
  <2>1. PICK s \in AlertSymbols : s = cycle'[y].symbol
    BY <1>1
  <2>. DEFINE p == previous[s]["price"]
              m == market[s]["price"]
  <2>2. /\ Changed(p, m) <= moves[s] /\ moves[s] \in Nat /\ \A i \in Crossing(s) : Entries(i) + Changed(p, m) <= moves[s]
        /\ \A i : Entries(i) \in Nat
    BY <1>3, CountsAreNumbers DEF RestCovered
  <2>3. Due(y)' = Changed(p, cycle'[y].price) /\ Beyond(y)' = Changed(cycle'[y].price, m)
    BY <1>1, <2>1 DEF Due, Beyond, Sighted
  <2>4. Due(y)' \in Int /\ Beyond(y)' \in {0} /\ Due(y)' <= Changed(p, m) /\ Changed(p, m) \in Int /\ 0 <= Due(y)'
    BY <1>1, <2>1, <2>3, ChangedFacts
  <2>5. \A i : Entries(i)' = Entries(i) /\ Crossing(s)' = Crossing(s) /\ moves'[s] = moves[s]
    BY <1>1 DEF Entries, Crossing
  <2>. HIDE DEF p, m
  <2>6. ASSUME NEW i \in Crossing(s) PROVE Entries(i) + Due(y)' + Beyond(y)' <= moves[s] /\ Entries(i) + Beyond(y)' <= moves[s]
    BY <2>2, <2>4
  <2>7. Due(y)' + Beyond(y)' <= moves[s]
    BY <2>2, <2>4
  <2>. QED
    BY <2>1, <2>5, <2>6, <2>7 DEF LookCovered
<1>5. \A z \in Cycles : Looks(z)' => z = y
  BY <1>2
<1>6. \A z \in Cycles : cycle'[z].left = cycle[z].left /\ (cycle'[z].at = "alerts" => z # y /\ Looks(z)')
  BY <1>1 DEF Looks
<1>. QED
  BY <1>2, <1>3, <1>4, <1>5, <1>6 DEF MovesCover, UnderWay

(* The rest of the data leaves the price.                                  *)
LEMMA DataCovers ==
  ASSUME AlertTyped, MovesCover, NEW y \in Cycles, FetchData(y)
  PROVE  MovesCover'
<1>1. /\ UNCHANGED <<objects, history, previous, market, moves>>
      /\ \A z \in Cycles : z # y => cycle'[z] = cycle[z]
      /\ cycle[y].at = "data" /\ cycle'[y].at = "alerts" /\ cycle'[y].left = cycle[y].left
      /\ cycle'[y].symbol = cycle[y].symbol /\ cycle'[y].before = previous[cycle[y].symbol]
      /\ cycle'[y].now["price"] = cycle[y].price
  BY DataDoes
<1>2. cycle[y].left # {} /\ Looks(y) /\ Looks(y)'
  BY <1>1 DEF AlertTyped, CycleTyped, Looks
<1>3. \A z \in Cycles : z # y => ~Looks(z) /\ ~Looks(z)'
  BY <1>1, <1>2, Alone DEF Looks
<1>4. LookCovered(y)'
  <2>1. Due(y)' = Due(y) /\ Beyond(y)' = Beyond(y) /\ Waits(y, 0)
    BY <1>1 DEF Due, Beyond, Sighted, Waits
  <2>2. LookCovered(y) /\ \A i : Waits(y, i)
    BY <1>1, <1>2 DEF MovesCover, Waits
  <2>3. \A i, s : Entries(i)' = Entries(i) /\ Crossing(s)' = Crossing(s)
    BY <1>1 DEF Entries, Crossing
  <2>. QED
    BY <1>1, <2>1, <2>2, <2>3 DEF LookCovered
<1>5. \A s \in AlertSymbols : s # cycle[y].symbol => RestCovered(s)'
  <2>1. \A s \in AlertSymbols : s # cycle[y].symbol => RestCovered(s)
    BY <1>3 DEF MovesCover
  <2>. QED
    BY <1>1, <2>1, RestStays
<1>6. \A z \in Cycles : cycle'[z].left = cycle[z].left /\ (cycle'[z].at = "alerts" => Looks(z)')
  BY <1>1 DEF Looks
<1>. QED
  BY <1>1, <1>2, <1>3, <1>4, <1>5, <1>6 DEF MovesCover, UnderWay

(* A crossing that fires spends the move that was due.                     *)
LEMMA TriggerCovers ==
  ASSUME AlertTyped, MovesCover, NEW y \in Cycles, NEW i \in DOMAIN objects, Trigger(y, i)
  PROVE  MovesCover'
<1>1. /\ UNCHANGED <<clock, previous, market, moves>>
      /\ Record(i, Stored(i)) /\ Stored(i) \in BOOLEAN /\ objects' = Marked(objects[i].id)
      /\ Fires(y, i) /\ cycle[y].at = "alerts" /\ i \in cycle[y].group
      /\ \A z \in Cycles : z # y => cycle'[z] = cycle[z]
      /\ cycle'[y] = [cycle[y] EXCEPT !.group = @ \ {i}]
  BY TriggerDoes
<1>2. /\ DOMAIN objects' = DOMAIN objects
      /\ \A k \in DOMAIN objects : objects'[k].symbol = objects[k].symbol /\ objects'[k].rule = objects[k].rule
  BY <1>1, MarkKeeps
<1>3. /\ \A q \in DOMAIN objects : Entries(q)' <= Entries(q) + (IF q = i THEN 1 ELSE 0)
      /\ \A q \in DOMAIN objects : Entries(q) \in Nat /\ Entries(q)' \in Nat
      /\ \A s \in AlertSymbols : moves[s] \in Nat
  BY <1>1, <1>2, RecordKeeps, CountsAreNumbers
<1>4. /\ cycle[y] \in CycleState /\ cycle[y].left # {} /\ cycle[y].symbol \in AlertSymbols
      /\ objects[i].symbol = cycle[y].symbol /\ Looks(y)
  BY <1>1 DEF AlertTyped, CycleTyped, Looks
<1>5. /\ cycle'[y].at = "alerts" /\ cycle'[y].left = cycle[y].left /\ cycle'[y].symbol = cycle[y].symbol
      /\ cycle'[y].now = cycle[y].now /\ cycle'[y].before = cycle[y].before
      /\ cycle'[y].group = cycle[y].group \ {i}
  BY <1>1, <1>4 DEF CycleState
<1>6. \A z \in Cycles : z # y => ~Looks(z) /\ ~Looks(z)'
  BY <1>1, <1>4, Alone DEF Looks
<1>7. \A s \in AlertSymbols : Crossing(s)' = Crossing(s) /\ Crossing(s) \subseteq DOMAIN objects
  BY <1>2 DEF Crossing
<1>8. ASSUME NEW s \in AlertSymbols, s # cycle[y].symbol PROVE RestCovered(s)'
  <2>1. RestCovered(s) /\ i \notin Crossing(s)
    BY <1>4, <1>6, <1>8 DEF MovesCover, Crossing
  <2>2. Changed(previous[s]["price"], market[s]["price"]) \in {0, 1}
    BY ChangedFacts
  <2>3. \A q \in Crossing(s) : Entries(q)' <= Entries(q) /\ Entries(q)' \in Nat /\ Entries(q) \in Nat
    BY <1>3, <1>7, <2>1
  <2>. QED
    BY <1>1, <1>3, <1>7, <2>1, <2>2, <2>3 DEF RestCovered
<1>9. LookCovered(y)'
  <2>1. PICK s \in AlertSymbols : s = cycle[y].symbol /\ s = cycle'[y].symbol
    BY <1>4, <1>5
  <2>2. Due(y)' = Due(y) /\ Beyond(y)' = Beyond(y)
    BY <1>1, <1>5 DEF Due, Beyond, Sighted
  <2>3. Due(y) \in {0, 1} /\ Beyond(y) \in {0, 1}
    BY ChangedFacts DEF Due, Beyond
  <2>4. /\ Due(y) + Beyond(y) <= moves[s] /\ moves[s] \in Nat
        /\ \A q \in Crossing(s) : /\ Entries(q) + Beyond(y) <= moves[s]
                                  /\ Waits(y, q) => Entries(q) + Due(y) + Beyond(y) <= moves[s]
    BY <1>3, <1>4, <2>1 DEF LookCovered, MovesCover
  <2>5. Waits(y, i) /\ ~Waits(y, i)' /\ \A q : q # i => (Waits(y, q)' <=> Waits(y, q))
    BY <1>1, <1>5 DEF Waits
  <2>6. cycle[y].before = previous[cycle[y].symbol]
    BY <1>1 DEF MovesCover
  <2>7. i \in Crossing(s) => Due(y) = 1
    BY <1>1, <2>6, CrossingDiffers DEF Crossing, Due
  <2>8. ASSUME NEW q \in Crossing(s)
        PROVE  /\ Entries(q)' + Beyond(y) <= moves[s]
               /\ Waits(y, q)' => Entries(q)' + Due(y) + Beyond(y) <= moves[s]
    <3>1. Entries(q)' \in Nat /\ Entries(q) \in Nat
      BY <1>3, <1>7
    <3>2. CASE q = i
      <4>1. Entries(q)' <= Entries(q) + 1 /\ Entries(q) + 1 + Beyond(y) <= moves[s]
        BY <1>3, <1>7, <2>4, <2>5, <2>7, <3>2
      <4>. QED
        BY <2>3, <2>4, <2>5, <3>1, <3>2, <4>1
    <3>3. CASE q # i
      <4>1. Entries(q)' <= Entries(q)
        BY <1>3, <1>7, <3>1, <3>3
      <4>2. Waits(y, q)' => Waits(y, q)
        BY <2>5, <3>3
      <4>. QED
        BY <2>3, <2>4, <3>1, <4>1, <4>2
    <3>. QED
      BY <3>2, <3>3
  <2>. QED
    BY <1>1, <1>7, <2>1, <2>2, <2>4, <2>8 DEF LookCovered
<1>10. \A z \in Cycles : cycle'[z].left = cycle[z].left /\ (cycle'[z].at = "alerts" => Looks(z)')
  BY <1>1, <1>5 DEF Looks
<1>11. \A z \in Cycles : cycle'[z].at = "alerts" => cycle'[z].before = previous'[cycle'[z].symbol]
  <2>1. cycle'[y].before = previous'[cycle'[y].symbol]
    BY <1>1, <1>5 DEF MovesCover
  <2>. QED
    BY <1>6, <1>10, <2>1
<1>12. UnderWay' = UnderWay
  BY <1>10 DEF UnderWay
<1>13. \A s \in AlertSymbols : (\A z \in Cycles : Looks(z)' => cycle'[z].symbol # s) => RestCovered(s)'
  <2>1. Looks(y)' /\ cycle'[y].symbol = cycle[y].symbol
    BY <1>5 DEF Looks
  <2>. QED
    BY <1>8, <2>1
<1>14. \A z \in Cycles : Looks(z)' => LookCovered(z)'
  BY <1>6, <1>9
<1>. QED
  BY <1>11, <1>12, <1>13, <1>14 DEF MovesCover

(* What the cycle saw is what was last seen.                               *)
LEMMA FinishCovers ==
  ASSUME AlertTyped, MovesCover, NEW y \in Cycles, FinishSymbol(y)
  PROVE  MovesCover'
<1>1. /\ UNCHANGED <<objects, history, market, moves, overlapped>>
      /\ cycle[y].left # {} /\ cycle[y].at = "alerts" /\ cycle[y].symbol \in AlertSymbols
      /\ ~Looks(y)' /\ \A z \in Cycles : z # y => cycle'[z] = cycle[z]
      /\ \A s \in AlertSymbols :
           previous'[s]["price"] = IF s = cycle[y].symbol THEN cycle[y].now["price"] ELSE previous[s]["price"]
  BY FinishDoes
<1>2. \A z \in Cycles : ~Looks(z)' /\ (z # y => ~Looks(z) /\ cycle'[z].left = {})
  BY <1>1, Alone DEF Looks
<1>3. ASSUME NEW s \in AlertSymbols, s # cycle[y].symbol PROVE RestCovered(s)'
  <2>1. RestCovered(s)
    BY <1>2, <1>3 DEF MovesCover
  <2>2. previous'[s]["price"] = previous[s]["price"]
    BY <1>1, <1>3
  <2>. QED
    BY <1>1, <2>1, <2>2, RestStays
<1>4. ASSUME NEW s \in AlertSymbols, s = cycle[y].symbol PROVE RestCovered(s)'
  <2>1. LookCovered(y)
    BY <1>1 DEF MovesCover, Looks
  <2>2. Changed(previous'[s]["price"], market'[s]["price"]) = Beyond(y)
    BY <1>1, <1>4 DEF Beyond, Sighted
  <2>3. Due(y) \in {0, 1} /\ Beyond(y) \in {0, 1} /\ moves[s] \in Nat
    BY ChangedFacts, CountsAreNumbers DEF Due, Beyond
  <2>4. Beyond(y) <= moves[s] /\ \A i \in Crossing(s) : Entries(i) + Beyond(y) <= moves[s]
    BY <1>4, <2>1, <2>3 DEF LookCovered
  <2>5. \A i : Entries(i)' = Entries(i) /\ Crossing(s)' = Crossing(s)
    BY <1>1 DEF Entries, Crossing
  <2>. QED
    BY <1>1, <2>2, <2>4, <2>5 DEF RestCovered
<1>5. \A w, z \in UnderWay' : w = z
  BY <1>2 DEF UnderWay
<1>6. \A z \in Cycles : cycle'[z].at # "alerts"
  BY <1>2 DEF Looks
<1>. QED
  BY <1>2, <1>3, <1>4, <1>5, <1>6 DEF MovesCover

(* A move more, and the market may differ by one more.                     *)
LEMMA MoveCovers ==
  ASSUME AlertTyped, MovesCover, NEW s \in AlertSymbols, NEW d \in MarketData, MarketMoves(s, d)
  PROVE  MovesCover'
<1>1. /\ UNCHANGED <<objects, history, previous, cycle>>
      /\ market' = [market EXCEPT ![s] = d] /\ moves' = [moves EXCEPT ![s] = @ + 1]
      /\ DOMAIN market = AlertSymbols /\ DOMAIN moves = AlertSymbols
  BY DEF MarketMoves, store, AlertTyped, WorldTyped
<1>2. \A r \in AlertSymbols : moves[r] \in Nat /\ moves'[r] \in Nat
                            /\ (IF r = s THEN moves'[r] = moves[r] + 1 ELSE moves'[r] = moves[r] /\ market'[r] = market[r])
  BY <1>1, CountsAreNumbers
<1>3. ASSUME NEW r \in AlertSymbols, NEW p
      PROVE  /\ Changed(p, market[r]["price"]) \in {0, 1} /\ Changed(p, market'[r]["price"]) \in {0, 1}
             /\ Changed(p, market'[r]["price"]) - Changed(p, market[r]["price"]) <= moves'[r] - moves[r]
  <2>1. Changed(p, market[r]["price"]) \in {0, 1} /\ Changed(p, market'[r]["price"]) \in {0, 1}
    BY ChangedFacts
  <2>2. CASE r = s
    BY <1>2, <2>1, <2>2
  <2>3. CASE r # s
    BY <1>2, <2>1, <2>3
  <2>. QED
    BY <2>1, <2>2, <2>3
<1>4. \A i : Entries(i)' = Entries(i) /\ Entries(i) \in Nat
  BY <1>1, CountsAreNumbers DEF Entries
<1>5. \A r \in AlertSymbols : Crossing(r)' = Crossing(r)
  BY <1>1 DEF Crossing
<1>6. ASSUME NEW r \in AlertSymbols, RestCovered(r) PROVE RestCovered(r)'
  <2>. DEFINE a == Changed(previous[r]["price"], market[r]["price"])
              b == Changed(previous[r]["price"], market'[r]["price"])
  <2>1. a \in {0, 1} /\ b \in {0, 1} /\ b - a <= moves'[r] - moves[r] /\ moves[r] \in Nat /\ moves'[r] \in Nat
    BY <1>2, <1>3
  <2>2. a <= moves[r] /\ \A i \in Crossing(r) : Entries(i) + a <= moves[r]
    BY <1>6 DEF RestCovered
  <2>3. RestCovered(r)' <=> b <= moves'[r] /\ \A i \in Crossing(r) : Entries(i) + b <= moves'[r]
    BY <1>1, <1>4, <1>5 DEF RestCovered
  <2>. HIDE DEF a, b
  <2>. QED
    BY <1>4, <2>1, <2>2, <2>3
<1>7. ASSUME NEW y \in Cycles, Looks(y), LookCovered(y) PROVE LookCovered(y)'
  <2>1. PICK r \in AlertSymbols : r = cycle[y].symbol /\ r = cycle'[y].symbol
    BY <1>1, <1>7 DEF Looks, AlertTyped, CycleTyped
  <2>2. /\ Due(y)' = Due(y) /\ Beyond(y) = Changed(Sighted(y), market[r]["price"])
        /\ Beyond(y)' = Changed(Sighted(y), market'[r]["price"]) /\ \A i : Waits(y, i)' <=> Waits(y, i)
    BY <1>1, <2>1 DEF Due, Beyond, Sighted, Waits
  <2>3. /\ Due(y) \in {0, 1} /\ Beyond(y) \in {0, 1} /\ Beyond(y)' \in {0, 1}
        /\ Beyond(y)' - Beyond(y) <= moves'[r] - moves[r] /\ moves[r] \in Nat /\ moves'[r] \in Nat
    <3>1. Due(y) \in {0, 1}
      BY ChangedFacts DEF Due
    <3>. QED
      BY <1>2, <1>3, <2>2, <3>1
  <2>4. /\ Due(y) + Beyond(y) <= moves[r]
        /\ \A i \in Crossing(r) : /\ Entries(i) + Beyond(y) <= moves[r]
                                  /\ Waits(y, i) => Entries(i) + Due(y) + Beyond(y) <= moves[r]
    BY <1>7, <2>1 DEF LookCovered
  <2>5. Due(y) + Beyond(y)' <= moves'[r]
    BY <2>3, <2>4
  <2>6. ASSUME NEW i \in Crossing(r)
        PROVE  /\ Entries(i) + Beyond(y)' <= moves'[r]
               /\ Waits(y, i) => Entries(i) + Due(y) + Beyond(y)' <= moves'[r]
    BY <1>4, <2>3, <2>4
  <2>. QED
    BY <1>4, <1>5, <2>1, <2>2, <2>5, <2>6 DEF LookCovered
<1>. QED
  BY <1>1, <1>6, <1>7 DEF MovesCover, UnderWay, Looks

(* Nothing is seen any more, so that nothing is ahead; what was recorded   *)
(* last, if anything, was due.                                             *)
LEMMA ForgetCovers ==
  ASSUME AlertTyped, MovesCover, UNCHANGED <<objects, market, moves>>,
         \A z \in Cycles : ~Looks(z)' /\ cycle'[z].left = {},
         \A s \in AlertSymbols : previous'[s]["price"] = NoValue,
         \A s \in AlertSymbols : \A q \in Crossing(s) : Entries(q)' \in Nat /\ Entries(q)' <= moves[s]
  PROVE  MovesCover'
<1>1. ASSUME NEW s \in AlertSymbols PROVE RestCovered(s)'
  <2>1. Changed(previous'[s]["price"], market'[s]["price"]) = 0
    BY ChangedFacts
  <2>2. Crossing(s)' = Crossing(s) /\ moves'[s] = moves[s] /\ moves[s] \in Nat
    BY CountsAreNumbers DEF Crossing
  <2>3. \A q \in Crossing(s) : Entries(q)' + 0 <= moves[s]
    OBVIOUS
  <2>. QED
    BY <2>1, <2>2, <2>3 DEF RestCovered
<1>. QED
  BY <1>1 DEF MovesCover, UnderWay, Looks

LEMMA EntriesCovered ==
  ASSUME AlertTyped, MovesCover, NEW s \in AlertSymbols, NEW i \in Crossing(s)
  PROVE  Entries(i) <= moves[s]
<1>1. Entries(i) \in Nat /\ moves[s] \in Nat
  BY CountsAreNumbers
<1>2. CASE RestCovered(s)
  <2>1. Changed(previous[s]["price"], market[s]["price"]) \in {0, 1}
    BY ChangedFacts
  <2>. QED
    BY <1>1, <1>2, <2>1 DEF RestCovered
<1>3. ASSUME NEW y \in Cycles, Looks(y), cycle[y].symbol = s PROVE Entries(i) <= moves[s]
  <2>1. LookCovered(y)
    BY <1>3 DEF MovesCover
  <2>2. Beyond(y) \in {0, 1}
    BY ChangedFacts DEF Beyond
  <2>. QED
    BY <1>1, <1>3, <2>1, <2>2 DEF LookCovered
<1>. QED
  BY <1>2, <1>3 DEF MovesCover

LEMMA RestartCovers ==
  ASSUME AlertTyped, MovesCover, Forget, UNCHANGED history
  PROVE  MovesCover'
<1>1. HistoryTyped'
  BY DEF AlertTyped, HistoryTyped, Forget, store, world
<1>2. /\ UNCHANGED <<objects, market, moves>>
      /\ \A z \in Cycles : ~Looks(z)' /\ cycle'[z].left = {}
      /\ \A s \in AlertSymbols : previous'[s]["price"] = NoValue
  BY <1>1, ForgetDoes
<1>3. \A i : Entries(i)' = Entries(i) /\ Entries(i) \in Nat
  BY CountsAreNumbers DEF Entries
<1>4. \A s \in AlertSymbols : \A q \in Crossing(s) : Entries(q)' \in Nat /\ Entries(q)' <= moves[s]
  BY <1>3, EntriesCovered
<1>. QED
  BY <1>2, <1>4, ForgetCovers

LEMMA CrashCovers ==
  ASSUME AlertTyped, MovesCover, NEW y \in Cycles, NEW i \in DOMAIN objects, CrashAfterRecord(y, i)
  PROVE  MovesCover'
<1>1. /\ UNCHANGED <<objects, clock, market, moves>> /\ Record(i, FALSE)
      /\ Fires(y, i) /\ cycle[y].at = "alerts" /\ i \in cycle[y].group
      /\ \A z \in Cycles : ~Looks(z)' /\ cycle'[z].left = {}
      /\ \A s \in AlertSymbols : previous'[s]["price"] = NoValue
  BY CrashDoes
<1>2. /\ \A q \in DOMAIN objects : Entries(q)' <= Entries(q) + (IF q = i THEN 1 ELSE 0)
      /\ \A q \in DOMAIN objects : Entries(q) \in Nat /\ Entries(q)' \in Nat
      /\ \A s \in AlertSymbols : moves[s] \in Nat
  BY <1>1, RecordKeeps, CountsAreNumbers
<1>3. Looks(y) /\ LookCovered(y) /\ objects[i].symbol = cycle[y].symbol /\ Waits(y, i)
  BY <1>1 DEF MovesCover, AlertTyped, CycleTyped, Looks, Waits
<1>4. cycle[y].before = previous[cycle[y].symbol]
  BY <1>1 DEF MovesCover
<1>5. ASSUME NEW s \in AlertSymbols, NEW q \in Crossing(s)
      PROVE  Entries(q)' \in Nat /\ Entries(q)' <= moves[s]
  <2>1. q \in DOMAIN objects /\ Entries(q) <= moves[s] /\ Entries(q)' \in Nat /\ Entries(q) \in Nat
    BY <1>2, EntriesCovered DEF Crossing
  <2>2. CASE q # i
    <3>1. Entries(q)' <= Entries(q)
      BY <1>2, <2>1, <2>2
    <3>. QED
      BY <1>2, <2>1, <3>1
  <2>3. CASE q = i
    <3>1. s = cycle[y].symbol /\ Due(y) = 1
      BY <1>1, <1>3, <1>4, <2>3, CrossingDiffers DEF Crossing, Due
    <3>2. Beyond(y) \in {0, 1}
      BY ChangedFacts DEF Beyond
    <3>3. Entries(q) + Due(y) + Beyond(y) <= moves[s]
      BY <1>3, <2>3, <3>1 DEF LookCovered
    <3>4. Entries(q)' <= Entries(q) + 1
      BY <1>2, <2>1, <2>3
    <3>. QED
      BY <1>2, <2>1, <3>1, <3>2, <3>3, <3>4
  <2>. QED
    BY <2>2, <2>3
<1>. QED
  BY <1>1, <1>5, ForgetCovers

----------------------------------------------------------------------------
(* Alerts: the inductive invariant.                                        *)

LEMMA AlertStarts == AlertInit => AlertInv
<1>. SUFFICES ASSUME AlertInit PROVE AlertInv
  OBVIOUS
<1>1. /\ objects = <<>> /\ table = [a \in {} |-> 0] /\ history = <<>> /\ clock = 0 /\ overlapped = FALSE
      /\ previous = [s \in AlertSymbols |-> Unseen] /\ cycle = [y \in Cycles |-> Idle]
      /\ market = [s \in AlertSymbols |-> Opening] /\ moves = [s \in AlertSymbols |-> 0]
  BY DEF AlertInit
<1>2. Unseen \in [Kept -> Values] /\ Unseen["price"] = NoValue
  BY DEF Unseen, Values, Kept
<1>3. Idle \in CycleState /\ Idle.at = "tick" /\ Idle.left = {} /\ Idle.group = {}
  BY <1>2 DEF CycleState, Idle, Values
<1>4. \A y \in Cycles : CycleTyped(y) /\ ~Looks(y) /\ cycle[y].left = {} /\ cycle[y].at # "alerts"
  BY <1>1, <1>3 DEF CycleTyped, Looks
<1>5. cycle \in [Cycles -> CycleState] /\ previous \in [AlertSymbols -> [Kept -> Values]]
  BY <1>1, <1>2, <1>3
<1>6. StoreTyped /\ HistoryTyped
  <2>1. /\ <<>> \in Seq(AlertObject) /\ Len(<<>>) <= MaxObjects /\ DOMAIN <<>> = {}
        /\ <<>> \in Seq(AlertRow) /\ Len(<<>>) <= MaxHistory
    BY BoundAssumption, HistoryAssumption
  <2>2. DOMAIN table = {}
    BY <1>1
  <2>. QED
    BY <1>1, <2>1, <2>2 DEF StoreTyped, HistoryTyped
<1>7. WorldTyped
  <2>1. market \in [AlertSymbols -> MarketData]
    BY <1>1, MarketAssumption, Zenon
  <2>2. clock \in 0 .. MaxTime /\ 0 \in 0 .. MaxMoves
    BY <1>1, BoundAssumption
  <2>3. moves \in [AlertSymbols -> 0 .. MaxMoves]
    BY <1>1, <2>2, Zenon
  <2>. QED
    BY <1>1, <2>1, <2>2, <2>3 DEF WorldTyped
<1>8. AlertTyped
  BY <1>4, <1>5, <1>6, <1>7 DEF AlertTyped
<1>9. TriggersKept
  BY <1>1 DEF TriggersKept, CooldownKept, TriggerRemembered
<1>10. \A s \in AlertSymbols : RestCovered(s)
  <2>1. \A s \in AlertSymbols : Changed(previous[s]["price"], market[s]["price"]) = 0 /\ moves[s] = 0 /\ Crossing(s) = {}
    BY <1>1, <1>2, ChangedFacts DEF Crossing
  <2>. QED
    BY <2>1 DEF RestCovered
<1>. QED
  BY <1>4, <1>8, <1>9, <1>10 DEF AlertInv, MovesCover, UnderWay

(* Every step, one action at a time.                                       *)
LEMMA AlertStepKeeps == AlertInv /\ [AlertNext]_alertVars => AlertInv'
<1>. SUFFICES ASSUME AlertInv, [AlertNext]_alertVars PROVE AlertInv'
  OBVIOUS
<1>1. AlertTyped /\ TriggersKept /\ (~overlapped => MovesCover)
  BY DEF AlertInv
<1>2. ASSUME NEW o, Put(o), AlertTyped' PROVE AlertInv'
  <2>1. UNCHANGED <<history, previous, cycle, market, moves, overlapped>> /\ objects' = Append(objects, o)
    BY <1>2 DEF Put, world
  <2>2. \A k \in DOMAIN objects : k \in DOMAIN objects' /\ objects'[k] = objects[k]
    BY <1>1, <2>1 DEF AlertTyped, StoreTyped
  <2>. QED
    BY <1>1, <1>2, <2>1, <2>2, RememberedStays, StoreStepCovers DEF AlertInv
<1>3. ASSUME NEW s \in AlertSymbols, NEW rule \in AlertObjects, Create(s, rule) PROVE AlertInv'
  BY <1>1, <1>2, <1>3, CreateTyped DEF Create
<1>4. ASSUME NEW a \in DOMAIN table, Update(a) PROVE AlertInv'
  BY <1>1, <1>2, <1>4, UpdateTyped DEF Update
<1>5. ASSUME AlertTyped', UNCHANGED <<objects, history, previous, cycle, market, moves, overlapped>> PROVE AlertInv'
  <2>1. \A k \in DOMAIN objects : k \in DOMAIN objects' /\ objects'[k] = objects[k]
    BY <1>5
  <2>. QED
    BY <1>1, <1>5, <2>1, RememberedStays, StoreStepCovers DEF AlertInv
<1>6. ASSUME NEW a \in DOMAIN table, Delete(a) PROVE AlertInv'
  <2>1. AlertTyped' /\ UNCHANGED <<objects, history, previous, cycle, market, moves, overlapped>>
    BY <1>1, <1>6, DeleteTyped DEF Delete, world
  <2>. QED
    BY <1>5, <2>1
<1>7. CASE Tick
  <2>1. AlertTyped' /\ UNCHANGED <<objects, history, previous, cycle, market, moves, overlapped>>
    BY <1>1, <1>7, WorldStepTyped DEF Tick, store
  <2>. QED
    BY <1>5, <2>1
<1>8. CASE UNCHANGED alertVars
  <2>1. UNCHANGED <<objects, table, history, previous, cycle, clock, market, moves, overlapped>>
    BY <1>8 DEF alertVars, store, world
  <2>2. AlertTyped'
    BY <1>1, <2>1 DEF AlertTyped, StoreTyped, HistoryTyped, WorldTyped, CycleTyped
  <2>. QED
    BY <1>5, <2>1, <2>2
<1>9. ASSUME NEW y \in Cycles, StartCycle(y) PROVE AlertInv'
  <2>1. AlertTyped' /\ UNCHANGED <<objects, history>> /\ (~overlapped' => ~overlapped)
    BY <1>1, <1>9, StartDoes DEF StartCycle
  <2>2. \A k \in DOMAIN objects : objects'[k] = objects[k]
    BY <2>1
  <2>. QED
    BY <1>1, <1>9, <2>1, <2>2, RememberedStays, StartCovers DEF AlertInv
<1>10. ASSUME NEW y \in Cycles, FetchTick(y) \/ FetchData(y) \/ FinishSymbol(y) PROVE AlertInv'
  <2>1. AlertTyped' /\ UNCHANGED <<objects, history, overlapped>>
    BY <1>1, <1>10, TickDoes, DataDoes, FinishDoes
  <2>2. \A k \in DOMAIN objects : objects'[k] = objects[k]
    BY <2>1
  <2>3. TriggersKept'
    BY <1>1, <2>1, <2>2, RememberedStays
  <2>4. ~overlapped' => MovesCover'
    BY <1>1, <1>10, <2>1, TickCovers, DataCovers, FinishCovers
  <2>. QED
    BY <2>1, <2>3, <2>4 DEF AlertInv
<1>11. ASSUME NEW y \in Cycles, NEW i \in DOMAIN objects, Trigger(y, i) PROVE AlertInv'
  <2>1. /\ AlertTyped' /\ UNCHANGED <<clock, overlapped>> /\ Record(i, Stored(i)) /\ Stored(i) \in BOOLEAN
        /\ objects' = Marked(objects[i].id) /\ Fires(y, i)
    BY <1>1, <1>11, TriggerDoes
  <2>2. TriggersKept'
    <3>1. /\ DOMAIN objects' = DOMAIN objects
          /\ \A k \in DOMAIN objects :
               /\ objects'[k].rule = objects[k].rule /\ objects'[k].last \in {objects[k].last, clock}
               /\ ~objects[k].enabled => ~objects'[k].enabled
          /\ Stored(i) => objects'[i].last = clock /\ (objects[i].rule.mode = "once" => ~objects'[i].enabled)
      BY <1>1, <2>1, MarkKeeps
    <3>. QED
      BY <1>1, <2>1, <3>1, FiringKeeps
  <2>3. ~overlapped' => MovesCover'
    BY <1>1, <1>11, <2>1, TriggerCovers
  <2>. QED
    BY <2>1, <2>2, <2>3 DEF AlertInv
<1>12. ASSUME NEW y \in Cycles, NEW i \in DOMAIN objects, CrashAfterRecord(y, i) PROVE AlertInv'
  <2>1. AlertTyped' /\ UNCHANGED <<objects, clock, overlapped>> /\ Record(i, FALSE) /\ Fires(y, i)
    BY <1>1, <1>12, CrashDoes
  <2>2. /\ DOMAIN objects' = DOMAIN objects
        /\ \A k \in DOMAIN objects : /\ objects'[k].rule = objects[k].rule
                                     /\ objects'[k].last \in {objects[k].last, clock}
                                     /\ ~objects[k].enabled => ~objects'[k].enabled
    BY <2>1
  <2>3. TriggersKept'
    BY <1>1, <2>1, <2>2, FiringKeeps
  <2>. QED
    BY <1>1, <1>12, <2>1, <2>3, CrashCovers DEF AlertInv
<1>13. ASSUME NEW s \in AlertSymbols, NEW d \in MarketData, MarketMoves(s, d) PROVE AlertInv'
  <2>1. AlertTyped' /\ UNCHANGED <<objects, history, overlapped>>
    BY <1>1, <1>13, WorldStepTyped DEF MarketMoves, store
  <2>2. \A k \in DOMAIN objects : objects'[k] = objects[k]
    BY <2>1
  <2>. QED
    BY <1>1, <1>13, <2>1, <2>2, RememberedStays, MoveCovers DEF AlertInv
<1>14. CASE AlertRestart
  <2>1. Forget /\ UNCHANGED <<objects, history, clock, overlapped>>
    BY <1>14 DEF AlertRestart, Forget, store, world
  <2>2. HistoryTyped'
    BY <1>1, <2>1 DEF AlertTyped, HistoryTyped
  <2>3. AlertTyped' /\ \A k \in DOMAIN objects : objects'[k] = objects[k]
    BY <1>1, <2>1, <2>2, ForgetDoes
  <2>. QED
    BY <1>1, <2>1, <2>3, RememberedStays, RestartCovers DEF AlertInv
<1>. QED
  BY <1>3, <1>4, <1>6, <1>7, <1>8, <1>9, <1>10, <1>11, <1>12, <1>13, <1>14 DEF AlertNext

(* The inductive invariant of the alerts holds of every behaviour          *)
(* (AlertEngine.js, AlertStore.js, AlertHistoryStore.js).                  *)
THEOREM AlertInductive == AlertSpec => []AlertInv
<1>. QED
  BY AlertStarts, AlertStepKeeps, PTL DEF AlertSpec

LEMMA AlertInvTypes == AlertInv => AlertTypeOK
<1>. SUFFICES ASSUME AlertInv PROVE AlertTypeOK
  OBVIOUS
<1>1. AlertTyped
  BY DEF AlertInv
<1>2. ASSUME NEW i \in DOMAIN objects
      PROVE  /\ objects[i].id \in 1 .. MaxObjects /\ objects[i].symbol \in AlertSymbols
             /\ objects[i].rule \in AlertObjects /\ objects[i].enabled \in BOOLEAN
             /\ objects[i].last \in (0 .. clock) \cup {NoValue}
  <2>1. objects[i] \in AlertObject /\ clock \in Nat /\ (objects[i].last # NoValue => objects[i].last <= clock)
    BY <1>1, AlertTypes DEF AlertTyped, StoreTyped
  <2>. QED
    BY <2>1 DEF AlertObject
<1>3. \A y \in Cycles : /\ cycle[y].left \subseteq DOMAIN objects
                        /\ cycle[y].group \subseteq {i \in DOMAIN objects : objects[i].symbol = cycle[y].symbol}
                        /\ cycle[y].at \in {"tick", "data", "alerts"}
  BY <1>1 DEF AlertTyped, CycleTyped, CycleState
<1>4. /\ Len(objects) <= MaxObjects /\ Len(history) <= MaxHistory
      /\ \A a \in DOMAIN table : table[a] \in DOMAIN objects /\ objects[table[a]].id = a
      /\ previous \in [AlertSymbols -> [Kept -> Int \cup {NoValue}]]
      /\ clock \in 0 .. MaxTime /\ market \in [AlertSymbols -> MarketData] /\ moves \in [AlertSymbols -> 0 .. MaxMoves]
  BY <1>1 DEF AlertTyped, StoreTyped, HistoryTyped, WorldTyped, Values
<1>. QED
  BY <1>2, <1>3, <1>4 DEF AlertTypeOK

(* Every variable keeps to its type (AlertStore.js).                       *)
THEOREM AlertTypeCorrect == AlertSpec => []AlertTypeOK
<1>. QED
  BY AlertInductive, AlertInvTypes, PTL


(* A marked trigger is remembered by its object and keeps the next one     *)
(* away for the cooldown, however cycles overlap, objects are edited and   *)
(* the process dies (AlertEngine._triggerAlert, _canTrigger).              *)
THEOREM TriggersAreKept == AlertSpec => []TriggersKept
<1>1. AlertInv => TriggersKept
  BY DEF AlertInv
<1>. QED
  BY AlertInductive, <1>1, PTL

(* As long as cycles do not overlap, no crossing is reported without a     *)
(* move of the market of its own (AlertEngine._evaluateSymbol).            *)
THEOREM CrossingsHaveMoves == AlertSpec => []CrossingsMoved
<1>1. AlertInv => CrossingsMoved
  <2>. SUFFICES ASSUME AlertInv, ~overlapped, NEW i \in DOMAIN objects, objects[i].rule.type = "price_cross"
                PROVE  Entries(i) <= moves[objects[i].symbol]
    BY DEF CrossingsMoved, Entries
  <2>1. AlertTyped /\ MovesCover
    BY DEF AlertInv
  <2>2. objects[i].symbol \in AlertSymbols
    BY <2>1, AlertTypes DEF AlertObject
  <2>3. i \in Crossing(objects[i].symbol)
    BY DEF Crossing
  <2>. QED
    BY <2>1, <2>2, <2>3, EntriesCovered
<1>. QED
  BY AlertInductive, <1>1, PTL

(* No marked trigger is repeated within its cooldown or forgotten, and as  *)
(* long as no cycles overlap no crossing is reported without a move of its *)
(* own (AlertEngine, AlertStore.recordTrigger).                            *)
THEOREM AlertsAreHonest == AlertSpec => []AlertsHonest
<1>1. TriggersKept /\ CrossingsMoved => AlertsHonest
  BY DEF AlertsHonest
<1>. QED
  BY <1>1, TriggersAreKept, CrossingsHaveMoves, PTL

----------------------------------------------------------------------------
(* RuleEngine                                                              *)

KnownCondition(c) == {"operator", "source"} \subseteq DOMAIN c /\ c.operator \in Operators /\ c.source \in RuleSources

AllKnown(conditions) == \A i \in DOMAIN conditions : KnownCondition(conditions[i])

RuleSetsTyped ==
  /\ DOMAIN ruleSets = RuleIds
  /\ \A id \in RuleIds : ruleSets[id] # NoRuleSet =>
       ruleSets[id].status \in RuleStatuses /\ AllKnown(ruleSets[id].conditions)

(* What the evaluation found, or will find, was held by its source since.  *)
EvaluationHeld ==
  LET held == evaluation.held
  IN /\ DOMAIN evaluation = {"at", "conditions", "alpha", "session", "held"} /\ evaluation.at = "waiting"
     /\ DOMAIN held = RuleSources /\ AllKnown(evaluation.conditions)
     /\ evaluation.session \in held["sessionContext"] /\ evaluation.alpha \in held["alpha"]
     /\ backtests \in held["backtest"] /\ Absent \in held["strategy"]

RuleInv ==
  /\ RuleSetsTyped
  /\ candles \in CandleDays /\ detected \in Detections \cup {Absent}
  /\ evaluation # NoEvaluation => EvaluationHeld
  /\ answer.to \in {"none", "validate", "convert", "evaluate"}
  /\ NoDataNeverPasses

(* Whatever is sent, a rule set keeps conditions the engine knows.         *)
LEMMA RuleSetTyped ==
  ASSUME NEW conditions, \A i \in DOMAIN conditions : {"operator", "source"} \subseteq DOMAIN conditions[i],
         NEW direction, NEW status, NEW template
  PROVE  LET set == RuleSet(conditions, direction, status, template)
         IN set.status \in RuleStatuses /\ AllKnown(set.conditions)
<1>1. ASSUME NEW c, {"operator", "source"} \subseteq DOMAIN c PROVE KnownCondition(Normalised(c))
  <2>. DEFINE n == Normalised(c)
  <2>1. DOMAIN n = DOMAIN c
    BY DEF Normalised
  <2>2. /\ n.operator = IF c.operator \in Operators THEN c.operator ELSE "exists"
        /\ n.source = IF c.source \in RuleSources THEN c.source ELSE "strategy"
    BY <1>1 DEF Normalised
  <2>3. n.operator \in Operators /\ n.source \in RuleSources
    BY <2>2 DEF Operators, RuleSources
  <2>. QED
    BY <1>1, <2>1, <2>3 DEF KnownCondition
<1>2. (IF status \in RuleStatuses THEN status ELSE "draft") \in RuleStatuses
  BY DEF RuleStatuses
<1>3. AllKnown([i \in DOMAIN conditions |-> Normalised(conditions[i])])
  BY <1>1 DEF AllKnown
<1>. QED
  BY <1>2, <1>3 DEF RuleSet

(* A rule set is kept, or removed.                                         *)
LEMMA KeepKeeps ==
  ASSUME RuleInv, NEW id \in RuleIds, NEW set, Keep(id, set),
         set # NoRuleSet => set.status \in RuleStatuses /\ AllKnown(set.conditions)
  PROVE  RuleInv'
<1>1. ruleSets' = [ruleSets EXCEPT ![id] = set] /\ UNCHANGED <<candles, session, detected, backtests, evaluation, answer>>
  BY DEF Keep, ruleData
<1>2. RuleSetsTyped'
  BY <1>1 DEF RuleInv, RuleSetsTyped
<1>3. (evaluation # NoEvaluation => EvaluationHeld) => (evaluation # NoEvaluation => EvaluationHeld)'
  BY <1>1 DEF EvaluationHeld
<1>4. NoDataNeverPasses' <=> NoDataNeverPasses
  BY <1>1 DEF NoDataNeverPasses
<1>. QED
  BY <1>1, <1>2, <1>3, <1>4 DEF RuleInv

LEMMA SetsKeep ==
  ASSUME RuleInv, NEW id \in RuleIds, NEW conditions \in SentConditions \cup {<<>>}, NEW status, NEW direction,
         \/ conditions \in SentConditions /\ CreateRuleSet(id, conditions, direction, status)
         \/ conditions \in SentConditions /\ UpdateRuleSet(id, conditions, status)
         \/ CreateRuleSetFromTemplate(id, conditions)
         \/ DeleteRuleSet(id)
  PROVE  RuleInv'
<1>1. \A i \in DOMAIN conditions : {"operator", "source"} \subseteq DOMAIN conditions[i]
  BY SentAssumption
<1>2. \A i \in DOMAIN Template : {"operator", "source"} \subseteq DOMAIN Template[i]
  BY DEF Template
<1>3. CASE CreateRuleSet(id, conditions, direction, status)
  <2>. DEFINE set == RuleSet(conditions, direction, status, FALSE)
  <2>1. Keep(id, set) /\ set.status \in RuleStatuses /\ AllKnown(set.conditions)
    BY <1>1, <1>3, RuleSetTyped DEF CreateRuleSet
  <2>. HIDE DEF set
  <2>. QED
    BY <2>1, KeepKeeps
<1>4. CASE CreateRuleSetFromTemplate(id, conditions)
  <2>. DEFINE own == IF conditions = <<>> THEN Template ELSE conditions
              set == RuleSet(own, "derived_from_gap_direction", "draft", TRUE)
  <2>1. \A i \in DOMAIN own : {"operator", "source"} \subseteq DOMAIN own[i]
    BY <1>1, <1>2
  <2>2. Keep(id, RuleSet(own, "derived_from_gap_direction", "draft", TRUE))
    BY <1>4 DEF CreateRuleSetFromTemplate
  <2>. HIDE DEF own
  <2>3. Keep(id, set) /\ set.status \in RuleStatuses /\ AllKnown(set.conditions)
    BY <2>1, <2>2, RuleSetTyped
  <2>. HIDE DEF set
  <2>. QED
    BY <2>3, KeepKeeps
<1>5. CASE UpdateRuleSet(id, conditions, status)
  <2>. DEFINE old == ruleSets[id]
              new == RuleSet(conditions, old.direction, old.status, old.template)
              moved == RuleSet(old.conditions, old.direction, status, old.template)
  <2>1. old # NoRuleSet /\ (Keep(id, new) \/ Keep(id, moved))
    BY <1>5 DEF UpdateRuleSet
  <2>2. \A i \in DOMAIN old.conditions : {"operator", "source"} \subseteq DOMAIN old.conditions[i]
    BY <2>1 DEF RuleInv, RuleSetsTyped, AllKnown, KnownCondition
  <2>3. /\ new.status \in RuleStatuses /\ AllKnown(new.conditions)
        /\ moved.status \in RuleStatuses /\ AllKnown(moved.conditions)
    BY <1>1, <2>2, RuleSetTyped
  <2>. HIDE DEF new, moved
  <2>. QED
    BY <2>1, <2>3, KeepKeeps
<1>6. CASE DeleteRuleSet(id)
  BY <1>6, KeepKeeps DEF DeleteRuleSet
<1>. QED
  BY <1>3, <1>4, <1>5, <1>6

(* What a source comes to hold goes on the record of the evaluation.       *)
LEMMA SinceKeeps ==
  ASSUME RuleInv, NEW source \in RuleSources, NEW found, Since(source, found),
         UNCHANGED <<ruleSets, answer>>, backtests' = backtests \/ (source = "backtest" /\ found = backtests'),
         candles' \in CandleDays, detected' \in Detections \cup {Absent}
  PROVE  RuleInv'
<1>1. CASE evaluation = NoEvaluation
  <2>1. evaluation' = NoEvaluation
    BY <1>1 DEF Since
  <2>. QED
    BY <2>1 DEF RuleInv, RuleSetsTyped, NoDataNeverPasses, NoEvaluation
<1>2. CASE evaluation # NoEvaluation
  <2>1. evaluation' = [evaluation EXCEPT !.held[source] = @ \cup {found}] /\ EvaluationHeld
    BY <1>2 DEF Since, RuleInv
  <2>2. /\ DOMAIN evaluation' = DOMAIN evaluation /\ evaluation'.at = evaluation.at
        /\ evaluation'.conditions = evaluation.conditions /\ evaluation'.alpha = evaluation.alpha
        /\ evaluation'.session = evaluation.session
        /\ evaluation'.held = [evaluation.held EXCEPT ![source] = @ \cup {found}]
    BY <2>1 DEF EvaluationHeld
  <2>3. /\ DOMAIN evaluation'.held = RuleSources
        /\ \A r \in RuleSources : evaluation.held[r] \subseteq evaluation'.held[r]
        /\ found \in evaluation'.held[source]
    BY <2>1, <2>2 DEF EvaluationHeld
  <2>4. /\ evaluation.session \in evaluation'.held["sessionContext"] /\ evaluation.alpha \in evaluation'.held["alpha"]
        /\ backtests \in evaluation'.held["backtest"] /\ Absent \in evaluation'.held["strategy"]
    BY <2>1, <2>3 DEF EvaluationHeld, RuleSources
  <2>5. backtests' \in evaluation'.held["backtest"]
    BY <2>3, <2>4
  <2>6. EvaluationHeld'
    BY <2>1, <2>2, <2>3, <2>4, <2>5 DEF EvaluationHeld
  <2>. QED
    BY <2>6 DEF RuleInv, RuleSetsTyped, NoDataNeverPasses
<1>. QED
  BY <1>1, <1>2

(* An evaluation starts with what is there.                                *)
LEMMA EvaluateKeeps ==
  ASSUME RuleInv, NEW id \in RuleIds, Evaluate(id)
  PROVE  RuleInv'
<1>. DEFINE context == IF session = Absent THEN Context(candles) ELSE session
            held == [sessionContext |-> {context}, alpha |-> {detected}, backtest |-> {backtests}, strategy |-> {Absent}]
            e == [at |-> "waiting", conditions |-> ruleSets[id].conditions, alpha |-> detected,
                  session |-> context, held |-> held]
<1>1. evaluation' = e /\ UNCHANGED <<ruleSets, candles, detected, backtests, answer>> /\ ruleSets[id] # NoRuleSet
  BY DEF Evaluate
<1>. HIDE DEF context
<1>2. AllKnown(ruleSets[id].conditions)
  BY <1>1 DEF RuleInv, RuleSetsTyped
<1>3. /\ DOMAIN e = {"at", "conditions", "alpha", "session", "held"} /\ e.at = "waiting" /\ e.held = held
      /\ e.conditions = ruleSets[id].conditions /\ e.session = context /\ e.alpha = detected
  OBVIOUS
<1>4. /\ DOMAIN held = RuleSources /\ context \in held["sessionContext"] /\ detected \in held["alpha"]
      /\ backtests \in held["backtest"] /\ Absent \in held["strategy"]
  BY DEF RuleSources
<1>. HIDE DEF e, held
<1>5. EvaluationHeld'
  BY <1>1, <1>2, <1>3, <1>4 DEF EvaluationHeld
<1>. QED
  BY <1>1, <1>5 DEF RuleInv, RuleSetsTyped, NoDataNeverPasses

(* It finds what it has read, or what its source holds now.                *)
LEMMA EvaluatedKeeps == RuleInv /\ Evaluated => RuleInv'
<1>. SUFFICES ASSUME RuleInv, Evaluated PROVE RuleInv'
  OBVIOUS
<1>. DEFINE found == [sessionContext |-> evaluation.session, alpha |-> evaluation.alpha,
                      backtest |-> backtests, strategy |-> Absent]
            asked == {c \in Range(evaluation.conditions) : c.enabled}
            failed == {c \in asked : ~EvaluateCondition(c, found[c.source])}
<1>1. /\ evaluation # NoEvaluation /\ evaluation' = NoEvaluation /\ UNCHANGED <<ruleSets, candles, session, detected, backtests>>
      /\ answer' = [to |-> "evaluate", asked |-> asked, held |-> evaluation.held, failed |-> failed]
  BY DEF Evaluated, ruleData
<1>2. EvaluationHeld
  BY <1>1 DEF RuleInv
<1>3. \A c \in asked : c.source \in RuleSources
  BY <1>2 DEF EvaluationHeld, AllKnown, KnownCondition, Range
<1>4. \A r \in RuleSources : found[r] \in evaluation.held[r]
  BY <1>2 DEF EvaluationHeld, RuleSources
<1>. HIDE DEF found
<1>5. \A c \in asked \ failed :
        \E f \in evaluation.held[c.source] : f # Absent /\ c.field \in DOMAIN f /\ ApplyOperator(c.operator, f[c.field], c.value)
  BY <1>3, <1>4 DEF EvaluateCondition
<1>6. answer'.to = "evaluate" /\ answer'.asked = asked /\ answer'.failed = failed /\ answer'.held = evaluation.held
  BY <1>1
<1>. HIDE DEF asked, failed
<1>7. NoDataNeverPasses'
  BY <1>5, <1>6 DEF NoDataNeverPasses
<1>. QED
  BY <1>1, <1>6, <1>7 DEF RuleInv, RuleSetsTyped

(* Another answer, or none, changes nothing else.                          *)
LEMMA AnswerKeeps ==
  ASSUME RuleInv, UNCHANGED <<ruleSets, candles, detected, backtests, evaluation>>,
         answer'.to \in {"none", "validate", "convert"}
  PROVE  RuleInv'
<1>1. NoDataNeverPasses'
  BY DEF NoDataNeverPasses
<1>. QED
  BY <1>1 DEF RuleInv, RuleSetsTyped, EvaluationHeld

LEMMA RuleStarts == RuleInit => RuleInv
<1>. SUFFICES ASSUME RuleInit PROVE RuleInv
  OBVIOUS
<1>1. /\ ruleSets = [id \in RuleIds |-> NoRuleSet] /\ candles \in CandleDays /\ detected = Absent
      /\ evaluation = NoEvaluation /\ answer.to = "none"
  BY DEF RuleInit, NoAnswer
<1>2. RuleSetsTyped
  BY <1>1 DEF RuleSetsTyped
<1>. QED
  BY <1>1, <1>2 DEF RuleInv, NoDataNeverPasses

(* Every step, one request at a time.                                      *)
LEMMA RuleStepKeeps == RuleInv /\ [RuleNext]_ruleVars => RuleInv'
<1>. SUFFICES ASSUME RuleInv, [RuleNext]_ruleVars PROVE RuleInv'
  OBVIOUS
<1>1. ASSUME NEW id \in RuleIds, NEW conditions \in SentConditions, NEW status, NEW direction,
             CreateRuleSet(id, conditions, direction, status) \/ UpdateRuleSet(id, conditions, status)
      PROVE  RuleInv'
  BY <1>1, SetsKeep
<1>2. ASSUME NEW id \in RuleIds, NEW overrides \in SentConditions \cup {<<>>}, CreateRuleSetFromTemplate(id, overrides)
      PROVE  RuleInv'
  <2>1. CreateRuleSetFromTemplate(id, overrides)
    BY <1>2
  <2>. QED
    BY <2>1, SetsKeep
<1>3. ASSUME NEW id \in RuleIds, DeleteRuleSet(id) PROVE RuleInv'
  BY <1>3, KeepKeeps DEF DeleteRuleSet
<1>4. ASSUME NEW id \in RuleIds, ConvertRuleSet(id) \/ (\E groups \in SentGroups : ValidateRuleSet(id, groups))
      PROVE  RuleInv'
  <2>1. UNCHANGED <<ruleSets, candles, detected, backtests, evaluation>> /\ answer'.to \in {"validate", "convert"}
    BY <1>4 DEF ConvertRuleSet, ValidateRuleSet, Respond, ruleData
  <2>. QED
    BY <2>1, AnswerKeeps
<1>5. ASSUME NEW id \in RuleIds, Evaluate(id) PROVE RuleInv'
  BY <1>5, EvaluateKeeps
<1>6. ASSUME NEW id \in RuleIds, NEW trades, Preview(id, trades) PROVE RuleInv'
  <2>1. /\ Since("backtest", backtests') /\ UNCHANGED <<ruleSets, candles, session, detected, answer>>
        /\ "backtest" \in RuleSources
    BY <1>6 DEF Preview, RuleSources
  <2>. QED
    BY <2>1, SinceKeeps DEF RuleInv
<1>7. CASE ClearBacktests
  <2>1. /\ Since("backtest", backtests') /\ UNCHANGED <<ruleSets, candles, session, detected, answer>>
        /\ "backtest" \in RuleSources
    BY <1>7 DEF ClearBacktests, RuleSources
  <2>. QED
    BY <2>1, SinceKeeps DEF RuleInv
<1>8. ASSUME NEW context, SetSession(context) PROVE RuleInv'
  <2>1. /\ Since("sessionContext", context) /\ UNCHANGED <<ruleSets, candles, backtests, detected, answer>>
        /\ "sessionContext" \in RuleSources
    BY <1>8 DEF SetSession, RuleSources
  <2>. QED
    BY <2>1, SinceKeeps DEF RuleInv
<1>9. ASSUME NEW found \in Detections, Detect(found) PROVE RuleInv'
  <2>1. /\ Since("alpha", found) /\ UNCHANGED <<ruleSets, candles, backtests, session, answer>> /\ detected' = found
        /\ "alpha" \in RuleSources
    BY <1>9 DEF Detect, RuleSources
  <2>. QED
    BY <1>9, <2>1, SinceKeeps DEF RuleInv
<1>10. ASSUME NEW m \in CandleDays, CandlesCome(m) PROVE RuleInv'
  BY <1>10 DEF CandlesCome, RuleInv, RuleSetsTyped, EvaluationHeld, NoDataNeverPasses
<1>11. CASE ClearRuleSets
  <2>1. ruleSets' = [id \in RuleIds |-> NoRuleSet] /\ UNCHANGED <<candles, session, detected, backtests, evaluation, answer>>
    BY <1>11 DEF ClearRuleSets, ruleData
  <2>2. RuleSetsTyped'
    BY <2>1 DEF RuleSetsTyped
  <2>. QED
    BY <2>1, <2>2 DEF RuleInv, EvaluationHeld, NoDataNeverPasses
<1>12. CASE Delivered
  <2>1. UNCHANGED <<ruleSets, candles, detected, backtests, evaluation>> /\ answer'.to = "none"
    BY <1>12 DEF Delivered, NoAnswer, ruleData
  <2>. QED
    BY <2>1, AnswerKeeps
<1>13. CASE UNCHANGED ruleVars
  BY <1>13 DEF ruleVars, ruleData, RuleInv, RuleSetsTyped, EvaluationHeld, NoDataNeverPasses
<1>14. CASE RuleRequest
  BY <1>1, <1>2, <1>3, <1>4, <1>5, <1>6, <1>7, <1>8, <1>9, <1>10, <1>11, <1>14, EvaluatedKeeps
     DEF RuleRequest, ComputeSessionContext, ClearContext
<1>. QED
  BY <1>12, <1>13, <1>14 DEF RuleNext

(* The inductive invariant of the rule engine holds of every behaviour     *)
(* (ruleEngine.js, ruleEngineRoutes.js).                                   *)
THEOREM RuleInductive == RuleSpec => []RuleInv
<1>. QED
  BY RuleStarts, RuleStepKeeps, PTL DEF RuleSpec

(* A condition passes only on data that its source held between the        *)
(* request and the answer, whatever is stored, computed, cleared or        *)
(* changed while the evaluation waits (RuleEngine.evaluateCondition).      *)
THEOREM NoDataPasses == RuleSpec => []NoDataNeverPasses
<1>1. RuleInv => NoDataNeverPasses
  BY DEF RuleInv
<1>. QED
  BY RuleInductive, <1>1, PTL

LEMMA RuleTypes == RuleInv => RuleTypeOK
<1>. SUFFICES ASSUME RuleInv PROVE RuleTypeOK
  OBVIOUS
<1>1. \A id \in RuleIds : ruleSets[id] # NoRuleSet =>
        /\ ruleSets[id].status \in RuleStatuses
        /\ \A c \in Range(ruleSets[id].conditions) : c.operator \in Operators /\ c.source \in RuleSources
  BY DEF RuleInv, RuleSetsTyped, AllKnown, KnownCondition, Range
<1>2. evaluation.at \in {"idle", "waiting"}
  BY DEF RuleInv, EvaluationHeld, NoEvaluation
<1>. QED
  BY <1>1, <1>2 DEF RuleInv, RuleTypeOK

(* Every variable keeps to its type, and rule sets to the operators and    *)
(* sources the engine knows (createRuleCondition).                         *)
THEOREM RuleTypeCorrect == RuleSpec => []RuleTypeOK
<1>. QED
  BY RuleInductive, RuleTypes, PTL


----------------------------------------------------------------------------
(* Portfolio: what positions and fills are, and how far the profit that    *)
(* was realized, less what the positions cost on average, may be from the  *)
(* cash of the fills: half a unit a share at each purchase.                *)

Position == [quantity : -PositionLimit .. PositionLimit, average : Int, market : Int, realized : Int]

BookFill == [symbol : BookSymbols, side : BookSides, quantity : Int, price : Int, day : Int]

BookTyped ==
  /\ book \in [BookSymbols -> Position]
  /\ paperFills \in Seq(BookFill) /\ Len(paperFills) <= MaxPaperFills /\ today \in 1 .. MaxDays

Result(p) == p.realized - p.average * p.quantity
Results(b) == SumFunction([s \in BookSymbols |-> Result(b[s])])
Cash(fs) == SumFunction([i \in DOMAIN fs |-> Flow(fs[i])])

ResultsAddUp == 2 * Size(Results(book) - Cash(paperFills)) <= PositionLimit * Len(paperFills)

NothingShort == \A s \in BookSymbols : book[s].quantity >= 0

(* As long as nothing crosses it, a summary has the positions themselves.  *)
RowsHeld ==
  \A s \in DOMAIN summary.rows :
    /\ summary.rows[s].quantity = book[s].quantity /\ summary.rows[s].average = book[s].average
    /\ summary.rows[s].market \in Int

Pricing ==
  /\ summary = [at |-> "pricing", rows |-> summary.rows, old |-> summary.old,
                crossed |-> summary.crossed, fills |-> summary.fills]
  /\ summary.crossed \in Nat /\ DOMAIN summary.rows \subseteq BookSymbols
  /\ summary.crossed = 0 => summary.old = <<>> /\ RowsHeld

BookInv ==
  /\ BookTyped /\ (Plain(paperFills) => NothingShort /\ ResultsAddUp) /\ SummaryAddsUp
  /\ summary = NoSummary \/ Pricing \/ summary.at = "told"

(* A purchase moves the result by the rounding of the average price; a     *)
(* sale not at all.                                                        *)
LEMMA RoundedIs ==
  ASSUME NEW n \in Int, NEW d \in Int \ {0}
  PROVE  Rounded(n, d) \in Int
<1>1. PICK x \in Int, y \in Nat \ {0} : x = 2 * Size(n) + Size(d) /\ y = 2 * Size(d)
  BY DEF Size
<1>2. PICK m \in Int : m = x \div y
  BY <1>1
<1>3. Rounded(n, d) = IF (n < 0) = (d < 0) THEN m ELSE -m
  BY <1>1, <1>2 DEF Rounded
<1>. QED
  BY <1>2, <1>3

LEMMA AverageIs ==
  ASSUME NEW n \in Int, NEW d \in Nat \ {0}
  PROVE  Rounded(n, d) \in Int /\ 2 * Size(n - Rounded(n, d) * d) <= d
<1>0. PICK v \in Nat : v = Size(n)
  BY DEF Size
<1>1. PICK x \in Nat : x = 2 * v + d
  OBVIOUS
<1>2. PICK y \in Nat : y = 2 * d /\ y > 0
  OBVIOUS
<1>3. PICK k \in Int : k = x \div y
  BY <1>2
<1>4. y * k <= x /\ x < y * k + y /\ k >= 0
  BY <1>2, <1>3
<1>5. Rounded(n, d) = IF n < 0 THEN -k ELSE k
  <2>1. Size(d) = d /\ ~(d < 0)
    BY DEF Size
  <2>2. CASE n < 0
    BY <1>0, <1>1, <1>2, <1>3, <2>1, <2>2 DEF Rounded
  <2>3. CASE ~(n < 0)
    BY <1>0, <1>1, <1>2, <1>3, <2>1, <2>3 DEF Rounded
  <2>. QED
    BY <2>2, <2>3
<1>6. PICK z \in Int : z = k * d
  OBVIOUS
<1>7. y * k = 2 * z
  BY <1>2, <1>6
<1>8. 2 * z <= 2 * v + d /\ 2 * v + d < 2 * z + 2 * d
  BY <1>1, <1>2, <1>4, <1>7
<1>9. CASE n < 0
  <2>1. v = -n /\ Rounded(n, d) = -k /\ (-k) * d = -z
    BY <1>0, <1>5, <1>6, <1>9 DEF Size
  <2>. QED
    BY <1>8, <2>1 DEF Size
<1>10. CASE ~(n < 0)
  <2>1. v = n /\ Rounded(n, d) = k
    BY <1>0, <1>5, <1>10 DEF Size
  <2>. QED
    BY <1>6, <1>8, <2>1 DEF Size
<1>. QED
  BY <1>9, <1>10

(* A fill the guard allows leaves a position. *)
LEMMA FillTypes ==
  ASSUME NEW p \in Position, NEW q \in Int, NEW price \in Int, NEW side \in BookSides,
         Size(IF side = "buy" THEN p.quantity + q ELSE p.quantity - q) <= PositionLimit
  PROVE  Filled(p, side, q, price) \in Position
<1>1. /\ p.quantity \in Int /\ p.average \in Int /\ p.market \in Int /\ p.realized \in Int
      /\ p = [quantity |-> p.quantity, average |-> p.average, market |-> p.market, realized |-> p.realized]
  BY BookAssumption DEF Position
<1>2. CASE side = "buy"
  <2>1. PICK d \in Int : d = p.quantity + q
    BY <1>1
  <2>2. d \in -PositionLimit .. PositionLimit
    BY <1>2, <2>1, BookAssumption DEF Size
  <2>3. PICK a : a = AverageBought(p, q, price)
    OBVIOUS
  <2>4. a \in Int
    <3>1. CASE d = 0
      BY <2>1, <2>3, <3>1 DEF AverageBought
    <3>2. CASE d # 0
      <4>1. PICK cost \in Int : cost = p.average * p.quantity
        BY <1>1
      <4>2. PICK both \in Int : both = cost + price * q
        OBVIOUS
      <4>3. a = Rounded(both, d)
        BY <2>1, <2>3, <3>2, <4>1, <4>2 DEF AverageBought
      <4>. QED
        BY <3>2, <4>3, RoundedIs
    <3>. QED
      BY <3>1, <3>2
  <2>5. Filled(p, side, q, price) = [quantity |-> d, average |-> a, market |-> price, realized |-> p.realized]
    BY <1>1, <1>2, <2>1, <2>3 DEF Filled
  <2>. QED
    BY <1>1, <2>2, <2>4, <2>5 DEF Position
<1>3. CASE side # "buy"
  <2>1. PICK d \in Int : d = p.quantity - q
    BY <1>1
  <2>2. d \in -PositionLimit .. PositionLimit
    BY <1>3, <2>1, BookAssumption DEF Size
  <2>3. PICK closing : closing = Min({Size(p.quantity), q})
    OBVIOUS
  <2>4. closing \in Int
    <3>1. Size(p.quantity) \in Int
      BY <1>1 DEF Size
    <3>. QED
      BY <2>3, <3>1, MinOfTwo
  <2>5. PICK gain \in Int : gain = (price - p.average) * closing
    BY <1>1, <2>4
  <2>6. PICK a \in Int : a = IF p.quantity = q THEN 0 ELSE p.average
    BY <1>1
  <2>7. Filled(p, side, q, price) = [quantity |-> d, average |-> a, market |-> price, realized |-> p.realized + gain]
    BY <1>1, <1>3, <2>1, <2>3, <2>5, <2>6 DEF Filled
  <2>. QED
    BY <1>1, <2>2, <2>7 DEF Position
<1>. QED
  BY <1>2, <1>3

LEMMA FillMoves ==
  ASSUME NEW p \in Position, NEW q \in Nat \ {0}, NEW price \in Int, NEW side \in {"buy", "sell"},
         p.quantity >= 0, side = "buy" => p.quantity + q <= PositionLimit, side = "sell" => p.quantity >= q,
         NEW fill \in BookFill, fill.side = side, fill.quantity = q, fill.price = price
  PROVE  /\ Filled(p, side, q, price) \in Position /\ Filled(p, side, q, price).quantity >= 0
         /\ Flow(fill) \in Int
         /\ 2 * Size(Result(Filled(p, side, q, price)) - Result(p) - Flow(fill)) <= PositionLimit
<1>1. /\ p.quantity \in 0 .. PositionLimit /\ p.average \in Int /\ p.market \in Int /\ p.realized \in Int
      /\ PositionLimit \in Nat
  BY BookAssumption DEF Position
<1>2. PICK r : r = Filled(p, side, q, price)
  OBVIOUS
<1>3. PICK worth \in Int : worth = price * q
  OBVIOUS
<1>4. PICK cost \in Int : cost = p.average * p.quantity
  <2>1. p.average * p.quantity \in Int
    BY <1>1
  <2>. QED
    BY <2>1
<1>7. p = [quantity |-> p.quantity, average |-> p.average, market |-> p.market, realized |-> p.realized]
  BY DEF Position
<1>5. CASE side = "buy"
  <2>1. PICK d \in Nat \ {0} : d = p.quantity + q
    BY <1>1
  <2>2. PICK a : a = Rounded(cost + worth, d)
    OBVIOUS
  <2>3. a \in Int /\ 2 * Size(cost + worth - a * d) <= d
    <3>1. PICK both \in Int : both = cost + worth
      OBVIOUS
    <3>2. Rounded(both, d) \in Int /\ 2 * Size(both - Rounded(both, d) * d) <= d
      BY AverageIs
    <3>. QED
      BY <2>2, <3>1, <3>2
  <2>4. r = [quantity |-> d, average |-> a, market |-> price, realized |-> p.realized]
    <3>1. AverageBought(p, q, price) = a
      BY <1>3, <1>4, <2>1, <2>2 DEF AverageBought
    <3>. QED
      BY <1>2, <1>5, <1>7, <2>1, <3>1 DEF Filled
  <2>5. r \in Position /\ r.quantity = d /\ r.average = a /\ r.realized = p.realized
    BY <1>1, <1>5, <2>1, <2>3, <2>4 DEF Position
  <2>6. Flow(fill) = -worth
    <3>1. Flow(fill) = (-1) * q * price
      BY <1>5 DEF Flow
    <3>. QED
      BY <1>3, <3>1
  <2>7. PICK z \in Int : z = a * d
    BY <2>3
  <2>8. Result(r) = p.realized - z /\ Result(p) = p.realized - cost
    BY <1>4, <2>5, <2>7 DEF Result
  <2>9. Result(r) - Result(p) - Flow(fill) = cost + worth - z
    BY <1>1, <2>6, <2>8
  <2>10. 2 * Size(cost + worth - z) <= PositionLimit
    <3>1. d <= PositionLimit /\ Size(cost + worth - z) \in Int
      BY <1>5, <2>1 DEF Size
    <3>. QED
      BY <1>1, <2>3, <2>7, <3>1
  <2>. QED
    BY <1>2, <2>5, <2>6, <2>9, <2>10
<1>6. CASE side = "sell"
  <2>1. PICK rest \in Nat : rest = p.quantity - q /\ rest <= PositionLimit
    BY <1>1, <1>6
  <2>2. Min({Size(p.quantity), q}) = q
    BY <1>1, <1>6, MinOfTwo DEF Size
  <2>3. PICK gain \in Int : gain = (price - p.average) * q
    BY <1>1
  <2>4. PICK a : a = IF p.quantity = q THEN 0 ELSE p.average
    OBVIOUS
  <2>5. r = [quantity |-> rest, average |-> a, market |-> price, realized |-> p.realized + gain]
    <3>1. side # "buy"
      BY <1>6
    <3>. QED
      BY <1>2, <1>7, <2>1, <2>2, <2>3, <2>4, <3>1 DEF Filled
  <2>6. r \in Position /\ r.quantity = rest /\ r.average = a /\ r.realized = p.realized + gain
    BY <1>1, <2>1, <2>4, <2>5 DEF Position
  <2>7. Flow(fill) = worth
    <3>1. Flow(fill) = 1 * q * price
      BY <1>6 DEF Flow
    <3>. QED
      BY <1>3, <3>1
  <2>8. PICK z \in Int : z = p.average * q
    BY <1>1
  <2>9. a * rest = cost - z /\ gain = worth - z
    <3>1. p.average * rest = cost - z /\ gain = worth - z
      <4>1. PICK m \in Int, held \in Int : m = p.average /\ held = p.quantity
        BY <1>1
      <4>2. rest = held - q /\ gain = (price - m) * q /\ z = m * q /\ cost = m * held
        BY <1>4, <2>1, <2>3, <2>8, <4>1
      <4>3. m * (held - q) = m * held - m * q /\ (price - m) * q = price * q - m * q
        OBVIOUS
      <4>. QED
        BY <1>3, <4>1, <4>2, <4>3
    <3>2. CASE p.quantity = q
      <4>1. rest = 0 /\ a = 0 /\ p.average * rest = 0
        BY <1>1, <2>1, <2>4, <3>2
      <4>. QED
        BY <3>1, <4>1
    <3>. QED
      BY <2>4, <3>1, <3>2
  <2>10. Result(r) = (p.realized + gain) - (cost - z) /\ Result(p) = p.realized - cost
    <3>1. r.average * r.quantity = a * rest /\ r.realized = p.realized + gain
      BY <2>6
    <3>2. Result(r) = r.realized - r.average * r.quantity /\ Result(p) = p.realized - cost
      BY <1>4 DEF Result
    <3>3. r.average * r.quantity = cost - z
      BY <2>9, <3>1, Zenon
    <3>4. Result(r) = (p.realized + gain) - (cost - z)
      <4>1. Result(r) = r.realized - r.average * r.quantity
        BY <3>2
      <4>. QED
        BY <3>1, <3>3, <4>1, Zenon
    <3>. QED
      BY <3>2, <3>4
  <2>11. Result(r) - Result(p) - Flow(fill) = 0
    BY <1>1, <2>7, <2>9, <2>10
  <2>. QED
    BY <1>1, <1>2, <2>6, <2>7, <2>11 DEF Size
<1>. QED
  BY <1>5, <1>6

LEMMA FlowIs ==
  ASSUME NEW x \in BookFill
  PROVE  Flow(x) \in Int
<1>1. PICK sign \in Int : sign = IF x.side = "buy" THEN -1 ELSE 1
  OBVIOUS
<1>2. x.quantity \in Int /\ x.price \in Int
  BY DEF BookFill
<1>3. PICK q \in Int : q = x.quantity
  BY <1>2
<1>4. PICK price \in Int : price = x.price
  BY <1>2
<1>5. sign * q * price \in Int
  OBVIOUS
<1>. QED
  BY <1>1, <1>3, <1>4, <1>5 DEF Flow

LEMMA CashIs ==
  ASSUME NEW fs \in Seq(BookFill)
  PROVE  Cash(fs) \in Int
<1>1. PICK n \in Nat : n = Len(fs) /\ DOMAIN fs = 1 .. n
  OBVIOUS
<1>2. PICK f : f = [i \in 1 .. n |-> Flow(fs[i])]
  OBVIOUS
<1>3. \A i \in 1 .. n : f[i] \in Int
  BY <1>1, <1>2, FlowIs
<1>4. IsFiniteSet(1 .. n)
  BY FS_Interval
<1>5. SumFunctionOnSet(f, 1 .. n) \in Int
  BY <1>3, <1>4, SumStep
<1>. QED
  BY <1>1, <1>2, <1>5 DEF Cash, SumFunction

(* One more fill, and the result of one position. *)
LEMMA FillAddsUp ==
  ASSUME BookTyped, ResultsAddUp, NEW s \in BookSymbols, NEW p \in Position, NEW fill \in BookFill,
         book' = [book EXCEPT ![s] = p], paperFills' = Append(paperFills, fill),
         2 * Size(Result(p) - Result(book[s]) - Flow(fill)) <= PositionLimit, Flow(fill) \in Int
  PROVE  ResultsAddUp'
<1>1. PICK n \in Nat : n = Len(paperFills)
  BY DEF BookTyped
<1>2. /\ DOMAIN paperFills = 1 .. n /\ DOMAIN paperFills' = 1 .. n + 1 /\ Len(paperFills') = n + 1
      /\ paperFills'[n + 1] = fill /\ \A i \in 1 .. n : paperFills'[i] = paperFills[i]
  BY <1>1 DEF BookTyped
<1>3. PICK f : f = [i \in 1 .. n |-> Flow(paperFills[i])]
  OBVIOUS
<1>4. PICK g : g = [i \in 1 .. n + 1 |-> Flow(paperFills'[i])]
  OBVIOUS
<1>5. \A x \in BookFill : Flow(x) \in Int
  BY FlowIs
<1>6. \A i \in 1 .. n : f[i] \in Int /\ g[i] = f[i]
  BY <1>1, <1>2, <1>3, <1>4, <1>5 DEF BookTyped
<1>7. g[n + 1] = Flow(fill) /\ n + 1 \in 1 .. n + 1
  BY <1>2, <1>4
<1>8. SumFunctionOnSet(g, 1 .. n + 1) = SumFunctionOnSet(f, 1 .. n) + Flow(fill)
  BY <1>6, <1>7, SumAppended
<1>9. Cash(paperFills) = SumFunctionOnSet(f, 1 .. n) /\ Cash(paperFills') = SumFunctionOnSet(g, 1 .. n + 1)
  BY <1>2, <1>3, <1>4 DEF Cash, SumFunction
<1>10. SumFunctionOnSet(f, 1 .. n) \in Int
  <2>1. IsFiniteSet(1 .. n)
    BY FS_Interval
  <2>2. \A i \in 1 .. n : f[i] \in Int
    BY <1>6
  <2>. QED
    BY <2>1, <2>2, SumStep
<1>11. PICK v : v = [t \in BookSymbols |-> Result(book[t])]
  OBVIOUS
<1>12. PICK w : w = [t \in BookSymbols |-> Result(book'[t])]
  OBVIOUS
<1>13. \A x \in Position : Result(x) \in Int
  <2>. TAKE x \in Position
  <2>1. x.realized \in Int /\ x.average \in Int /\ x.quantity \in Int
    BY BookAssumption DEF Position
  <2>2. x.average * x.quantity \in Int
    BY <2>1
  <2>. QED
    BY <2>1, <2>2 DEF Result
<1>14. (\A t \in BookSymbols : v[t] \in Int) /\ v[s] = Result(book[s])
  BY <1>11, <1>13 DEF BookTyped
<1>15. w[s] = Result(p) /\ Result(p) \in Int /\ \A t \in BookSymbols \ {s} : w[t] = v[t]
  BY <1>11, <1>12, <1>13 DEF BookTyped
<1>16. SumFunctionOnSet(w, BookSymbols) = SumFunctionOnSet(v, BookSymbols) - v[s] + w[s]
  <2>1. IsFiniteSet(BookSymbols) /\ w[s] \in Int /\ \A t \in BookSymbols : v[t] \in Int
    BY <1>14, <1>15, BookAssumption
  <2>. QED
    BY <1>15, <2>1, SumChanged
<1>17. Results(book) = SumFunctionOnSet(v, BookSymbols) /\ Results(book') = SumFunctionOnSet(w, BookSymbols)
  BY <1>11, <1>12 DEF Results, SumFunction
<1>18. SumFunctionOnSet(v, BookSymbols) \in Int
  BY <1>14, BookAssumption, SumStep
<1>19. PICK a \in Int : a = Results(book) - Cash(paperFills)
  BY <1>9, <1>10, <1>17, <1>18
<1>20. PICK e \in Int : e = Result(p) - Result(book[s]) - Flow(fill)
  BY <1>14, <1>15
<1>21. Results(book') - Cash(paperFills') = a + e
  <2>1. PICK before \in Int : before = Results(book)
    BY <1>17, <1>18
  <2>2. PICK cash \in Int : cash = Cash(paperFills)
    BY <1>9, <1>10
  <2>3. PICK old \in Int : old = Result(book[s])
    BY <1>14
  <2>4. PICK new \in Int : new = Result(p)
    BY <1>15
  <2>5. PICK flow \in Int : flow = Flow(fill)
    OBVIOUS
  <2>6. Results(book') = before - old + new
    BY <1>14, <1>15, <1>16, <1>17, <2>1, <2>3, <2>4
  <2>7. Cash(paperFills') = cash + flow
    BY <1>8, <1>9, <2>2, <2>5
  <2>8. a = before - cash /\ e = new - old - flow
    BY <1>19, <1>20, <2>1, <2>2, <2>3, <2>4, <2>5
  <2>. QED
    BY <2>6, <2>7, <2>8
<1>22. 2 * Size(a + e) <= 2 * Size(a) + 2 * Size(e)
  BY DEF Size
<1>23. PICK bound \in Int : bound = PositionLimit * n
  BY BookAssumption
<1>24. PositionLimit * (n + 1) = bound + PositionLimit /\ PositionLimit \in Int
  BY <1>23, BookAssumption
<1>25. 2 * Size(a) <= bound /\ 2 * Size(e) <= PositionLimit
  BY <1>1, <1>19, <1>20, <1>23 DEF ResultsAddUp
<1>26. Size(a) \in Int /\ Size(e) \in Int /\ Size(a + e) \in Int
  BY DEF Size
<1>27. 2 * Size(a + e) <= bound + PositionLimit
  BY <1>22, <1>24, <1>25, <1>26
<1>28. ResultsAddUp' = (2 * Size(Results(book') - Cash(paperFills')) <= PositionLimit * Len(paperFills'))
  BY DEF ResultsAddUp
<1>. QED
  BY <1>2, <1>21, <1>24, <1>27, <1>28

(* Without fills there is neither cash nor a result. *)
LEMMA NothingAddsUp ==
  ASSUME NEW b, b = [s \in BookSymbols |-> Flat]
  PROVE  2 * Size(Results(b) - Cash(<<>>)) <= PositionLimit * Len(<<>>)
<1>1. PICK v : v = [t \in BookSymbols |-> Result(b[t])]
  OBVIOUS
<1>2. \A t \in BookSymbols : v[t] = 0
  BY <1>1 DEF Result, Flat
<1>3. \A t \in BookSymbols : v[t] \in Int /\ v[t] = -v[t]
  BY <1>2
<1>4. SumFunctionOnSet(v, BookSymbols) + SumFunctionOnSet(v, BookSymbols) = 0
  BY <1>3, BookAssumption, SumNegated
<1>5. SumFunctionOnSet(v, BookSymbols) \in Int
  BY <1>3, BookAssumption, SumStep
<1>6. Results(b) = 0
  BY <1>1, <1>4, <1>5 DEF Results, SumFunction
<1>7. PICK f : f = [i \in {} |-> Flow(<<>>[i])]
  OBVIOUS
<1>8. SumFunctionOnSet(f, {}) = 0
  BY FS_EmptySet, SumStep
<1>9. Cash(<<>>) = 0
  <2>1. DOMAIN <<>> = {}
    OBVIOUS
  <2>2. DOMAIN f = {} /\ Cash(<<>>) = SumFunction(f)
    BY <1>7, <2>1 DEF Cash
  <2>. QED
    BY <1>8, <2>2 DEF SumFunction
<1>. QED
  BY <1>6, <1>9, BookAssumption DEF Size

LEMMA BookStarts == BookInit => BookInv
<1>. SUFFICES ASSUME BookInit PROVE BookInv
  OBVIOUS
<1>1. book = [s \in BookSymbols |-> Flat] /\ paperFills = <<>> /\ today = 1 /\ summary = NoSummary
  BY DEF BookInit
<1>2. BookTyped
  BY <1>1, BookAssumption DEF BookTyped, Position, Flat
<1>3. ResultsAddUp
  BY <1>1, NothingAddsUp DEF ResultsAddUp
<1>4. SummaryAddsUp
  BY <1>1 DEF NoSummary, SummaryAddsUp
<1>5. NothingShort
  BY <1>1 DEF NothingShort, Flat
<1>. QED
  BY <1>1, <1>2, <1>3, <1>4, <1>5 DEF BookInv

(* A fill or a reset during a summary crosses it. *)
LEMMA CrossedKeeps ==
  ASSUME BookInv, summary.at # "told",
         summary' = Crossed \/ (summary.at = "pricing" /\ summary' = [Crossed EXCEPT !.old = <<book>>])
  PROVE  SummaryAddsUp' /\ (summary' = NoSummary \/ Pricing' \/ summary'.at = "told")
<1>1. CASE summary = NoSummary
  <2>1. summary' = NoSummary /\ NoSummary.at = "none"
    BY <1>1 DEF Crossed, NoSummary
  <2>. QED
    BY <2>1 DEF SummaryAddsUp
<1>2. CASE Pricing
  <2>1. PICK o, c : summary' = [at |-> "pricing", rows |-> summary.rows, old |-> o, crossed |-> c, fills |-> summary.fills]
                    /\ c = summary.crossed + 1
    <3>1. PICK list : list = summary.rows
      OBVIOUS
    <3>2. PICK made : made = summary.fills
      OBVIOUS
    <3>3. summary = [at |-> "pricing", rows |-> list, old |-> summary.old, crossed |-> summary.crossed, fills |-> made]
      BY <1>2, <3>1, <3>2 DEF Pricing
    <3>4. Crossed = [at |-> "pricing", rows |-> list, old |-> summary.old, crossed |-> summary.crossed + 1, fills |-> made]
      BY <3>3 DEF Crossed
    <3>5. summary' = Crossed
          \/ summary' = [at |-> "pricing", rows |-> list, old |-> <<book>>, crossed |-> summary.crossed + 1, fills |-> made]
      BY <3>4
    <3>. QED
      BY <3>1, <3>2, <3>4, <3>5
  <2>2. summary'.at = "pricing" /\ summary'.rows = summary.rows /\ summary'.crossed = c /\ summary'.old = o
        /\ summary'.fills = summary.fills
    BY <2>1
  <2>3. c \in Nat /\ c # 0
    BY <1>2, <2>1 DEF Pricing
  <2>4. Pricing'
    BY <1>2, <2>1, <2>2, <2>3 DEF Pricing
  <2>5. SummaryAddsUp'
    BY <2>2 DEF SummaryAddsUp
  <2>. QED
    BY <2>4, <2>5
<1>. QED
  BY <1>1, <1>2 DEF BookInv

LEMMA OrderKeeps ==
  ASSUME BookInv, summary.at # "told", NEW s \in BookSymbols, NEW q \in Int, NEW price \in Int,
         NEW side \in BookSides, PlacePaperOrder(s, side, q, price), Len(paperFills') <= MaxPaperFills
  PROVE  BookInv'
<1>1. /\ CheckOrder(s, side, q) /\ book' = [book EXCEPT ![s] = Filled(@, side, q, price)] /\ today' = today
      /\ summary' = Crossed
  BY DEF PlacePaperOrder
<1>2. PICK fill : fill = [symbol |-> s, side |-> side, quantity |-> q, price |-> price, day |-> today]
  OBVIOUS
<1>3. paperFills' = Append(paperFills, fill)
  BY <1>2 DEF PlacePaperOrder
<1>4. BookTyped
  BY DEF BookInv
<1>5. PICK p \in Position : p = book[s]
  BY <1>4 DEF BookTyped
<1>6. fill \in BookFill /\ fill.side = side /\ fill.quantity = q /\ fill.price = price
  BY <1>2, <1>4, BookAssumption DEF BookTyped, BookFill
<1>7. /\ q > 0 /\ (side = "sell" => p.quantity >= q)
      /\ Size(IF side = "buy" THEN p.quantity + q ELSE p.quantity - q) <= PositionLimit
  BY <1>1, <1>5 DEF CheckOrder
<1>8. PICK r : r = Filled(p, side, q, price)
  OBVIOUS
<1>9. r \in Position
  BY <1>7, <1>8, FillTypes
<1>10. book' = [book EXCEPT ![s] = r]
  BY <1>1, <1>5, <1>8
<1>11. ASSUME Plain(paperFills') PROVE NothingShort' /\ ResultsAddUp'
  <2>1. PICK n \in Nat : n = Len(paperFills) /\ DOMAIN paperFills = 1 .. n
    BY <1>4 DEF BookTyped
  <2>2. /\ DOMAIN paperFills' = 1 .. n + 1 /\ paperFills'[n + 1] = fill
        /\ \A i \in 1 .. n : paperFills'[i] = paperFills[i]
    BY <1>3, <1>4, <2>1 DEF BookTyped
  <2>3. side \in {"buy", "sell"}
    <3>1. n + 1 \in DOMAIN paperFills'
      BY <2>2
    <3>. QED
      BY <1>6, <1>11, <2>2, <3>1 DEF Plain
  <2>4. Plain(paperFills)
    <3>1. \A i \in 1 .. n : i \in 1 .. n + 1
      OBVIOUS
    <3>. QED
      BY <1>11, <2>1, <2>2, <3>1 DEF Plain
  <2>5. ResultsAddUp /\ NothingShort
    BY <2>4 DEF BookInv
  <2>6. p.quantity \in Nat /\ (side = "buy" => p.quantity + q <= PositionLimit)
    <3>1. p.quantity \in Int /\ p.quantity >= 0
      BY <1>5, <2>5, BookAssumption DEF NothingShort, Position
    <3>2. CASE side = "buy"
      BY <1>7, <3>1, <3>2 DEF Size
    <3>. QED
      BY <3>1, <3>2
  <2>7. /\ r.quantity >= 0 /\ Flow(fill) \in Int
        /\ 2 * Size(Result(r) - Result(p) - Flow(fill)) <= PositionLimit
    BY <1>6, <1>7, <1>8, <2>3, <2>6, FillMoves
  <2>8. NothingShort'
    BY <1>4, <1>10, <2>5, <2>7 DEF NothingShort, BookTyped
  <2>. QED
    BY <1>3, <1>4, <1>5, <1>6, <1>9, <1>10, <2>5, <2>7, <2>8, FillAddsUp
<1>12. BookTyped'
  BY <1>1, <1>3, <1>4, <1>6, <1>9, <1>10 DEF BookTyped
<1>. QED
  BY <1>1, <1>11, <1>12, CrossedKeeps DEF BookInv

LEMMA ResetKeeps ==
  ASSUME BookInv, summary.at # "told", ResetAccount
  PROVE  BookInv'
<1>1. book' = [s \in BookSymbols |-> Flat] /\ paperFills' = <<>> /\ today' = today
  BY DEF ResetAccount
<1>2. summary' = Crossed \/ (summary.at = "pricing" /\ summary' = [Crossed EXCEPT !.old = <<book>>])
  BY DEF ResetAccount
<1>3. BookTyped'
  BY <1>1, BookAssumption DEF BookInv, BookTyped, Position, Flat
<1>4. ResultsAddUp' /\ NothingShort'
  BY <1>1, NothingAddsUp DEF ResultsAddUp, NothingShort, Flat
<1>. QED
  BY <1>2, <1>3, <1>4, CrossedKeeps DEF BookInv

LEMMA PricedKeeps ==
  ASSUME BookInv, NEW s \in BookSymbols, NEW price \in Int, Priced(s, price)
  PROVE  BookInv'
<1>1. summary.at = "pricing" /\ UNCHANGED <<book, paperFills, today>>
  BY DEF Priced
<1>2. Pricing
  BY <1>1 DEF BookInv, NoSummary
<1>3. PICK p : p = IF summary.old = <<>> THEN book[s] ELSE summary.old[1][s]
  OBVIOUS
<1>4. PICK quote : quote = IF price = 0 THEN p.market ELSE price
  OBVIOUS
<1>5. PICK row : row = [quantity |-> p.quantity, average |-> p.average, market |-> quote]
  OBVIOUS
<1>6. PICK list : list = [t \in DOMAIN summary.rows \cup {s} |-> IF t = s THEN row ELSE summary.rows[t]]
  OBVIOUS
<1>7. summary' = [summary EXCEPT !.rows = list]
  BY <1>3, <1>4, <1>5, <1>6 DEF Priced
<1>8. summary' = [at |-> "pricing", rows |-> list, old |-> summary.old, crossed |-> summary.crossed, fills |-> summary.fills]
  <2>1. PICK old, crossed, made : old = summary.old /\ crossed = summary.crossed /\ made = summary.fills
    OBVIOUS
  <2>2. summary = [at |-> "pricing", rows |-> summary.rows, old |-> old, crossed |-> crossed, fills |-> made]
    BY <1>2, <2>1 DEF Pricing
  <2>. QED
    BY <1>7, <2>1, <2>2
<1>9. /\ summary'.at = "pricing" /\ summary'.rows = list /\ summary'.old = summary.old
      /\ summary'.crossed = summary.crossed /\ summary'.fills = summary.fills
  BY <1>8
<1>10. DOMAIN list = DOMAIN summary.rows \cup {s}
  BY <1>6
<1>11. ASSUME summary.crossed = 0 PROVE RowsHeld'
  <2>1. summary.old = <<>> /\ RowsHeld
    BY <1>2, <1>11 DEF Pricing
  <2>2. p = book[s] /\ p \in Position
    BY <1>3, <2>1 DEF BookInv, BookTyped
  <2>3. quote \in Int
    BY <1>4, <2>2 DEF Position
  <2>4. ASSUME NEW t \in DOMAIN list
        PROVE  list[t].quantity = book[t].quantity /\ list[t].average = book[t].average /\ list[t].market \in Int
    <3>1. CASE t = s
      BY <1>5, <1>6, <1>10, <2>2, <2>3, <3>1
    <3>2. CASE t # s
      <4>1. t \in DOMAIN summary.rows /\ list[t] = summary.rows[t]
        BY <1>6, <1>10, <3>2
      <4>. QED
        BY <2>1, <4>1 DEF RowsHeld
    <3>. QED
      BY <3>1, <3>2
  <2>. QED
    BY <1>1, <1>9, <2>4 DEF RowsHeld
<1>12. Pricing'
  <2>1. summary.crossed \in Nat /\ DOMAIN list \subseteq BookSymbols /\ (summary.crossed = 0 => summary.old = <<>>)
    BY <1>2, <1>10 DEF Pricing
  <2>. QED
    BY <1>8, <1>9, <1>11, <2>1 DEF Pricing
<1>13. SummaryAddsUp'
  BY <1>9 DEF SummaryAddsUp
<1>. QED
  BY <1>1, <1>12, <1>13 DEF BookInv, BookTyped, ResultsAddUp, NothingShort

(* What is told are the positions at the prices told; they were held at    *)
(* their averages.                                                         *)
LEMMA ToldAddsUp ==
  ASSUME BookInv, Plain(paperFills), NEW list, \A s \in BookSymbols : /\ list[s].quantity = book[s].quantity
                                                   /\ list[s].average = book[s].average /\ list[s].market \in Int
  PROVE  LET total == TotalRealized + SumFunction([s \in BookSymbols |-> Unrealized(list[s])])
             worth == SumFunction([s \in BookSymbols |-> list[s].market * list[s].quantity])
         IN 2 * Size(total - (Cash(paperFills) + worth)) <= PositionLimit * Len(paperFills)
<1>1. PICK gains : gains = [s \in BookSymbols |-> book[s].realized]
  OBVIOUS
<1>2. PICK costs : costs = [s \in BookSymbols |-> book[s].average * book[s].quantity]
  OBVIOUS
<1>3. PICK results : results = [s \in BookSymbols |-> Result(book[s])]
  OBVIOUS
<1>4. PICK values : values = [s \in BookSymbols |-> list[s].market * list[s].quantity]
  OBVIOUS
<1>5. PICK open : open = [s \in BookSymbols |-> Unrealized(list[s])]
  OBVIOUS
<1>6. ASSUME NEW s \in BookSymbols
      PROVE  /\ gains[s] \in Int /\ costs[s] \in Int /\ results[s] = gains[s] - costs[s]
             /\ values[s] \in Int /\ open[s] = values[s] - costs[s]
  <2>1. PICK p \in Position : p = book[s]
    BY DEF BookInv, BookTyped
  <2>2. PICK q \in Int : q = p.quantity
    BY BookAssumption DEF Position
  <2>3. PICK a \in Int : a = p.average
    BY DEF Position
  <2>4. PICK m \in Int : m = list[s].market
    OBVIOUS
  <2>5. gains[s] = p.realized /\ gains[s] \in Int
    BY <1>1, <2>1 DEF Position
  <2>6. costs[s] = a * q /\ values[s] = m * q
    BY <1>2, <1>4, <2>1, <2>2, <2>3, <2>4
  <2>7. results[s] = p.realized - a * q
    BY <1>3, <2>1, <2>2, <2>3 DEF Result
  <2>8. open[s] = (m - a) * q
    BY <1>5, <2>1, <2>2, <2>3, <2>4 DEF Unrealized
  <2>9. (m - a) * q = m * q - a * q /\ a * q \in Int /\ m * q \in Int
    OBVIOUS
  <2>. QED
    BY <2>5, <2>6, <2>7, <2>8, <2>9
<1>7. SumFunctionOnSet(results, BookSymbols) = SumFunctionOnSet(gains, BookSymbols) - SumFunctionOnSet(costs, BookSymbols)
  BY <1>6, BookAssumption, SumDifference
<1>8. SumFunctionOnSet(open, BookSymbols) = SumFunctionOnSet(values, BookSymbols) - SumFunctionOnSet(costs, BookSymbols)
  BY <1>6, BookAssumption, SumDifference
<1>9. PICK g \in Int : g = SumFunctionOnSet(gains, BookSymbols)
  BY <1>6, BookAssumption, SumStep
<1>10. PICK c \in Int : c = SumFunctionOnSet(costs, BookSymbols)
  BY <1>6, BookAssumption, SumStep
<1>11. PICK w \in Int : w = SumFunctionOnSet(values, BookSymbols)
  BY <1>6, BookAssumption, SumStep
<1>12. TotalRealized = g /\ Results(book) = g - c
  BY <1>1, <1>3, <1>7, <1>9, <1>10 DEF TotalRealized, Results, SumFunction
<1>13. /\ SumFunction([s \in BookSymbols |-> Unrealized(list[s])]) = w - c
       /\ SumFunction([s \in BookSymbols |-> list[s].market * list[s].quantity]) = w
  BY <1>4, <1>5, <1>8, <1>10, <1>11 DEF SumFunction
<1>14. PICK cash \in Int : cash = Cash(paperFills)
  BY CashIs DEF BookInv, BookTyped
<1>15. g + (w - c) - (cash + w) = (g - c) - cash
  OBVIOUS
<1>16. 2 * Size((g - c) - cash) <= PositionLimit * Len(paperFills)
  BY <1>12, <1>14 DEF BookInv, ResultsAddUp
<1>. QED
  BY <1>12, <1>13, <1>14, <1>15, <1>16

LEMMA SummedKeeps ==
  ASSUME BookInv, Summed
  PROVE  BookInv'
<1>1. /\ summary.at = "pricing" /\ DOMAIN summary.rows = BookSymbols /\ UNCHANGED <<book, paperFills, today>>
  BY DEF Summed
<1>2. Pricing
  BY <1>1 DEF BookInv, NoSummary
<1>3. PICK list : list = summary.rows
  OBVIOUS
<1>4. PICK total : total = TotalRealized + SumFunction([s \in BookSymbols |-> Unrealized(list[s])])
  OBVIOUS
<1>5. /\ summary'.at = "told" /\ summary'.crossed = summary.crossed /\ summary'.rows = list
      /\ summary'.fills = paperFills /\ summary'.total = total
  BY <1>3, <1>4 DEF Summed
<1>6. ASSUME summary.crossed = 0, Plain(paperFills)
      PROVE  LET worth == SumFunction([s \in BookSymbols |-> list[s].market * list[s].quantity])
             IN 2 * Size(total - (Cash(paperFills) + worth)) <= PositionLimit * Len(paperFills)
  <2>1. \A s \in BookSymbols : /\ list[s].quantity = book[s].quantity
                               /\ list[s].average = book[s].average /\ list[s].market \in Int
    BY <1>1, <1>2, <1>3, <1>6 DEF Pricing, RowsHeld
  <2>. QED
    BY <1>4, <1>6, <2>1, ToldAddsUp
<1>7. SummaryAddsUp'
  BY <1>1, <1>5, <1>6 DEF SummaryAddsUp, Cash
<1>. QED
  BY <1>1, <1>5, <1>7 DEF BookInv, BookTyped, ResultsAddUp, NothingShort

LEMMA BookStepKeeps == BookInv /\ [BookNext]_bookVars => BookInv'
<1>. SUFFICES ASSUME BookInv, [BookNext]_bookVars PROVE BookInv'
  OBVIOUS
<1>1. ASSUME summary.at # "told", Trade, Len(paperFills') <= MaxPaperFills PROVE BookInv'
  <2>1. ASSUME NEW s \in BookSymbols, NEW o \in BookOrders, PlacePaperOrder(s, o.side, o.quantity, o.price)
        PROVE  BookInv'
    <3>1. o.quantity \in Int /\ o.price \in Int /\ o.side \in BookSides
      BY BookAssumption DEF BookOrder
    <3>. QED
      BY <1>1, <2>1, <3>1, OrderKeeps
  <2>2. ASSUME NEW s \in BookSymbols, NEW price \in BookPrices, ClosePaperPosition(s, price)
        PROVE  BookInv'
    <3>1. PICK side \in BookSides : PlacePaperOrder(s, side, Size(book[s].quantity), price)
      BY <2>2 DEF ClosePaperPosition, BookSides
    <3>2. Size(book[s].quantity) \in Int /\ price \in Int
      BY BookAssumption DEF BookInv, BookTyped, Position, Size
    <3>. QED
      BY <1>1, <3>1, <3>2, OrderKeeps
  <2>. QED
    BY <1>1, <2>1, <2>2 DEF Trade
<1>2. ASSUME NEW s \in BookSymbols, NEW price \in BookPrices \cup {0}, Priced(s, price) PROVE BookInv'
  <2>1. price \in Int
    BY BookAssumption
  <2>. QED
    BY <1>2, <2>1, PricedKeeps
<1>3. ASSUME NextDay PROVE BookInv'
  BY <1>3, BookAssumption
     DEF NextDay, BookInv, BookTyped, ResultsAddUp, NothingShort, SummaryAddsUp, Pricing, RowsHeld
<1>4. ASSUME GetSummary PROVE BookInv'
  <2>1. summary' = [at |-> "pricing", rows |-> <<>>, old |-> <<>>, crossed |-> 0, fills |-> paperFills]
        /\ UNCHANGED <<book, paperFills, today>>
    BY <1>4 DEF GetSummary
  <2>2. summary'.at = "pricing" /\ summary'.rows = <<>> /\ summary'.old = <<>> /\ summary'.crossed = 0
        /\ summary'.fills = paperFills
    BY <2>1
  <2>3. DOMAIN <<>> = {}
    OBVIOUS
  <2>4. Pricing' /\ SummaryAddsUp'
    BY <2>1, <2>2, <2>3 DEF Pricing, RowsHeld, SummaryAddsUp
  <2>. QED
    BY <2>1, <2>4 DEF BookInv, BookTyped, ResultsAddUp, NothingShort
<1>5. ASSUME SummarySent PROVE BookInv'
  <2>1. summary' = NoSummary /\ UNCHANGED <<book, paperFills, today>>
    BY <1>5 DEF SummarySent
  <2>2. SummaryAddsUp'
    BY <2>1 DEF NoSummary, SummaryAddsUp
  <2>. QED
    BY <2>1, <2>2 DEF BookInv, BookTyped, ResultsAddUp, NothingShort
<1>6. ASSUME UNCHANGED bookVars PROVE BookInv'
  BY <1>6 DEF bookVars, BookInv, BookTyped, ResultsAddUp, NothingShort, SummaryAddsUp, Pricing, RowsHeld
<1>7. ASSUME summary.at # "told", BookRequest PROVE BookInv'
  BY <1>1, <1>2, <1>3, <1>4, <1>7, ResetKeeps, SummedKeeps DEF BookRequest
<1>. QED
  BY <1>5, <1>6, <1>7 DEF BookNext

(* The inductive invariant of the money: positions within the limit of the *)
(* guard, and as long as every fill was a purchase or a sale, none short   *)
(* and results that add up to the cash of the fills; a summary that        *)
(* nothing crossed has the positions as they are (paperTradingEngine,      *)
(* portfolioEngine.getSummary).                                            *)
THEOREM BookInductive == BookSpec => []BookInv
<1>. QED
  BY BookStarts, BookStepKeeps, PTL DEF BookSpec

(* A summary that no fill and no reset has crossed adds up, for any        *)
(* symbols, limits, number of fills, quantities and prices of either sign, *)
(* as long as every fill was a purchase or a sale: realized and unrealized *)
(* profit are the cash and what the positions are worth, but for half a    *)
(* unit a share at each purchase (applyFillToPosition,                     *)
(* getPositionsWithPnL, getSummary).                                       *)
THEOREM SummariesAddUp == BookSpec => []SummaryAddsUp
<1>1. BookInv => SummaryAddsUp
  BY DEF BookInv
<1>. QED
  BY BookInductive, <1>1, PTL

LEMMA BookTypes == BookInv => BookTypeOK
<1>. SUFFICES ASSUME BookInv PROVE BookTypeOK
  OBVIOUS
<1>1. \A s \in BookSymbols : Size(book[s].quantity) <= PositionLimit /\ book[s].average \in Int
  BY BookAssumption DEF BookInv, BookTyped, Position, Size
<1>2. summary.at \in {"none", "pricing", "told"}
  <2>1. CASE summary = NoSummary
    BY <2>1 DEF NoSummary
  <2>2. CASE Pricing
    BY <2>2 DEF Pricing
  <2>. QED
    BY <2>1, <2>2 DEF BookInv
<1>. QED
  BY <1>1, <1>2 DEF BookInv, BookTyped, BookTypeOK

(* Whatever sides, quantities and prices arrive, no position passes the    *)
(* limit, long or short (riskGuard.checkOrder, applyFillToPosition).       *)
THEOREM BookTypeCorrect == BookSpec => []BookTypeOK
<1>. QED
  BY BookInductive, BookTypes, PTL


----------------------------------------------------------------------------
(* Correlation                                                             *)

(* Rows by day: where each comes from, no row twice and none left out. *)
Sorts(list, from) ==
  /\ from \in [DOMAIN list -> DOMAIN list]
  /\ \A k \in DOMAIN list : ByDay(list)[k] = list[from[k]]
  /\ \A i \in DOMAIN list : \E k \in DOMAIN list : from[k] = i
  /\ \A k, m \in DOMAIN list : k < m => from[k] # from[m] /\ list[from[k]].day <= list[from[m]].day

LEMMA ByDaySorts ==
  ASSUME NEW list \in Seq(MacroCandle)
  PROVE  \E from : Sorts(list, from)
<1>. DEFINE n == Len(list)
            before(i) == NotAfter(list, i)
            Size0(i) == Cardinality(before(i))
<1>1. n \in Nat /\ DOMAIN list = 1 .. n /\ \A i \in 1 .. n : list[i].day \in Nat
  <2>1. \A i \in 1 .. n : list[i] \in MacroCandle
    OBVIOUS
  <2>. QED
    BY <2>1 DEF MacroCandle
<1>2. IsFiniteSet(1 .. n) /\ Cardinality(1 .. n) = n
  <2>1. n \in Nat
    BY <1>1
  <2>. HIDE DEF n
  <2>2. 1 \in Int /\ n \in Int /\ ~(1 > n /\ n # 0)
    BY <2>1
  <2>3. IsFiniteSet(1 .. n) /\ Cardinality(1 .. n) = IF 1 > n THEN 0 ELSE n - 1 + 1
    BY <2>2, FS_Interval, Zenon
  <2>. QED
    BY <2>1, <2>3
<1>3. \A i \in 1 .. n : i \in before(i) /\ before(i) \in SUBSET (1 .. n)
  BY <1>1 DEF NotAfter
<1>4. ASSUME NEW i \in 1 .. n, NEW j \in 1 .. n, i # j, i \in before(j)
      PROVE  before(i) \subseteq before(j) /\ j \notin before(i)
  <2>1. \A h \in 1 .. n : h \in before(i) <=> list[h].day < list[i].day \/ (list[h].day = list[i].day /\ h <= i)
    BY <1>1 DEF NotAfter
  <2>2. \A h \in 1 .. n : h \in before(j) <=> list[h].day < list[j].day \/ (list[h].day = list[j].day /\ h <= j)
    BY <1>1 DEF NotAfter
  <2>3. list[i].day < list[j].day \/ (list[i].day = list[j].day /\ i <= j)
    BY <1>4, <2>2
  <2>. HIDE DEF before, n
  <2>4. PICK di \in Nat, dj \in Nat : di = list[i].day /\ dj = list[j].day
    BY <1>1
  <2>7. i \in Nat /\ j \in Nat /\ (di < dj \/ (di = dj /\ i <= j))
    BY <1>1, <2>3, <2>4
  <2>5. \A h \in 1 .. n : h \in before(i) => h \in before(j)
    <3>. TAKE h \in 1 .. n
    <3>1. PICK d \in Nat : d = list[h].day
      BY <1>1
    <3>2. h \in before(i) <=> d < di \/ (d = di /\ h <= i)
      BY <2>1, <2>4, <3>1
    <3>3. h \in before(j) <=> d < dj \/ (d = dj /\ h <= j)
      BY <2>2, <2>4, <3>1
    <3>4. h \in Nat
      BY <1>1
    <3>. QED
      BY <2>7, <3>2, <3>3, <3>4
  <2>6. j \notin before(i)
    <3>1. j \in before(i) <=> dj < di \/ (dj = di /\ j <= i)
      BY <2>1, <2>4
    <3>. QED
      BY <2>3, <2>4, <3>1, <1>1, <1>4
  <2>. QED
    BY <1>3, <2>5, <2>6
<1>5. \A i, j \in 1 .. n : i \in before(j) \/ j \in before(i)
  BY <1>1 DEF NotAfter
<1>6. \A i, j \in 1 .. n : i \in before(j) => list[i].day <= list[j].day
  BY <1>1 DEF NotAfter
<1>. HIDE DEF before, n
<1>7. \A i \in 1 .. n : IsFiniteSet(before(i)) /\ Size0(i) \in 1 .. n
  <2>. TAKE i \in 1 .. n
  <2>1. IsFiniteSet(before(i)) /\ Size0(i) <= n
    BY <1>2, <1>3, FS_Subset
  <2>2. Size0(i) \in Nat /\ Size0(i) # 0
    BY <1>3, <2>1, FS_CardinalityType, FS_EmptySet
  <2>. QED
    BY <1>1, <2>1, <2>2
<1>8. ASSUME NEW i \in 1 .. n, NEW j \in 1 .. n, i # j, i \in before(j)
      PROVE  Size0(i) < Size0(j)
  <2>1. before(i) \in SUBSET before(j) /\ before(i) # before(j)
    BY <1>3, <1>4, <1>8
  <2>2. Size0(i) <= Size0(j) /\ Size0(j) # Size0(i)
    BY <1>7, <2>1, FS_Subset
  <2>. QED
    BY <1>7, <2>2
<1>. DEFINE place == [i \in 1 .. n |-> Size0(i)]
            from == [k \in 1 .. n |-> CHOOSE i \in 1 .. n : Size0(i) = k]
<1>9. place \in Injection(1 .. n, 1 .. n)
  <2>1. place \in [1 .. n -> 1 .. n]
    BY <1>7
  <2>2. ASSUME NEW i \in 1 .. n, NEW j \in 1 .. n, place[i] = place[j]
        PROVE  i = j
    <3>. SUFFICES ASSUME i # j PROVE FALSE
      OBVIOUS
    <3>1. Size0(i) = Size0(j) /\ Size0(i) \in 1 .. n
      BY <1>7, <2>2
    <3>2. Size0(i) < Size0(j) \/ Size0(j) < Size0(i)
      BY <1>5, <1>8
    <3>. HIDE DEF Size0
    <3>. QED
      BY <3>1, <3>2, <1>1
  <2>. HIDE DEF place
  <2>. QED
    BY <2>1, <2>2, Fun_IsInj
<1>10. place \in Surjection(1 .. n, 1 .. n)
  BY <1>2, <1>9, FS_Injection
<1>. HIDE DEF Size0
<1>11. \A k \in 1 .. n : from[k] \in 1 .. n /\ Size0(from[k]) = k
  <2>. TAKE k \in 1 .. n
  <2>1. \E i \in 1 .. n : Size0(i) = k
    BY <1>10 DEF Surjection
  <2>. QED
    BY <2>1
<1>12. \A k \in 1 .. n : ByDay(list)[k] = list[from[k]]
  BY <1>1 DEF ByDay, Size0, before
<1>13. ASSUME NEW i \in 1 .. n
       PROVE  \E k \in 1 .. n : from[k] = i
  <2>1. Size0(i) \in 1 .. n
    BY <1>7 DEF Size0
  <2>2. from[Size0(i)] \in 1 .. n /\ Size0(from[Size0(i)]) = Size0(i)
    BY <1>11, <2>1
  <2>3. from[Size0(i)] = i
    BY <1>9, <2>1, <2>2, Fun_InjectionProperties
  <2>. HIDE DEF from
  <2>. QED
    BY <2>1, <2>3
<1>14. ASSUME NEW k \in 1 .. n, NEW m \in 1 .. n, k < m
       PROVE  from[k] # from[m] /\ list[from[k]].day <= list[from[m]].day
  <2>1. from[k] \in 1 .. n /\ from[m] \in 1 .. n /\ Size0(from[k]) = k /\ Size0(from[m]) = m
    BY <1>11
  <2>. HIDE DEF from
  <2>2. from[k] # from[m]
    BY <2>1, <1>14, <1>1
  <2>3. from[m] \notin before(from[k])
    <3>. SUFFICES ASSUME from[m] \in before(from[k]) PROVE FALSE
      OBVIOUS
    <3>1. Size0(from[m]) < Size0(from[k])
      BY <1>8, <2>1, <2>2 DEF Size0
    <3>. QED
      BY <3>1, <2>1, <1>14, <1>1
  <2>. QED
    BY <1>5, <1>6, <2>1, <2>2, <2>3
<1>. HIDE DEF from
<1>15. from \in [1 .. n -> 1 .. n]
  BY <1>11 DEF from
<1>16. Sorts(list, from)
  BY <1>1, <1>12, <1>13, <1>14, <1>15 DEF Sorts, n
<1>. QED
  BY <1>16
(* The returns of a symbol are those from one day to the next that has a   *)
(* candle, if no day has two, whatever the order of the candles.           *)
LEMMA ReturnsMeet ==
  ASSUME NEW cs \in Seq(MacroCandle), NEW s, OneADay(cs, s)
  PROVE  Returns(cs, s) = DailyReturns(cs, s)
<1>1. PICK use : use = UsableOf(cs, s)
  OBVIOUS
<1>2. PICK list : list = Filtered(cs, use)
  OBVIOUS
<1>3. list \in Seq(MacroCandle) /\ {list[k] : k \in DOMAIN list} = {cs[i] : i \in DOMAIN cs} \cap use
  BY <1>2, FilteredMembers
<1>4. use = {c \in {cs[i] : i \in DOMAIN cs} : c.symbol = s /\ Usable(c)}
  BY <1>1 DEF UsableOf, CandlesOf, Range
<1>5. {list[k] : k \in DOMAIN list} = use
  BY <1>3, <1>4
<1>6. PICK n \in Nat : n = Len(list)
  BY <1>3
<1>7. DOMAIN list = 1 .. n
  BY <1>3, <1>6
<1>8. \A c \in use : c \in MacroCandle /\ c.day \in Nat
  <2>1. \A i \in DOMAIN cs : cs[i] \in MacroCandle
    OBVIOUS
  <2>2. \A c \in MacroCandle : c.day \in Nat
    BY DEF MacroCandle
  <2>. QED
    BY <1>4, <2>1, <2>2
<1>9. ASSUME NEW b \in use, NEW c \in use, b.day = c.day
      PROVE  b = c
  <2>1. PICK i \in DOMAIN cs : b = cs[i]
    BY <1>4
  <2>2. PICK j \in DOMAIN cs : c = cs[j]
    BY <1>4
  <2>3. b.symbol = s /\ c.symbol = s /\ Usable(b) /\ Usable(c)
    BY <1>4
  <2>4. i = j
    BY <1>9, <2>1, <2>2, <2>3 DEF OneADay
  <2>. QED
    BY <2>1, <2>2, <2>4
<1>10. PICK at : Places(cs, use, Len(cs), list, at)
  BY <1>2, PlacesOf
<1>11. ASSUME NEW j \in 1 .. n, NEW k \in 1 .. n, list[j].day = list[k].day
       PROVE  j = k
  <2>1. list[j] \in use /\ list[k] \in use
    BY <1>5, <1>7
  <2>2. /\ at[j] \in 1 .. Len(cs) /\ at[k] \in 1 .. Len(cs) /\ list[j] = cs[at[j]] /\ list[k] = cs[at[k]]
        /\ (j < k => at[j] < at[k]) /\ (k < j => at[k] < at[j])
    BY <1>6, <1>10 DEF Places
  <2>3. /\ cs[at[j]].symbol = s /\ cs[at[k]].symbol = s /\ cs[at[j]].day = cs[at[k]].day
        /\ Usable(cs[at[j]]) /\ Usable(cs[at[k]]) /\ at[j] \in DOMAIN cs /\ at[k] \in DOMAIN cs
    BY <1>4, <1>11, <2>1, <2>2
  <2>4. at[j] = at[k]
    BY <2>3 DEF OneADay
  <2>. QED
    BY <2>2, <2>4
<1>12. PICK from : Sorts(list, from)
  BY <1>3, ByDaySorts
<1>13. PICK o : o = ByDay(list)
  OBVIOUS
<1>14. /\ from \in [1 .. n -> 1 .. n] /\ \A k \in 1 .. n : o[k] = list[from[k]]
       /\ \A i \in 1 .. n : \E k \in 1 .. n : from[k] = i
       /\ \A k, m \in 1 .. n : k < m => from[k] # from[m] /\ list[from[k]].day <= list[from[m]].day
  BY <1>7, <1>12, <1>13 DEF Sorts
<1>15. DOMAIN o = 1 .. n /\ Len(o) = n
  <2>1. o = [k \in 1 .. n |-> list[CHOOSE i \in DOMAIN list : Cardinality(NotAfter(list, i)) = k]]
    BY <1>7, <1>13 DEF ByDay
  <2>2. DOMAIN o = 1 .. n
    BY <2>1
  <2>. QED
    BY <2>2, <1>6
<1>16. \A k \in 1 .. n : o[k] \in use /\ o[k].day \in Nat
  <2>1. \A k \in 1 .. n : from[k] \in 1 .. n /\ o[k] = list[from[k]]
    BY <1>14
  <2>2. \A k \in 1 .. n : list[k] \in use
    BY <1>5, <1>7
  <2>3. \A k \in 1 .. n : o[k] \in use
    BY <2>1, <2>2
  <2>. QED
    BY <1>8, <2>3
<1>17. ASSUME NEW c \in use
       PROVE  \E k \in 1 .. n : o[k] = c
  <2>1. PICK i \in 1 .. n : list[i] = c
    BY <1>5, <1>7
  <2>2. PICK k \in 1 .. n : from[k] = i
    BY <1>14, Zenon
  <2>3. o[k] = list[i]
    BY <1>14, <2>2, Zenon
  <2>. QED
    BY <2>1, <2>3, Zenon
<1>18. ASSUME NEW k \in 1 .. n, NEW m \in 1 .. n, k < m
       PROVE  o[k].day < o[m].day
  <2>1. from[k] \in 1 .. n /\ from[m] \in 1 .. n /\ from[k] # from[m]
    BY <1>14, <1>18
  <2>2. list[from[k]].day # list[from[m]].day
    BY <1>11, <2>1
  <2>3. o[k] = list[from[k]] /\ o[m] = list[from[m]] /\ list[from[k]].day <= list[from[m]].day
    BY <1>14, <1>18
  <2>4. o[k].day # o[m].day /\ o[k].day <= o[m].day
    BY <2>2, <2>3, Zenon
  <2>. QED
    BY <2>4, <1>16
<1>19. PICK day : day = [k \in 1 .. n |-> o[k].day]
  OBVIOUS
<1>20. /\ \A k \in 1 .. n : day[k] = o[k].day /\ day[k] \in Nat
       /\ \A k, m \in 1 .. n : k < m => day[k] < day[m]
  BY <1>16, <1>18, <1>19
<1>21. \A k, m \in 1 .. n : day[k] <= day[m] => k <= m
  <2>. TAKE k \in 1 .. n, m \in 1 .. n
  <2>1. m < k => day[m] < day[k]
    BY <1>20
  <2>2. day[m] \in Nat /\ day[k] \in Nat /\ m \in Nat /\ k \in Nat
    BY <1>20
  <2>. QED
    BY <2>1, <2>2
<1>. DEFINE Days == {c.day : c \in use}
            CloseOn(d) == (CHOOSE c \in use : c.day = d).close
            Past(d) == Max({e \in Days : e < d})
            LastOn(d) == Max({i \in 2 .. n : o[i].day = d})
<1>22. Days = {o[k].day : k \in 1 .. n} /\ Days \subseteq Nat
  BY <1>16, <1>17
<1>23. Returns(cs, s) = [d \in {o[i].day : i \in 2 .. n} |-> Return(o[LastOn(d) - 1].close, o[LastOn(d)].close)]
  BY <1>1, <1>2, <1>13, <1>15 DEF Returns
<1>24. DailyReturns(cs, s) = [d \in {e \in Days : e # Min(Days)} |-> Return(CloseOn(Past(d)), CloseOn(d))]
  BY <1>1 DEF DailyReturns
<1>25. {o[i].day : i \in 2 .. n} = {e \in Days : e # Min(Days)}
  <2>1. CASE n = 0
    <3>1. 1 .. n = {} /\ 2 .. n = {}
      BY <2>1
    <3>. QED
      BY <3>1, <1>22
  <2>2. CASE n # 0
    <3>1. 1 \in 1 .. n /\ \A k \in 1 .. n : k = 1 \/ (k \in 2 .. n /\ 1 < k)
      BY <2>2
    <3>2. o[1].day \in Days /\ \A e \in Days : o[1].day <= e
      <4>1. \A k \in 1 .. n : o[1].day <= o[k].day
        BY <3>1, <1>16, <1>18
      <4>. QED
        BY <3>1, <4>1, <1>22
    <3>3. Min(Days) = o[1].day
      <4>1. Days \in SUBSET Int
        BY <1>22
      <4>. HIDE DEF Days
      <4>. QED
        BY <3>2, <4>1, MinIs
    <3>4. \A k \in 2 .. n : k \in 1 .. n /\ o[k].day # o[1].day
      BY <3>1, <1>16, <1>18
    <3>. HIDE DEF Days
    <3>. QED
      BY <3>1, <3>3, <3>4, <1>22
  <2>. QED
    BY <2>1, <2>2
<1>26. ASSUME NEW k \in 2 .. n
       PROVE  /\ LastOn(o[k].day) = k /\ Past(o[k].day) = o[k - 1].day
              /\ k \in 1 .. n /\ k - 1 \in 1 .. n
  <2>1. k \in 1 .. n /\ k - 1 \in 1 .. n /\ k - 1 < k
    OBVIOUS
  <2>2. {i \in 2 .. n : o[i].day = o[k].day} = {k}
    <3>1. \A i \in 2 .. n : i \in 1 .. n /\ (i # k => o[i].day # o[k].day)
      BY <1>20, <1>21, <2>1
    <3>. QED
      BY <3>1
  <2>3. LastOn(o[k].day) = k
    <3>1. {k} \in SUBSET Int
      BY <2>1
    <3>. QED
      BY <2>2, <3>1, MaxIs
  <2>4. o[k - 1].day \in {e \in Days : e < o[k].day}
    BY <2>1, <1>18, <1>22
  <2>5. \A e \in Days : e < o[k].day => e <= o[k - 1].day
    <3>. SUFFICES ASSUME NEW m \in 1 .. n, o[m].day < o[k].day PROVE o[m].day <= o[k - 1].day
      BY <1>22
    <3>1. ~(k <= m)
      <4>1. k = m \/ ~(k < m)
        BY <1>16, <1>18, <2>1
      <4>2. k # m
        BY <1>16
      <4>. QED
        BY <4>1, <4>2
    <3>2. m = k - 1 \/ m < k - 1
      BY <3>1
    <3>. QED
      BY <3>2, <1>16, <1>18, <2>1
  <2>6. {e \in Days : e < o[k].day} \in SUBSET Int
    BY <1>22
  <2>7. Past(o[k].day) = o[k - 1].day
    BY <2>4, <2>5, <2>6, MaxIs
  <2>. QED
    BY <2>1, <2>3, <2>7
<1>27. ASSUME NEW k \in 1 .. n
       PROVE  CloseOn(o[k].day) = o[k].close
  <2>1. o[k] \in use /\ \A c \in use : c.day = o[k].day => c = o[k]
    BY <1>9, <1>16
  <2>. QED
    BY <2>1
<1>. HIDE DEF Days, CloseOn, Past, LastOn
<1>28. ASSUME NEW d \in {o[i].day : i \in 2 .. n}
       PROVE  Return(o[LastOn(d) - 1].close, o[LastOn(d)].close) = Return(CloseOn(Past(d)), CloseOn(d))
  <2>1. PICK k \in 2 .. n : d = o[k].day
    OBVIOUS
  <2>2. LastOn(d) = k /\ Past(d) = o[k - 1].day /\ k \in 1 .. n /\ k - 1 \in 1 .. n
    BY <1>26, <2>1
  <2>3. CloseOn(d) = o[k].close /\ CloseOn(Past(d)) = o[k - 1].close
    BY <1>27, <2>1, <2>2
  <2>. QED
    BY <2>2, <2>3
<1>. QED
  BY <1>23, <1>24, <1>25, <1>28, Zenon
(* Requests: what is left to read, and the candles read so far. *)
Kinds == {q.kind : q \in Queries}
Carried ==
  [phase : {"listed", "primary", "found"}, kind : Kinds, wanted : Seq(MacroSymbols),
   order : Seq(MacroSymbols \cup {NoSymbol}), ids : Seq(MacroIds),
   pending : Seq(MacroIds) \cup Seq(MacroIds \X MacroSymbols), candles : Seq(MacroCandle)]

Statuses == {"ready", "missing_symbols", "not_enough_data", "dataset_not_found"}
MacroReasons == {"none", "dataset_file_missing", "not_parsed", "no_overlap", "different_date_keys"}
Done ==
  [phase : {"answered"}, kind : Kinds, wanted : Seq(MacroSymbols),
   answer : [status : Statuses, candles : Seq(MacroCandle), reason : MacroReasons]]

ReadsOn ==
  /\ query \in Carried
  /\ query.phase = "listed" => Len(query.pending) \in 1 .. Len(query.ids)
  /\ query.phase = "primary" => Len(query.ids) = 1
  /\ query.phase = "found" => query.pending \in Seq(MacroIds \X MacroSymbols) /\ query.pending # <<>>

MacroInv ==
  /\ stored \in [MacroIds -> Contents \cup {NoContent}]
  /\ query = NoQuery \/ ReadsOn \/ query \in Done

LEMMA ToldTyped ==
  ASSUME NEW status \in Statuses, NEW cs \in Seq(MacroCandle), NEW reason \in MacroReasons
  PROVE  Told(status, cs, reason) \in [status : Statuses, candles : Seq(MacroCandle), reason : MacroReasons]
BY DEF Told

LEMMA AnswerTyped ==
  ASSUME NEW q, NEW cs \in Seq(MacroCandle)
  PROVE  Answer(q, cs) \in [status : Statuses, candles : Seq(MacroCandle), reason : MacroReasons]
<1>1. PICK cause : cause = IF q.kind = "volatility" THEN "none" ELSE RootCause(cs, q.wanted)
  OBVIOUS
<1>2. cause \in MacroReasons
  BY <1>1 DEF RootCause, MacroReasons
<1>3. Answer(q, cs) \in {Told("missing_symbols", cs, cause), Told("ready", cs, "none"), Told("not_enough_data", cs, cause)}
  BY <1>1 DEF Answer
<1>4. "none" \in MacroReasons /\ {"missing_symbols", "ready", "not_enough_data"} \subseteq Statuses
  BY DEF MacroReasons, Statuses
<1>. QED
  BY <1>2, <1>3, <1>4, ToldTyped

LEMMA AnsweredKeeps ==
  ASSUME MacroInv, query \in Carried, UNCHANGED stored,
         NEW a \in [status : Statuses, candles : Seq(MacroCandle), reason : MacroReasons], Answered(a)
  PROVE  MacroInv'
<1>1. query' \in Done
  BY DEF Answered, Done, Carried
<1>. QED
  BY <1>1 DEF MacroInv, Done, Kinds, Statuses, MacroReasons

LEMMA AskKeeps ==
  ASSUME MacroInv, NEW q \in Queries, Ask(q)
  PROVE  MacroInv'
<1>1. /\ q.wanted \in Seq(MacroSymbols) /\ q.order \in Seq(MacroSymbols \cup {NoSymbol})
      /\ q.ids \in Seq(MacroIds) /\ q.kind \in Kinds
  BY MacroAssumption DEF Kinds
<1>2. CASE q.ids = <<>>
  <2>1. query' = [phase |-> "answered", kind |-> q.kind, wanted |-> q.wanted,
                  answer |-> Told("not_enough_data", <<>>, "none")]
    BY <1>2 DEF Ask
  <2>2. <<>> \in Seq(MacroCandle) /\ "none" \in MacroReasons /\ "not_enough_data" \in Statuses
    BY DEF MacroReasons, Statuses
  <2>3. Told("not_enough_data", <<>>, "none") \in [status : Statuses, candles : Seq(MacroCandle), reason : MacroReasons]
    BY <2>2, ToldTyped
  <2>4. query' \in Done
    BY <1>1, <2>1, <2>3 DEF Done
  <2>. QED
    BY <2>4 DEF MacroInv, Ask, Done, Kinds, Statuses, MacroReasons
<1>3. CASE q.ids # <<>>
  <2>1. PICK phase : /\ phase = IF Len(q.ids) = 1 /\ q.order = <<>> THEN "primary" ELSE "listed"
                     /\ query' = Reading(q, phase, q.ids, <<>>)
    BY <1>3 DEF Ask
  <2>2. <<>> \in Seq(MacroCandle) /\ Len(q.ids) \in 1 .. Len(q.ids)
    BY <1>1, <1>3
  <2>3. query' \in Carried
    BY <1>1, <2>1, <2>2 DEF Reading, Carried
  <2>4. query'.phase = phase /\ query'.pending = q.ids /\ query'.ids = q.ids /\ phase # "found"
    BY <2>1 DEF Reading
  <2>5. phase = "primary" => Len(q.ids) = 1
    BY <2>1
  <2>6. ReadsOn'
    BY <2>2, <2>3, <2>4, <2>5 DEF ReadsOn, Carried, Kinds
  <2>. QED
    BY <2>6 DEF MacroInv, Ask
<1>. QED
  BY <1>2, <1>3
(* A request that reads on has one dataset less to read. *)
LEMMA TailKeeps ==
  ASSUME MacroInv, ReadsOn, query.phase # "primary", Len(query.pending) > 1, UNCHANGED stored,
         NEW cs \in Seq(MacroCandle), query' = [query EXCEPT !.pending = Tail(@), !.candles = cs]
  PROVE  MacroInv'
<1>1. PICK rest : rest = Tail(query.pending)
  OBVIOUS
<1>2. query' = [query EXCEPT !.pending = rest, !.candles = cs]
  BY <1>1
<1>3. query \in Carried
  BY DEF ReadsOn
<1>4. ASSUME NEW S, query.pending \in Seq(S)
      PROVE  rest \in Seq(S) /\ Len(rest) = Len(query.pending) - 1
  BY <1>1, <1>4, HeadTailProperties
<1>5. rest \in Seq(MacroIds) \cup Seq(MacroIds \X MacroSymbols) /\ Len(rest) = Len(query.pending) - 1
  BY <1>3, <1>4 DEF Carried
<1>6. query' \in Carried
  BY <1>2, <1>3, <1>5 DEF Carried
<1>7. query'.phase = query.phase /\ query'.pending = rest /\ query'.ids = query.ids
  BY <1>2, <1>3 DEF Carried
<1>8. Len(query.pending) \in Nat /\ Len(query.ids) \in Nat
  BY <1>3 DEF Carried
<1>9. query.phase = "listed" => Len(rest) \in 1 .. Len(query.ids)
  BY <1>5, <1>8 DEF ReadsOn
<1>10. query.phase = "found" => rest \in Seq(MacroIds \X MacroSymbols) /\ rest # <<>>
  BY <1>4, <1>5, <1>8 DEF ReadsOn
<1>11. ReadsOn'
  BY <1>6, <1>7, <1>9, <1>10 DEF ReadsOn, Carried, Kinds
<1>. QED
  BY <1>11 DEF MacroInv

LEMMA ContentTyped ==
  ASSUME MacroInv, NEW id \in MacroIds, stored[id] # NoContent
  PROVE  stored[id].candles \in Seq(MacroCandle) /\ stored[id].label \in MacroSymbols \cup {NoSymbol}
<1>1. stored[id] \in Contents
  BY DEF MacroInv
<1>. QED
  BY <1>1, MacroAssumption

(* A candle that is put under the dataset's symbol is a candle. *)
LEMMA PatchedTyped ==
  ASSUME MacroInv, query \in Carried, NEW i \in 1 .. Len(query.ids), stored[query.ids[i]] # NoContent
  PROVE  Patched(i) \in Seq(MacroCandle)
<1>1. query.ids[i] \in MacroIds
  BY DEF Carried
<1>2. PICK list \in Seq(MacroCandle) : list = stored[query.ids[i]].candles
  BY <1>1, ContentTyped
<1>3. Listed(i) \in MacroSymbols \cup {NoSymbol}
  <2>1. stored[query.ids[i]].label \in MacroSymbols \cup {NoSymbol}
    BY <1>1, ContentTyped
  <2>2. query.order \in Seq(MacroSymbols \cup {NoSymbol})
    BY DEF Carried
  <2>. QED
    BY <2>1, <2>2 DEF Listed
<1>4. PICK fits : fits = [k \in DOMAIN list |-> list[k].symbol \in Range(query.wanted) \/ Listed(i) = NoSymbol]
  OBVIOUS
<1>5. Patched(i) = [k \in DOMAIN list |-> IF fits[k] THEN list[k] ELSE [list[k] EXCEPT !.symbol = Listed(i)]]
  BY <1>2, <1>4 DEF Patched
<1>6. ASSUME NEW k \in DOMAIN list
      PROVE  (IF fits[k] THEN list[k] ELSE [list[k] EXCEPT !.symbol = Listed(i)]) \in MacroCandle
  <2>1. list[k] \in MacroCandle
    OBVIOUS
  <2>2. CASE fits[k]
    BY <2>1, <2>2
  <2>3. CASE ~fits[k]
    <3>1. Listed(i) \in MacroSymbols
      BY <1>3, <1>4, <2>3
    <3>2. [list[k] EXCEPT !.symbol = Listed(i)] \in MacroCandle
      BY <2>1, <3>1 DEF MacroCandle
    <3>. QED
      BY <2>3, <3>2
  <2>. QED
    BY <2>2, <2>3
<1>7. DOMAIN list = 1 .. Len(list) /\ Len(list) \in Nat
  OBVIOUS
<1>8. PICK one : one = [k \in DOMAIN list |-> IF fits[k] THEN list[k] ELSE [list[k] EXCEPT !.symbol = Listed(i)]]
  OBVIOUS
<1>9. \A k \in DOMAIN list : one[k] \in MacroCandle
  BY <1>6, <1>8
<1>10. one = [k \in DOMAIN list |-> one[k]]
  BY <1>8
<1>11. Patched(i) \in [1 .. Len(list) -> MacroCandle]
  BY <1>5, <1>7, <1>8, <1>9, <1>10
<1>. QED
  BY <1>7, <1>11

LEMMA ListedKeeps ==
  ASSUME MacroInv, ReadListed
  PROVE  MacroInv'
<1>1. query.phase = "listed" /\ UNCHANGED stored
  BY DEF ReadListed
<1>2. ReadsOn /\ query \in Carried
  BY <1>1 DEF MacroInv, NoQuery, Done, ReadsOn
<1>3. PICK i : i = Len(query.ids) - Len(query.pending) + 1
  OBVIOUS
<1>4. i \in 1 .. Len(query.ids) /\ query.ids[i] \in MacroIds
  <2>1. Len(query.pending) \in 1 .. Len(query.ids) /\ query.ids \in Seq(MacroIds)
    BY <1>1, <1>2 DEF ReadsOn, Carried
  <2>2. PICK n \in Nat, l \in Nat : n = Len(query.ids) /\ l = Len(query.pending)
    BY <2>1
  <2>3. l \in 1 .. n /\ i = n - l + 1
    BY <1>3, <2>1, <2>2
  <2>4. i \in 1 .. n
    BY <2>3
  <2>. QED
    BY <2>1, <2>2, <2>4
<1>5. PICK more : more = IF stored[query.ids[i]] = NoContent THEN <<>> ELSE Patched(i)
  OBVIOUS
<1>6. more \in Seq(MacroCandle)
  BY <1>2, <1>4, <1>5, PatchedTyped
<1>7. PICK cs : cs = query.candles \o more
  OBVIOUS
<1>8. cs \in Seq(MacroCandle)
  BY <1>2, <1>6, <1>7 DEF Carried
<1>9. IF Len(query.pending) > 1 THEN query' = [query EXCEPT !.pending = Tail(@), !.candles = cs]
      ELSE Answered(IF cs = <<>> THEN Told("dataset_not_found", <<>>, "none") ELSE Answer(query, cs))
  BY <1>3, <1>5, <1>7 DEF ReadListed
<1>10. CASE Len(query.pending) > 1
  <2>1. query' = [query EXCEPT !.pending = Tail(@), !.candles = cs]
    BY <1>9, <1>10, Zenon
  <2>2. query.phase # "primary"
    BY <1>1
  <2>. QED
    BY <1>1, <1>2, <1>8, <1>10, <2>1, <2>2, TailKeeps, Zenon
<1>11. CASE ~(Len(query.pending) > 1)
  <2>1. PICK a : a = IF cs = <<>> THEN Told("dataset_not_found", <<>>, "none") ELSE Answer(query, cs)
    OBVIOUS
  <2>2. Answer(query, cs) \in [status : Statuses, candles : Seq(MacroCandle), reason : MacroReasons]
    BY <1>8, AnswerTyped
  <2>3. <<>> \in Seq(MacroCandle) /\ "none" \in MacroReasons /\ "dataset_not_found" \in Statuses
    BY DEF MacroReasons, Statuses
  <2>4. Told("dataset_not_found", <<>>, "none") \in [status : Statuses, candles : Seq(MacroCandle), reason : MacroReasons]
    BY <2>3, ToldTyped
  <2>5. a \in [status : Statuses, candles : Seq(MacroCandle), reason : MacroReasons] /\ Answered(a)
    BY <1>9, <1>11, <2>1, <2>2, <2>4
  <2>. QED
    BY <1>1, <1>2, <2>5, AnsweredKeeps
<1>. QED
  BY <1>10, <1>11

LEMMA FoundKeeps ==
  ASSUME MacroInv, ReadFound
  PROVE  MacroInv'
<1>1. query.phase = "found" /\ UNCHANGED stored
  BY DEF ReadFound
<1>2. ReadsOn /\ query \in Carried
  BY <1>1 DEF MacroInv, NoQuery, Done, ReadsOn
<1>3. PICK next : next = Head(query.pending)
  OBVIOUS
<1>4. next \in MacroIds \X MacroSymbols
  <2>1. query.pending \in Seq(MacroIds \X MacroSymbols) /\ query.pending # <<>>
    BY <1>1, <1>2 DEF ReadsOn
  <2>. QED
    BY <1>3, <2>1, HeadTailProperties
<1>5. PICK more : more = IF stored[next[1]] = NoContent THEN <<>>
                         ELSE Filtered(stored[next[1]].candles, CandlesOf(stored[next[1]].candles, next[2]))
  OBVIOUS
<1>6. more \in Seq(MacroCandle)
  <2>1. CASE stored[next[1]] = NoContent
    BY <1>5, <2>1
  <2>2. CASE stored[next[1]] # NoContent
    <3>1. stored[next[1]].candles \in Seq(MacroCandle)
      BY <1>4, <2>2, ContentTyped
    <3>. QED
      BY <1>5, <2>2, <3>1, FilteredMembers
  <2>. QED
    BY <2>1, <2>2
<1>7. PICK cs : cs = query.candles \o more
  OBVIOUS
<1>8. cs \in Seq(MacroCandle)
  BY <1>2, <1>6, <1>7 DEF Carried
<1>9. IF Len(query.pending) > 1 THEN query' = [query EXCEPT !.pending = Tail(@), !.candles = cs]
      ELSE Answered(Answer(query, cs))
  <2>1. cs = query.candles \o (IF stored[Head(query.pending)[1]] = NoContent THEN <<>>
                               ELSE Filtered(stored[Head(query.pending)[1]].candles,
                                             CandlesOf(stored[Head(query.pending)[1]].candles, Head(query.pending)[2])))
    BY <1>3, <1>5, <1>7, Zenon
  <2>. QED
    BY <2>1, Zenon DEF ReadFound
<1>10. CASE Len(query.pending) > 1
  <2>1. query' = [query EXCEPT !.pending = Tail(@), !.candles = cs]
    BY <1>9, <1>10, Zenon
  <2>2. query.phase # "primary"
    BY <1>1
  <2>. QED
    BY <1>1, <1>2, <1>8, <1>10, <2>1, <2>2, TailKeeps, Zenon
<1>11. CASE ~(Len(query.pending) > 1)
  <2>1. Answer(query, cs) \in [status : Statuses, candles : Seq(MacroCandle), reason : MacroReasons]
    BY <1>8, AnswerTyped
  <2>. QED
    BY <1>1, <1>2, <1>9, <1>11, <2>1, AnsweredKeeps
<1>. QED
  BY <1>10, <1>11

LEMMA PrimaryKeeps ==
  ASSUME MacroInv, ReadPrimary
  PROVE  MacroInv'
<1>1. query.phase = "primary" /\ UNCHANGED stored
  BY DEF ReadPrimary
<1>2. ReadsOn /\ query \in Carried
  BY <1>1 DEF MacroInv, NoQuery, Done, ReadsOn
<1>3. query.ids[1] \in MacroIds
  <2>1. query.ids \in Seq(MacroIds) /\ Len(query.ids) = 1
    BY <1>1, <1>2 DEF ReadsOn, Carried
  <2>. QED
    BY <2>1
<1>4. PICK content : content = stored[query.ids[1]]
  OBVIOUS
<1>5. CASE content = NoContent
  <2>1. Answered(Told("dataset_not_found", <<>>, "none"))
    BY <1>4, <1>5 DEF ReadPrimary
  <2>2. <<>> \in Seq(MacroCandle) /\ "none" \in MacroReasons /\ "dataset_not_found" \in Statuses
    BY DEF MacroReasons, Statuses
  <2>3. Told("dataset_not_found", <<>>, "none") \in [status : Statuses, candles : Seq(MacroCandle), reason : MacroReasons]
    BY <2>2, ToldTyped
  <2>. QED
    BY <1>1, <1>2, <2>1, <2>3, AnsweredKeeps
<1>6. CASE content # NoContent
  <2>1. PICK list \in Seq(MacroCandle) : list = content.candles
    BY <1>3, <1>4, <1>6, ContentTyped
  <2>2. PICK lacking : lacking = {s \in Missing(list, query.wanted) : Compatible(s, content.timeframe) # {}}
    OBVIOUS
  <2>3. IF lacking = {} \/ query.kind = "volatility" THEN Answered(Answer(query, list))
        ELSE \E found \in [lacking -> MacroIds] :
               LET names == Filtered(query.wanted, lacking) IN
               query' = Reading(query, "found", [i \in DOMAIN names |-> <<found[names[i]], names[i]>>], list)
    BY <1>4, <1>6, <2>1, <2>2 DEF ReadPrimary
  <2>4. CASE lacking = {} \/ query.kind = "volatility"
    <3>1. Answer(query, list) \in [status : Statuses, candles : Seq(MacroCandle), reason : MacroReasons]
      BY <2>1, AnswerTyped
    <3>. QED
      BY <1>1, <1>2, <2>3, <2>4, <3>1, AnsweredKeeps
  <2>5. CASE ~(lacking = {} \/ query.kind = "volatility")
    <3>1. PICK names : names = Filtered(query.wanted, lacking)
      OBVIOUS
    <3>2. PICK found \in [lacking -> MacroIds] :
            query' = Reading(query, "found", [i \in DOMAIN names |-> <<found[names[i]], names[i]>>], list)
      BY <2>3, <2>5, <3>1
    <3>3. PICK left : left = [i \in DOMAIN names |-> <<found[names[i]], names[i]>>]
      OBVIOUS
    <3>4. query.wanted \in Seq(MacroSymbols)
      BY <1>2 DEF Carried
    <3>5. names \in Seq(MacroSymbols) /\ {names[k] : k \in DOMAIN names} = {query.wanted[i] : i \in DOMAIN query.wanted} \cap lacking
      <4>1. PICK w \in Seq(MacroSymbols) : w = query.wanted
        BY <3>4
      <4>2. names = Filtered(w, lacking)
        BY <3>1, <4>1
      <4>3. names \in Seq(MacroSymbols) /\ {names[k] : k \in DOMAIN names} = {w[i] : i \in DOMAIN w} \cap lacking
        BY <4>2, FilteredMembers
      <4>. QED
        BY <4>1, <4>3
    <3>6. lacking \subseteq {query.wanted[i] : i \in DOMAIN query.wanted}
      BY <2>2 DEF Missing, Range
    <3>7. {names[k] : k \in DOMAIN names} = lacking
      BY <3>5, <3>6
    <3>8. left \in Seq(MacroIds \X MacroSymbols) /\ left # <<>>
      <4>1. DOMAIN names = 1 .. Len(names) /\ Len(names) \in Nat
        BY <3>5
      <4>2. \A i \in 1 .. Len(names) : names[i] \in lacking /\ names[i] \in MacroSymbols
        BY <3>5, <3>7, <4>1
      <4>3. \A i \in 1 .. Len(names) : <<found[names[i]], names[i]>> \in MacroIds \X MacroSymbols
        BY <4>2
      <4>4. left \in Seq(MacroIds \X MacroSymbols)
        BY <3>3, <4>1, <4>3, IsASeq
      <4>5. PICK k \in DOMAIN names : names[k] \in lacking
        BY <2>5, <3>7
      <4>6. k \in DOMAIN left
        BY <3>3, <4>5
      <4>. QED
        BY <4>4, <4>6
    <3>9. query' = Reading(query, "found", left, list)
      BY <3>2, <3>3
    <3>10. query' \in Carried
      BY <1>2, <2>1, <3>8, <3>9 DEF Reading, Carried
    <3>11. query'.phase = "found" /\ query'.pending = left
      BY <3>9 DEF Reading
    <3>12. ReadsOn'
      BY <3>8, <3>10, <3>11 DEF ReadsOn, Carried, Kinds
    <3>. QED
      BY <1>1, <3>12 DEF MacroInv
  <2>. QED
    BY <2>4, <2>5
<1>. QED
  BY <1>5, <1>6

LEMMA MacroStarts == MacroInit => MacroInv
BY DEF MacroInit, MacroInv

LEMMA MacroStepKeeps == MacroInv /\ [MacroNext]_macroVars => MacroInv'
<1>. SUFFICES ASSUME MacroInv, [MacroNext]_macroVars PROVE MacroInv'
  OBVIOUS
<1>1. ASSUME NEW id \in MacroIds, NEW content \in Contents \cup {NoContent}, DatasetChanges(id, content)
      PROVE  MacroInv'
  BY <1>1 DEF MacroInv, DatasetChanges, ReadsOn, Carried, Done, Kinds, Statuses, MacroReasons
<1>2. CASE UNCHANGED macroVars
  BY <1>2 DEF macroVars, MacroInv, ReadsOn, Carried, Done, Kinds, Statuses, MacroReasons
<1>. QED
  BY <1>1, <1>2, AskKeeps, ListedKeeps, PrimaryKeeps, FoundKeeps DEF MacroNext

(* The inductive invariant of the correlation routes: datasets keep to     *)
(* their types, and what a request has still to read is there to be read   *)
(* (resolveAndLoadCandles).                                                *)
THEOREM MacroInductive == MacroSpec => []MacroInv
<1>. QED
  BY MacroStarts, MacroStepKeeps, PTL DEF MacroSpec

LEMMA MacroTypes == MacroInv => MacroTypeOK
<1>. SUFFICES ASSUME MacroInv PROVE MacroTypeOK
  OBVIOUS
<1>1. CASE query = NoQuery
  BY <1>1 DEF MacroInv, MacroTypeOK, NoQuery
<1>2. CASE ReadsOn
  BY <1>2 DEF MacroInv, MacroTypeOK, ReadsOn, Carried
<1>3. CASE query \in Done
  BY <1>3 DEF MacroInv, MacroTypeOK, Done, Statuses
<1>. QED
  BY <1>1, <1>2, <1>3 DEF MacroInv

(* The returns of a ready answer are those from one day to the next that   *)
(* has a candle, for any contents, symbols and requests, in whatever order *)
(* the candles were stored and whatever changed between the reads          *)
(* (groupedReturns, resolveAndLoadCandles).                                *)
THEOREM ReturnsAreDaily == MacroSpec => []ReturnsFollowDays
<1>1. MacroInv => ReturnsFollowDays
  <2>. SUFFICES ASSUME MacroInv, query.phase = "answered", NEW s, OneADay(query.answer.candles, s)
                PROVE  Returns(query.answer.candles, s) = DailyReturns(query.answer.candles, s)
    BY DEF ReturnsFollowDays
  <2>1. query \in Done
    BY DEF MacroInv, NoQuery, ReadsOn, Carried
  <2>2. query.answer.candles \in Seq(MacroCandle)
    BY <2>1 DEF Done
  <2>. QED
    BY <2>2, ReturnsMeet
<1>. QED
  BY MacroInductive, <1>1, PTL

----------------------------------------------------------------------------
(* The desk                                                                *)

DeskInv == IInv /\ AlertInv /\ BookInv /\ MacroInv /\ RuleInv

LEMMA DeskStarts == DeskInit => DeskInv
BY InitHas, AlertStarts, BookStarts, MacroStarts, RuleStarts DEF DeskInit, DeskInv

LEMMA DeskStepKeeps ==
  DeskInv /\ [DeskNext]_<<vars, alertVars, bookVars, macroVars, ruleVars, focus>> => DeskInv'
<1>. SUFFICES ASSUME DeskInv, [DeskNext]_<<vars, alertVars, bookVars, macroVars, ruleVars, focus>>
              PROVE  DeskInv'
  OBVIOUS
<1>1. [Next]_vars /\ [AlertNext]_alertVars /\ [BookNext]_bookVars /\ [MacroNext]_macroVars /\ [RuleNext]_ruleVars
  BY Zenon DEF DeskNext
<1>2. IInv /\ AlertInv /\ BookInv /\ MacroInv /\ RuleInv
  BY DEF DeskInv
<1>3. IInv' /\ AlertInv'
  BY <1>1, <1>2, NextKeeps, AlertStepKeeps
<1>4. BookInv' /\ MacroInv' /\ RuleInv'
  BY <1>1, <1>2, BookStepKeeps, MacroStepKeeps, RuleStepKeeps
<1>. QED
  BY <1>3, <1>4 DEF DeskInv

(* Every variable of the five keeps to its type, for any placements,       *)
(* alerts, positions, datasets and rule sets.                              *)
THEOREM DeskTypeCorrect == DeskSpec => []DeskTypeOK
<1>1. DeskInv => DeskTypeOK
  BY AlertInvTypes, BookTypes, MacroTypes, RuleTypes DEF DeskInv, DeskTypeOK, IInv
<1>. QED
  BY <1>1, DeskStarts, DeskStepKeeps, PTL DEF DeskSpec
=============================================================================
