------------------------------- MODULE Alerts -------------------------------
(***************************************************************************)
(* Alerts (server/alerts/AlertEngine.js, AlertStore.js,                    *)
(* AlertHistoryStore.js).  The store maps an id to an object; an edit      *)
(* replaces the object, a trigger changes it in place.  A cycle works on   *)
(* the objects it found when it started, one symbol at a time, and awaits  *)
(* the market data; cycles of the timer and forced ones overlap when the   *)
(* data is slow.                                                           *)
(***************************************************************************)
EXTENDS AlertRules, Sequences, FiniteSets

CONSTANTS
  AlertSymbols,
  AlertObjects,        \* type, threshold, periods, expiry and cooldown mode of the alerts created
  Cooldown,     \* in ticks of the clock
  MarketData,   \* what the feeds may say of a symbol
  Opening,      \* what they say of every symbol at first
  Fetches,      \* the fields that a fetch of candles and indicators brings
  Cycles,       \* cycles that may be under way at once
  MaxHistory,   \* entries the history keeps
  MaxObjects, MaxTime, MaxMoves  \* bounds

ASSUME CooldownAssumption == Cooldown \in Nat \ {0}
ASSUME RuleAssumption ==
  \A r \in AlertObjects : r.mode \in {"once", "always", "cooldown_minutes"} /\ r.threshold \in Int \cup {NoValue}
ASSUME HistoryAssumption  == MaxHistory \in Nat \ {0}
ASSUME MarketAssumption   == MarketData \subseteq [Fields -> Int \cup {NoValue}] /\ Opening \in MarketData
ASSUME BoundAssumption    == MaxObjects \in Nat /\ MaxTime \in Nat /\ MaxMoves \in Nat

VARIABLES
  objects,     \* every alert object there has been
  table,       \* the store: from ids to positions in objects
  history,     \* triggered alerts, oldest first
  previous,    \* what the last evaluation of a symbol saw
  cycle,       \* each cycle: what it has still to evaluate, and with what
  clock,
  market,      \* what the feeds say of each symbol
  moves,       \* how often the market has moved
  overlapped   \* whether two cycles have ever been under way at once

store == <<objects, table>>
world == <<clock, market, moves>>
alertVars == <<store, history, previous, cycle, world, overlapped>>

Unseen == [f \in Kept |-> NoValue]

(* Nothing is left: the cycle is not under way.  It awaits the price, then *)
(* the rest of the data, and then evaluates the symbol's alerts.           *)
Idle == [left |-> {}, group |-> {}, at |-> "tick", symbol |-> NoValue, price |-> NoValue,
         now |-> NoValue, before |-> Unseen]

AlertTypeOK ==
  /\ Len(objects) <= MaxObjects
  /\ \A i \in DOMAIN objects :
       /\ objects[i].id \in 1 .. MaxObjects /\ objects[i].symbol \in AlertSymbols
       /\ objects[i].rule \in AlertObjects
       /\ objects[i].enabled \in BOOLEAN
       /\ objects[i].last \in (0 .. clock) \cup {NoValue}
  /\ \A a \in DOMAIN table : table[a] \in DOMAIN objects /\ objects[table[a]].id = a
  /\ Len(history) <= MaxHistory
  /\ previous \in [AlertSymbols -> [Kept -> Int \cup {NoValue}]]
  /\ \A y \in Cycles :
       /\ cycle[y].left \subseteq DOMAIN objects
       /\ cycle[y].group \subseteq {i \in DOMAIN objects : objects[i].symbol = cycle[y].symbol}
       /\ cycle[y].at \in {"tick", "data", "alerts"}
  /\ clock \in 0 .. MaxTime /\ market \in [AlertSymbols -> MarketData] /\ moves \in [AlertSymbols -> 0 .. MaxMoves]

AlertInit ==
  /\ objects = <<>> /\ table = [a \in {} |-> 0] /\ history = <<>>
  /\ previous = [s \in AlertSymbols |-> Unseen]
  /\ cycle = [y \in Cycles |-> Idle]
  /\ clock = 0 /\ market = [s \in AlertSymbols |-> Opening] /\ moves = [s \in AlertSymbols |-> 0]
  /\ overlapped = FALSE

----------------------------------------------------------------------------
(* The store.  Ids are generated, so that none is used again; here they    *)
(* are counted.                                                            *)

Used == {objects[i].id : i \in DOMAIN objects}

Put(o) ==
  /\ Len(objects) < MaxObjects
  /\ objects' = Append(objects, o)
  /\ table' = [x \in DOMAIN table \cup {o.id} |-> IF x = o.id THEN Len(objects) + 1 ELSE table[x]]
  /\ UNCHANGED <<history, previous, cycle, world, overlapped>>

Create(s, rule) ==
  Put([id |-> Cardinality(Used) + 1, symbol |-> s, rule |-> rule, enabled |-> TRUE, last |-> NoValue])

(* The body of an update overwrites any field but the id. *)
Edits(o) ==
  {[o EXCEPT !.enabled = e] : e \in BOOLEAN} \cup {[o EXCEPT !.rule = r] : r \in AlertObjects}
  \cup {[o EXCEPT !.symbol = s] : s \in AlertSymbols} \cup {[o EXCEPT !.last = NoValue]}

Update(a) == \E o \in Edits(objects[table[a]]) : Put(o)

Delete(a) ==
  /\ table' = [x \in DOMAIN table \ {a} |-> table[x]]
  /\ UNCHANGED <<objects, history, previous, cycle, world, overlapped>>

----------------------------------------------------------------------------
(* A cycle.  The objects that are enabled and have not expired now are the *)
(* ones it evaluates later.                                                *)

Expired(o) == o.rule.expires # NoValue /\ o.rule.expires < clock

Active == {i \in {table[a] : a \in DOMAIN table} : objects[i].enabled /\ ~Expired(objects[i])}

UnderWay == {y \in Cycles : cycle[y].left # {}}

StartCycle(y) ==
  /\ y \notin UnderWay /\ Active # {}
  /\ cycle' = [cycle EXCEPT ![y].left = Active]
  /\ overlapped' = (overlapped \/ UnderWay # {})
  /\ UNCHANGED <<store, history, previous, world>>

(* The price of the next symbol comes first; it may be missing. *)
FetchTick(y) ==
  /\ cycle[y].at = "tick"
  /\ \E i \in cycle[y].left, known \in BOOLEAN :
       LET s == objects[i].symbol
       IN cycle' = [cycle EXCEPT ![y] = [@ EXCEPT !.at = "data", !.symbol = s,
                                   !.group = {k \in cycle[y].left : objects[k].symbol = s},
                                   !.price = IF known THEN market[s].price ELSE NoValue]]
  /\ UNCHANGED <<store, history, previous, world, overlapped>>

(* The candles fail, or there is one and only its profile, or all is known. *)
FetchData(y) ==
  /\ cycle[y].at = "data"
  /\ \E fetched \in Fetches :
       LET s   == cycle[y].symbol
           now == [f \in Fields |-> IF f = "price" THEN cycle[y].price
                                    ELSE IF f \in fetched THEN market[s][f] ELSE NoValue]
       IN cycle' = [cycle EXCEPT ![y] = [@ EXCEPT !.at = "alerts", !.price = NoValue,
                                                  !.now = now, !.before = previous[s]]]
  /\ UNCHANGED <<store, history, previous, world, overlapped>>

\* The cooldown gate.
Cooled(o) ==
  \/ o.rule.mode = "always" \/ o.last = NoValue
  \/ o.rule.mode = "cooldown_minutes" /\ o.last # NoValue /\ clock - o.last >= Cooldown

Stored(i) == objects[i].id \in DOMAIN table /\ table[objects[i].id] = i

\* Mutant: a "once" alert stays enabled.
MarkedEnabled(id) ==
  [i \in DOMAIN objects |->
     IF objects[i].id = id /\ Stored(i) THEN [objects[i] EXCEPT !.last = clock] ELSE objects[i]]

\* The stored object of the triggered alert is marked, if there is one.
Marked(id) ==
  [i \in DOMAIN objects |->
     IF objects[i].id = id /\ Stored(i)
     THEN [objects[i] EXCEPT !.last = clock, !.enabled = @ /\ objects[i].rule.mode # "once"]
     ELSE objects[i]]

Recent(h) == IF Len(h) > MaxHistory THEN Tail(h) ELSE h

Record(i, marked) ==
  history' = Recent(Append(history, [object |-> i, at |-> clock, marked |-> marked]))

Fires(y, i) ==
  /\ objects[i].enabled /\ ~Expired(objects[i]) /\ Cooled(objects[i])
  /\ Holds(objects[i].rule, cycle[y].now, cycle[y].before)

(* One alert of the group, gated and evaluated by the object the cycle     *)
(* holds: the trigger is recorded, then marked, in one go.  Only after a   *)
(* trigger is there an await, so that the others are passed over silently. *)
Trigger(y, i) ==
  /\ cycle[y].at = "alerts" /\ i \in cycle[y].group
  /\ Fires(y, i)
  /\ Record(i, Stored(i))
  /\ objects' = Marked(objects[i].id)
  /\ cycle' = [cycle EXCEPT ![y].group = @ \ {i}]
  /\ UNCHANGED <<table, previous, world, overlapped>>

\* Mutant: only the first evaluation of a symbol is kept.
SeenFirst(s, now) == [previous EXCEPT ![s] = IF @ = Unseen THEN [f \in Kept |-> now[f]] ELSE @]

Seen(s, now) == [previous EXCEPT ![s] = [f \in Kept |-> now[f]]]

(* What was seen is kept for the next evaluation of the symbol. *)
FinishSymbol(y) ==
  /\ cycle[y].at = "alerts" /\ \A i \in cycle[y].group : ~Fires(y, i)
  /\ previous' = Seen(cycle[y].symbol, cycle[y].now)
  /\ LET rest == {i \in cycle[y].left : objects[i].symbol # cycle[y].symbol}
     IN cycle' = [cycle EXCEPT ![y] = [Idle EXCEPT !.left = rest]]
  /\ UNCHANGED <<store, history, world, overlapped>>

----------------------------------------------------------------------------
(* Time, the market and the process *)

Tick ==
  /\ clock < MaxTime
  /\ clock' = clock + 1
  /\ UNCHANGED <<store, history, previous, cycle, market, moves, overlapped>>

MarketMoves(s, d) ==
  /\ moves[s] < MaxMoves /\ d # market[s]
  /\ market' = [market EXCEPT ![s] = d]
  /\ moves' = [moves EXCEPT ![s] = @ + 1]
  /\ UNCHANGED <<store, history, previous, cycle, clock, overlapped>>

Forget ==
  /\ cycle' = [y \in Cycles |-> Idle]
  /\ previous' = [s \in AlertSymbols |-> Unseen]
  /\ UNCHANGED <<store, world, overlapped>>

(* Both files are written after every change and read again. *)
AlertRestart == Forget /\ UNCHANGED history

(* The process dies after the history was written and before the mark was. *)
CrashAfterRecord(y, i) ==
  /\ cycle[y].at = "alerts" /\ i \in cycle[y].group /\ Fires(y, i)
  /\ Record(i, FALSE)
  /\ Forget

AlertNext ==
  \/ \E s \in AlertSymbols, rule \in AlertObjects : Create(s, rule)
  \/ \E a \in DOMAIN table : Delete(a) \/ Update(a)
  \/ \E y \in Cycles : StartCycle(y) \/ FetchTick(y) \/ FetchData(y) \/ FinishSymbol(y)
  \/ \E y \in Cycles, i \in DOMAIN objects : Trigger(y, i) \/ CrashAfterRecord(y, i)
  \/ Tick
  \/ \E s \in AlertSymbols, d \in MarketData : MarketMoves(s, d)
  \/ AlertRestart

AlertSpec == AlertInit /\ [][AlertNext]_alertVars

----------------------------------------------------------------------------
(* Properties *)

(* After a trigger that was marked on its object (AlertEngine._triggerAlert, *)
(* _canTrigger), the same object triggers again only when its cooldown has   *)
(* passed, and never when it is a "once" alert: however cycles overlap,      *)
(* whatever is edited meanwhile, and also when the object is stale by then.  *)
(* Nothing is said of a trigger that was not marked: of an object replaced   *)
(* while a cycle held it, or when the process died before the mark.          *)
CooldownKept ==
  \A j, k \in DOMAIN history :
    /\ j < k /\ history[j].object = history[k].object /\ history[j].marked
    => LET mode == objects[history[j].object].rule.mode
       IN  /\ mode # "once"
           /\ mode = "cooldown_minutes" => history[k].at - history[j].at >= Cooldown

(* As long as cycles do not overlap, every trigger of a crossing needs a   *)
(* move of the market of its own: none is reported twice, and none because *)
(* a restart or a failed fetch made the engine forget what it saw          *)
(* (AlertEngine._evaluateSymbol, _prevState).  Cycles that overlap do      *)
(* report a crossing again: what they saw is overwritten by the last one.  *)
CrossingsMoved ==
  ~overlapped =>
    \A i \in DOMAIN objects :
      objects[i].rule.type = "price_cross" =>
        Cardinality({k \in DOMAIN history : history[k].object = i}) <= moves[objects[i].symbol]

(* A marked trigger stays known to the object it was marked on, and a      *)
(* "once" alert it was marked on is never active again under that object   *)
(* (AlertStore.recordTrigger), whichever cycle holds it.                   *)
TriggerRemembered ==
  \A k \in DOMAIN history :
    history[k].marked =>
      LET o == objects[history[k].object]
      IN  o.last # NoValue /\ o.last >= history[k].at /\ (o.rule.mode = "once" => ~o.enabled)

(* A trigger is remembered, and what is remembered keeps the next one away *)
(* (AlertEngine._triggerAlert, _canTrigger, AlertStore.recordTrigger).     *)
TriggersKept == CooldownKept /\ TriggerRemembered

(* Once a trigger is marked, overlapping cycles, edits and restarts do not *)
(* repeat it within its cooldown; and as long as no two cycles overlap, a  *)
(* crossing is reported for a move of its own, also across edits, restarts *)
(* and a crash between record and mark (AlertEngine).                      *)
AlertsHonest == TriggersKept /\ CrossingsMoved

=============================================================================
