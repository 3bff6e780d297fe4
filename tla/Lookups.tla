------------------------------ MODULE Lookups ------------------------------
(***************************************************************************)
(* Prices and candles through the provider list (feedManager.js:403-515),  *)
(* and the Yahoo client most of them end at (providers/yahooProvider.js).  *)
(* A lookup reads the list once and asks its providers one after the other,*)
(* each behind an await, while other lookups, streamed ticks, selections   *)
(* and keys go on; Yahoo's client has a cache, retries and a health record *)
(* that all lookups share.  A datum is known by its source and by the time *)
(* it was fetched.  All of it is lost by a restart.                        *)
(***************************************************************************)
EXTENDS Feeds, FiniteSetsExt

CONSTANTS
  Yahoo,          \* the provider without a key
  Stubs,          \* providers that have no getCandles and answer nothing yet
  Lookups,        \* callers of getLatestTick, getLatestCandle, getReplayCandles
  LookupSymbols, NoData,
  Streaming,      \* providers that stream ticks or have their feed stopped
  Retries,        \* YAHOO_RETRIES
  Ttl, Grace,     \* YAHOO_CACHE_TTL_MS and YAHOO_TRANSIENT_GRACE_MS, in steps of the clock
  MaxClock,       \* bound: the clock stops here
  MaxCalls        \* bound: calls, streamed ticks and restarts

ASSUME LookupAssumption ==
  /\ Yahoo \in Providers \ (Keyed \cup Stubs) /\ Demo \in Stubs
  /\ Streaming \subseteq Providers
  /\ {Retries, Ttl, Grace, MaxClock, MaxCalls} \subseteq Nat
  /\ LookupSymbols # {}
  /\ NoData \notin Nat \cup [source : Providers, fetched : Nat]

VARIABLES
  now, calls,
  lookup,    \* per caller: its lookup under way, or the last one
  fetch,     \* per caller: its fetchYahooChart
  ticks,     \* latestTicks
  candles,   \* latestCandles
  chart,     \* _cache of the Yahoo client: a chart or an error, and since when
  health,    \* healthState of the Yahoo client
  failed,    \* the keys of providerFailures
  shown      \* statusBySource: connected, and whether there is a lastMessageAt

caches == <<ticks, candles, shown>>
yahooVars == <<chart, health>>
lookupVars == <<now, calls, lookup, fetch, caches, yahooVars, failed>>

Times == 0 .. MaxClock
Data == [source : Providers, fetched : Times]
NoFetch == [stage |-> "none", tries |-> 0, found |-> NoData]
Unasked ==
  [place |-> "idle", kind |-> "tick", symbol |-> CHOOSE s \in LookupSymbols : TRUE,
   chain |-> <<>>, at |-> 0, began |-> 0, again |-> FALSE, able |-> FALSE,
   silent |-> {}, answer |-> NoData]

LookupsTypeOK ==
  /\ now \in Times /\ calls \in 0 .. MaxCalls
  /\ \A r \in Lookups :
       /\ lookup[r].place \in {"idle", "asking", "pausing", "done"}
       /\ lookup[r].kind \in {"tick", "candle", "replay"}
       /\ lookup[r].place \in {"asking", "pausing"} => lookup[r].at \in DOMAIN lookup[r].chain
       /\ lookup[r].silent \subseteq Providers
       /\ lookup[r].answer \in Data \cup {NoData}
       /\ fetch[r].stage \in {"none", "served", "waiting", "sent", "backoff"}
       /\ fetch[r].tries \in 0 .. Retries
       /\ fetch[r].found \in Times \cup {NoData}
  /\ ticks \in [LookupSymbols -> Data \cup {NoData}]
  /\ candles \in [LookupSymbols -> Data \cup {NoData}]
  /\ \A s \in LookupSymbols :
       chart[s] # NoData => chart[s] \in [ok : BOOLEAN, since : Times]
  /\ health.failures \in 0 .. Retries + 1 /\ health.succeeded \in Times \cup {NoData}
  /\ failed \subseteq Providers
  /\ shown \in [Providers -> [connected : BOOLEAN, told : BOOLEAN]]

----------------------------------------------------------------------------
(* Status records *)

Delayed == {Demo, Yahoo}

(* A message of p (bumpStatus), and a chart or series of p                 *)
(* (promoteProviderActivity), which counts as a connection.                *)
Bumped(p) ==
  [shown EXCEPT ![p] = [connected |-> p \notin Delayed /\ @.connected, told |-> TRUE]]
Promoted(p) == [shown EXCEPT ![p] = [connected |-> p \notin Delayed, told |-> TRUE]]

(* rebuildProviderStatuses: whoever has sent something is connected. *)
Rebuilt ==
  [p \in Providers |->
     [connected |-> p # Demo /\ (shown[p].connected \/ shown[p].told), told |-> shown[p].told]]

----------------------------------------------------------------------------
(* The chain *)

(* Who has the method: getLatestTick and getLatestCandle have all.  The    *)
(* loop passes over the others and records no failure.                     *)
Asks(kind, p) == kind # "replay" \/ p \notin Stubs

(* Whether p can answer; read when it is asked. *)
Able(p) == p \notin Stubs /\ (p \in Keyed => HasKey(p, record, environment))

Cached(l, p) ==
  \/ l.kind = "tick" /\ ticks[l.symbol] # NoData /\ ticks[l.symbol].source = p
  \/ l.kind = "candle" /\ candles[l.symbol] # NoData /\ candles[l.symbol].source = p

(* A chart that is younger than its time to live is served, be it an error; *)
(* no time to live at all turns the cache off.                              *)
Fresh(s) == Ttl > 0 /\ chart[s] # NoData /\ now - chart[s].since <= Ttl

\* Mutant: an entry of the cache never expires.
StartedFromAny(s) ==
  IF chart[s] # NoData
  THEN [stage |-> "served", tries |-> 0,
        found |-> IF chart[s].ok THEN chart[s].since ELSE NoData]
  ELSE [stage |-> "waiting", tries |-> 0, found |-> NoData]

Started(s) ==
  IF Fresh(s)
  THEN [stage |-> "served", tries |-> 0,
        found |-> IF chart[s].ok THEN chart[s].since ELSE NoData]
  ELSE [stage |-> "waiting", tries |-> 0, found |-> NoData]

Ends(r, l, datum) ==
  /\ lookup' = [lookup EXCEPT ![r] = [l EXCEPT !.place = "done", !.answer = datum]]
  /\ fetch' = [fetch EXCEPT ![r] = NoFetch]

(* No provider of the list has answered.  A tick is then whatever the      *)
(* cache holds; candles come from the historical store, which makes them up*)
(* in the demo's name, and getLatestCandle puts the last one into both     *)
(* caches (feedManager.js:459-463).                                        *)
FallsBack(r, l) ==
  LET made == [source |-> Demo, fetched |-> now]
  IN  /\ Ends(r, l, IF l.kind = "tick" THEN ticks[l.symbol] ELSE made)
      /\ IF l.kind = "candle"
         THEN /\ ticks' = [ticks EXCEPT ![l.symbol] = made]
              /\ candles' = [candles EXCEPT ![l.symbol] = made]
              /\ shown' = Promoted(Demo)
         ELSE UNCHANGED caches

(* The loop from position i up to its next await: an answer from the cache,*)
(* a request to the next provider that has the method, or the end.         *)
Continues(r, l, i) ==
  LET stops == {j \in i .. Len(l.chain) : Asks(l.kind, l.chain[j])}
      p     == l.chain[Min(stops)]
  IN  \/ stops = {} /\ FallsBack(r, l)
      \/ /\ stops # {} /\ Cached(l, p)
         /\ Ends(r, l, IF l.kind = "tick" THEN ticks[l.symbol] ELSE candles[l.symbol])
         /\ UNCHANGED caches
      \/ /\ stops # {} /\ ~Cached(l, p)
         /\ lookup' = [lookup EXCEPT ![r] =
              [l EXCEPT !.place = "asking", !.at = Min(stops), !.again = FALSE,
                        !.able = Able(p)]]
         /\ fetch' = [fetch EXCEPT ![r] = IF p = Yahoo THEN Started(l.symbol) ELSE NoFetch]
         /\ UNCHANGED caches

Ask(r, kind, s) ==
  /\ lookup[r].place \in {"idle", "done"}
  /\ Continues(r, [Unasked EXCEPT !.kind = kind, !.symbol = s, !.chain = active,
                                  !.began = now], 1)
  /\ UNCHANGED <<feeds, now, yahooVars, failed>>

(* The provider that r waits for. *)
Asked(r) == lookup[r].chain[lookup[r].at]

(* Its answer: ingestTick, ingestCandle or promoteProviderActivity. *)
Delivers(r, fetched) ==
  LET l == lookup[r]  p == Asked(r)  datum == [source |-> p, fetched |-> fetched]
  IN  /\ Ends(r, l, datum)
      /\ ticks' = IF l.kind = "candle" THEN ticks ELSE [ticks EXCEPT ![l.symbol] = datum]
      /\ candles' = IF l.kind = "tick" THEN candles ELSE [candles EXCEPT ![l.symbol] = datum]
      /\ shown' = IF l.kind = "replay" THEN Promoted(p) ELSE Bumped(p)
      /\ UNCHANGED failed

(* Nothing came: the failure is recorded (a retry's is on record already)  *)
(* and the next provider is asked, unless Yahoo worked a moment ago and    *)
(* gets a second chance.  h is the health this failure leaves.             *)
InGrace(h) ==
  h.succeeded # NoData /\ now - h.succeeded <= Grace /\ h.failures <= 1

\* Mutant: an empty result is not recorded.
SilentUnrecorded(r, h) ==
  LET l == [lookup[r] EXCEPT !.silent = @ \cup {Asked(r)}]
  IN  /\ Continues(r, l, l.at + 1)
      /\ UNCHANGED failed

Silent(r, h) ==
  LET l == [lookup[r] EXCEPT !.silent = @ \cup {Asked(r)}]
  IN  /\ failed' = failed \cup {Asked(r)}
      /\ IF l.kind = "replay" /\ Asked(r) = Yahoo /\ ~l.again /\ InGrace(h)
         THEN /\ lookup' = [lookup EXCEPT ![r] = [l EXCEPT !.place = "pausing"]]
              /\ fetch' = [fetch EXCEPT ![r] = NoFetch]
              /\ UNCHANGED caches
         ELSE Continues(r, l, l.at + 1)

(* A provider other than Yahoo answers, or not; a stub, or without a key,  *)
(* never.                                                                  *)
OtherAnswers(r) ==
  /\ lookup[r].place = "asking" /\ Asked(r) # Yahoo
  /\ (lookup[r].able /\ Delivers(r, now)) \/ Silent(r, health)
  /\ UNCHANGED <<feeds, now, yahooVars>>

(* After the pause of the grace retry. *)
Retry(r) ==
  /\ lookup[r].place = "pausing"
  /\ lookup' = [lookup EXCEPT ![r].place = "asking", ![r].again = TRUE]
  /\ fetch' = [fetch EXCEPT ![r] = Started(lookup[r].symbol)]
  /\ UNCHANGED <<feeds, now, caches, yahooVars, failed>>

----------------------------------------------------------------------------
(* fetchYahooChart *)

ServedFromCache(r) ==
  /\ fetch[r].stage = "served"
  /\ IF fetch[r].found = NoData THEN Silent(r, health) ELSE Delivers(r, fetch[r].found)
  /\ UNCHANGED <<feeds, now, yahooVars>>

(* A request leaves once nextAllowedAt has come; how long that takes is    *)
(* left open.                                                              *)
Send(r) ==
  /\ fetch[r].stage = "waiting"
  /\ fetch' = [fetch EXCEPT ![r].stage = "sent"]
  /\ UNCHANGED <<feeds, now, lookup, caches, yahooVars, failed>>

Good(r) ==
  /\ fetch[r].stage = "sent"
  /\ health' = [failures |-> 0, succeeded |-> now]
  /\ chart' = [chart EXCEPT ![lookup[r].symbol] = [ok |-> TRUE, since |-> now]]
  /\ Delivers(r, now)
  /\ UNCHANGED <<feeds, now>>

(* recordFailure.  More failures than make Yahoo unhealthy are not counted *)
(* (a bound).                                                              *)
Fails(r) ==
  /\ health' = [health EXCEPT !.failures = IF @ > Retries THEN @ ELSE @ + 1]
  /\ Silent(r, health')
  /\ UNCHANGED <<feeds, now>>

(* An unknown ticker, or nothing in the answer: remembered like a chart. *)
Refused(r) ==
  /\ fetch[r].stage = "sent"
  /\ chart' = [chart EXCEPT ![lookup[r].symbol] = [ok |-> FALSE, since |-> now]]
  /\ Fails(r)

(* Another status, HTML, what does not parse, or what is too old. *)
Odd(r) == fetch[r].stage = "sent" /\ Fails(r) /\ UNCHANGED chart

(* 429 or 5xx, and a timeout or a lost connection: again after a pause, up *)
(* to Retries times.  The last timeout is not waited for.                  *)
BacksOff(r) ==
  /\ fetch' = [fetch EXCEPT ![r].stage = "backoff"]
  /\ UNCHANGED <<feeds, now, lookup, caches, yahooVars, failed>>

Busy(r) == fetch[r].stage = "sent" /\ BacksOff(r)

Breaks(r) ==
  /\ fetch[r].stage = "sent"
  /\ IF fetch[r].tries < Retries THEN BacksOff(r) ELSE Fails(r) /\ UNCHANGED chart

\* Mutant: the loop does not count its attempts.
BackUncounted(r) ==
  /\ fetch[r].stage = "backoff"
  /\ fetch' = [fetch EXCEPT ![r].stage = "waiting"]
  /\ UNCHANGED <<feeds, now, lookup, caches, yahooVars, failed>>

\* Mutant: one attempt too many.
BackOnceMore(r) ==
  /\ fetch[r].stage = "backoff"
  /\ IF fetch[r].tries <= Retries
     THEN /\ fetch' = [fetch EXCEPT ![r].stage = "waiting", ![r].tries = @ + 1]
          /\ UNCHANGED <<feeds, now, lookup, caches, yahooVars, failed>>
     ELSE Fails(r) /\ UNCHANGED chart

Back(r) ==
  /\ fetch[r].stage = "backoff"
  /\ IF fetch[r].tries < Retries
     THEN /\ fetch' = [fetch EXCEPT ![r].stage = "waiting", ![r].tries = @ + 1]
          /\ UNCHANGED <<feeds, now, lookup, caches, yahooVars, failed>>
     ELSE Fails(r) /\ UNCHANGED chart

LookupStep(r) ==
  \/ OtherAnswers(r) \/ Retry(r) \/ ServedFromCache(r) \/ Send(r)
  \/ Good(r) \/ Refused(r) \/ Odd(r) \/ Busy(r) \/ Breaks(r) \/ Back(r)

----------------------------------------------------------------------------
(* What goes on around lookups *)

(* A tick of the market stream or of the demo (ingestTick). *)
Streamed(s, p) ==
  /\ ticks' = [ticks EXCEPT ![s] = [source |-> p, fetched |-> now]]
  /\ shown' = Bumped(p)
  /\ UNCHANGED <<feeds, now, lookup, fetch, candles, yahooVars, failed>>

StopFeed(p) ==
  /\ shown' = [shown EXCEPT ![p].connected = FALSE]
  /\ UNCHANGED <<feeds, now, lookup, fetch, ticks, candles, yahooVars, failed>>

GetFeedStatus ==
  /\ shown' = Rebuilt
  /\ UNCHANGED <<feeds, now, lookup, fetch, ticks, candles, yahooVars, failed>>

(* Selections and keys; each of them rebuilds the status records. *)
Selects ==
  /\ FeedsCall
  /\ shown' = Rebuilt
  /\ UNCHANGED <<now, lookup, fetch, ticks, candles, yahooVars, failed>>

Passes ==
  /\ now < MaxClock /\ now' = now + 1
  /\ UNCHANGED <<feeds, lookup, fetch, caches, yahooVars, failed>>

Empty ==
  /\ lookup = [r \in Lookups |-> Unasked] /\ fetch = [r \in Lookups |-> NoFetch]
  /\ ticks = [s \in LookupSymbols |-> NoData] /\ candles = [s \in LookupSymbols |-> NoData]
  /\ chart = [s \in LookupSymbols |-> NoData]
  /\ health = [failures |-> 0, succeeded |-> NoData]
  /\ failed = {}
  /\ shown = [p \in Providers |-> [connected |-> FALSE, told |-> FALSE]]

LookupsInit == FeedsInit /\ now = 0 /\ calls = 0 /\ Empty

RestartLookups ==
  /\ FeedsRestart
  /\ lookup' = [r \in Lookups |-> Unasked] /\ fetch' = [r \in Lookups |-> NoFetch]
  /\ ticks' = [s \in LookupSymbols |-> NoData] /\ candles' = ticks' /\ chart' = ticks'
  /\ health' = [failures |-> 0, succeeded |-> NoData] /\ failed' = {}
  /\ shown' = [p \in Providers |-> [connected |-> FALSE, told |-> FALSE]]
  /\ UNCHANGED now

Called ==
  /\ calls < MaxCalls /\ calls' = calls + 1
  /\ \/ \E r \in Lookups, s \in LookupSymbols, kind \in {"tick", "candle", "replay"} :
          Ask(r, kind, s)
     \/ \E s \in LookupSymbols, p \in Streaming : Streamed(s, p)
     \/ \E p \in Streaming : StopFeed(p)
     \/ Selects
     \/ RestartLookups

LookupsNext ==
  \/ Called
  \/ (\E r \in Lookups : LookupStep(r)) /\ UNCHANGED calls
  \/ (GetFeedStatus \/ Passes) /\ UNCHANGED calls

(* fetchWithTimeout aborts a request that gets no headers, the HTTP client *)
(* one that gets no body, and sleeps are timers.                           *)
LookupsFairness == \A r \in Lookups : WF_<<feeds, lookupVars>>(LookupStep(r) /\ UNCHANGED calls)

LookupsSpec == LookupsInit /\ [][LookupsNext]_<<feeds, lookupVars>> /\ LookupsFairness

----------------------------------------------------------------------------
(* Properties *)

(* What a replay gets from Yahoo was fetched within the time to live of the*)
(* cache before it asked, also when another lookup fetched it              *)
(* (yahooProvider.js:10-19).                                               *)
ReplayIsFresh ==
  \A r \in Lookups :
    /\ lookup[r].place = "done" /\ lookup[r].kind = "replay"
    /\ lookup[r].answer.source = Yahoo
    => lookup[r].answer.fetched + Ttl >= lookup[r].began

(* A series comes from the first provider of the list that gave one: of    *)
(* those before it, or all of them when candles were made up, each that    *)
(* has the method failed while this lookup ran and is on record for it     *)
(* (feedManager.js:470-507).                                               *)
ChainHonoured ==
  \A r \in Lookups :
    lookup[r].place = "done" /\ lookup[r].kind = "replay" =>
      \A j \in DOMAIN lookup[r].chain :
        LET p == lookup[r].chain[j]
        IN  p \in Stubs \/ p \in lookup[r].silent \cap failed
              \/ \E k \in 1 .. j : lookup[r].chain[k] = lookup[r].answer.source

(* A replay is as fresh as the cache promises, and from the right provider.*)
LookupHonest == ReplayIsFresh /\ ChainHonoured

(* Each lookup ends: attempts are counted, pauses end, and the grace retry *)
(* is made once (feedManager.js:485-499, yahooProvider.js:123-204).        *)
LookupsEnd ==
  \A r \in Lookups :
    lookup[r].place \in {"asking", "pausing"} ~> lookup[r].place \in {"idle", "done"}
=============================================================================
