---------------------------- MODULE MarketStream ----------------------------
(***************************************************************************)
(* The market stream engine (server/marketStream/): symbols are subscribed *)
(* at the first provider of a fixed priority that the feed manager has in  *)
(* use, a periodic check moves a symbol on when its provider goes stale,   *)
(* and ticks reach the feed manager's cache through a buffer that keeps    *)
(* the latest one of each symbol until a timer fires.  The bodies of       *)
(* subscribe, unsubscribe and triggerFailover run without I/O, so each is  *)
(* one step; a poll of a provider awaits its answer.  Adapters connect     *)
(* when the process starts and never after.  Ticks are known by their      *)
(* source.                                                                 *)
(***************************************************************************)
EXTENDS Feeds

CONSTANTS
  Symbols, NoProvider,
  Priority,     \* FAILOVER_PRIORITY
  Supports,     \* the symbols whose asset class each provider supports
  Sockets,      \* providers that stream over an authenticated connection
  Pollers       \* providers whose adapters poll

ASSUME PriorityAssumption ==
  /\ Priority \in Seq(Providers) /\ Unrepeated(Priority)
  /\ NoProvider \notin Providers
  /\ Supports \in [Providers -> SUBSET Symbols]
  /\ Sockets \subseteq Keyed /\ Pollers \subseteq Providers \ {Demo}

VARIABLES
  provider,   \* subscriptions: the provider of each symbol
  streams,    \* the symbols in each adapter's subscriptions
  connected,  \* adapters whose state is connected
  heard,      \* lastTickAt of each adapter against its stale threshold
  reason,     \* failoverReasons
  polls,      \* symbols whose poll awaits each provider's answer
  seen,       \* symbols the buffer has seen a tick of
  pending,    \* the source of the tick that waits in the buffer
  timers,     \* symbols with a flush scheduled
  cache       \* the source of the tick in latestTicks

engine == <<provider, streams, connected, heard, reason, polls>>
buffer == <<seen, pending, timers, cache>>
vars == <<feeds, engine, buffer>>

TypeOK ==
  /\ FeedsTypeOK
  /\ provider \in [Symbols -> Providers \cup {NoProvider}]
  /\ streams \in [Providers -> SUBSET Symbols]
  /\ connected \subseteq Providers
  /\ heard \in [Providers -> {"never", "lately", "before"}]
  /\ reason \in [Symbols -> {"none", "moved", "exhausted"}]
  /\ polls \in [Providers -> SUBSET Symbols]
  /\ seen \subseteq Symbols /\ timers \subseteq seen
  /\ pending \in [Symbols -> Providers \cup {NoProvider}]
  /\ cache \in [Symbols -> Providers \cup {NoProvider}]
  /\ \A s \in Symbols : pending[s] # NoProvider => s \in timers

----------------------------------------------------------------------------
(* The tick buffer *)

(* A tick of each symbol in S that the buffer has not just seen. *)
Ingest(S, p) ==
  /\ seen' = seen \cup S
  /\ pending' = [s \in Symbols |-> IF s \in S THEN p ELSE pending[s]]
  /\ timers' = timers \cup S

(* The demo adapter puts its tick into the cache before it emits it. *)
DemoTicks(S) ==
  /\ cache' = [s \in Symbols |-> IF s \in S THEN Demo ELSE cache[s]]
  /\ Ingest(S, Demo)

\* Mutant: a flush leaves its timer registered.
FlushedKept(s) ==
  /\ cache' = [cache EXCEPT ![s] = IF pending[s] = NoProvider THEN @ ELSE pending[s]]
  /\ pending' = [pending EXCEPT ![s] = NoProvider]
  /\ UNCHANGED timers

Flushed(s) ==
  /\ cache' = [cache EXCEPT ![s] = IF pending[s] = NoProvider THEN @ ELSE pending[s]]
  /\ pending' = [pending EXCEPT ![s] = NoProvider]
  /\ timers' = timers \ {s}

Flush(s) ==
  /\ s \in timers /\ pending[s] # NoProvider
  /\ Flushed(s)
  /\ UNCHANGED <<feeds, engine, seen>>

----------------------------------------------------------------------------
(* Routing *)

(* A provider that may carry a symbol: in use, of its asset class, without *)
(* a gateway and with a key if it needs one.                               *)
\* Mutant: the credentials are not looked at.
MayCarryAny(p, s) ==
  /\ p \in Members(active) /\ p \notin Gateway
  /\ p = Demo \/ s \in Supports[p]

MayCarry(p, s) ==
  /\ p \in Members(active) /\ p \notin Gateway
  /\ p = Demo \/ s \in Supports[p]
  /\ p \in Keyed => HasKey(p, record, environment)

Carriers(s) == {i \in DOMAIN Priority : MayCarry(Priority[i], s)}
First(I) == CHOOSE i \in I : \A j \in I : i <= j

Resolve(s) == IF Carriers(s) = {} THEN Demo ELSE Priority[First(Carriers(s))]

(* adapter.subscribe: without a key, or on a socket that is not            *)
(* authenticated, it does nothing and does not say so.                     *)
Takes(p) ==
  /\ p \in Keyed => HasKey(p, record, environment)
  /\ p \in Sockets => p \in connected

(* A poller asks at once; that alphaVantage waits for its first interval   *)
(* is left out.                                                            *)
Subscribe(s) ==
  LET p == Resolve(s) IN
  /\ provider[s] = NoProvider
  /\ provider' = [provider EXCEPT ![s] = p]
  /\ streams' = [streams EXCEPT ![p] = IF Takes(p) THEN @ \cup {s} ELSE @]
  /\ polls' = [polls EXCEPT ![p] = IF p \in Pollers /\ s \notin streams[p] THEN @ \cup {s} ELSE @]
  /\ IF p = Demo /\ s \notin streams[p] THEN DemoTicks({s}) ELSE UNCHANGED buffer
  /\ UNCHANGED <<feeds, connected, heard, reason>>

(* Only the adapter of the current provider lets go of the symbol. *)
Unsubscribe(s) ==
  /\ provider[s] # NoProvider
  /\ streams' = [streams EXCEPT ![provider[s]] = @ \ {s}]
  /\ provider' = [provider EXCEPT ![s] = NoProvider]
  /\ reason' = [reason EXCEPT ![s] = "none"]
  /\ UNCHANGED <<feeds, connected, heard, polls, buffer>>

----------------------------------------------------------------------------
(* Failover *)

(* isStale: a connected adapter that carries something and was never heard *)
(* of, or not for longer than its threshold; the demo never is.            *)
Stale(p) ==
  /\ p # Demo /\ p \in connected
  /\ \/ heard[p] = "before"
     \/ heard[p] = "never" /\ streams[p] # {}

StaleSymbols == {s \in Symbols : provider[s] # NoProvider /\ Stale(provider[s])}

PriorityOf(p) == CHOOSE i \in DOMAIN Priority : Priority[i] = p

\* Mutant: the search starts at the top again.
LaterAny(s) == {i \in Carriers(s) : Priority[i] # provider[s]}

Later(s) == {i \in Carriers(s) : i > PriorityOf(provider[s])}

\* Mutant: a symbol with nowhere to go is passed over.
MovedOrSkipped(s) ==
  IF s \notin StaleSymbols THEN reason[s] ELSE IF Later(s) = {} THEN reason[s] ELSE "moved"

MovedOrExhausted(s) ==
  IF s \notin StaleSymbols THEN reason[s] ELSE IF Later(s) = {} THEN "exhausted" ELSE "moved"

(* triggerFailover: the next provider by priority; the one that is left is *)
(* not told.                                                               *)
AfterFailover(moving, to) ==
  [p \in Providers |-> streams[p] \cup {s \in moving : to[s] = p /\ Takes(p)}]

RunStaleCheck ==
  LET moving == {s \in StaleSymbols : Later(s) # {}}
      to     == [s \in moving |-> Priority[First(Later(s))]]
      joined == {s \in moving : s \notin streams[to[s]]}
      simulated == {s \in joined : to[s] = Demo}
  IN
  /\ StaleSymbols # {}
  /\ provider' = [s \in Symbols |-> IF s \in moving THEN to[s] ELSE provider[s]]
  /\ streams' = AfterFailover(moving, to)
  /\ reason' = [s \in Symbols |-> MovedOrExhausted(s)]
  /\ polls' = [p \in Providers |-> polls[p] \cup {s \in joined : to[s] = p /\ p \in Pollers}]
  /\ IF simulated # {} THEN DemoTicks(simulated) ELSE UNCHANGED buffer
  /\ UNCHANGED <<feeds, connected, heard>>

----------------------------------------------------------------------------
(* Adapters *)

(* The interval of an adapter that carries the symbol, still subscribed or *)
(* not.                                                                    *)
Poll(p, s) ==
  /\ p \in Pollers /\ s \in streams[p] \ polls[p]
  /\ polls' = [polls EXCEPT ![p] = @ \cup {s}]
  /\ UNCHANGED <<feeds, provider, streams, connected, heard, reason, buffer>>

(* The provider answers with a tick, with one the buffer has just seen, or *)
(* with nothing.                                                           *)
Answered(p, s) ==
  /\ s \in polls[p]
  /\ polls' = [polls EXCEPT ![p] = @ \ {s}]
  /\ UNCHANGED <<feeds, provider, streams, connected, reason, cache>>

Tick(p, s) ==
  /\ Answered(p, s)
  /\ heard' = [heard EXCEPT ![p] = "lately"]
  /\ Ingest({s}, p)

RepeatedTick(p, s) ==
  /\ s \in seen
  /\ Answered(p, s)
  /\ heard' = [heard EXCEPT ![p] = "lately"]
  /\ UNCHANGED <<seen, pending, timers>>

NoTick(p, s) ==
  /\ Answered(p, s)
  /\ UNCHANGED <<heard, seen, pending, timers>>

DemoTick(s) ==
  /\ s \in streams[Demo]
  /\ DemoTicks({s})
  /\ UNCHANGED <<feeds, engine>>

Silence(p) ==
  /\ heard[p] = "lately"
  /\ heard' = [heard EXCEPT ![p] = "before"]
  /\ UNCHANGED <<feeds, provider, streams, connected, reason, polls, buffer>>

----------------------------------------------------------------------------
(* The process starts: adapters that have what they need connect.          *)

Eligible(env) ==
  {p \in Providers \ Gateway : p \in Keyed => HasKey(p, record, env)}

Everywhere(x) == [s \in Symbols |-> x]
Nowhere == [p \in Providers |-> {}]
Unheard == [p \in Providers |-> "never"]

Init ==
  /\ FeedsInit
  /\ provider = Everywhere(NoProvider) /\ streams = Nowhere /\ polls = Nowhere
  /\ connected = Eligible(environment) /\ heard = Unheard
  /\ reason = Everywhere("none")
  /\ seen = {} /\ timers = {}
  /\ pending = Everywhere(NoProvider) /\ cache = Everywhere(NoProvider)

Restart(env) ==
  /\ RestartFeeds(env)
  /\ provider' = Everywhere(NoProvider) /\ streams' = Nowhere /\ polls' = Nowhere
  /\ connected' = Eligible(env) /\ heard' = Unheard
  /\ reason' = Everywhere("none")
  /\ seen' = {} /\ timers' = {}
  /\ pending' = Everywhere(NoProvider) /\ cache' = Everywhere(NoProvider)

----------------------------------------------------------------------------
Next ==
  \/ FeedsCall /\ UNCHANGED <<engine, buffer>>
  \/ \E s \in Symbols : Subscribe(s) \/ Unsubscribe(s) \/ Flush(s) \/ DemoTick(s)
  \/ RunStaleCheck
  \/ \E p \in Providers, s \in Symbols : Poll(p, s) \/ Tick(p, s) \/ RepeatedTick(p, s) \/ NoTick(p, s)
  \/ \E p \in Providers : Silence(p)
  \/ \E env \in Environments : Restart(env)

(* The stale check is an interval and a flush is a timeout of the process. *)
Fairness ==
  /\ WF_vars(RunStaleCheck)
  /\ \A s \in Symbols : WF_vars(Flush(s))

Spec == Init /\ [][Next]_vars /\ Fairness

----------------------------------------------------------------------------
(* Properties *)

(* A symbol is carried by the adapter of its provider whenever that        *)
(* adapter is connected: what failovers, deleted keys and new selections   *)
(* do meanwhile never leaves a subscription that nobody serves.            *)
ServedByItsProvider ==
  \A s \in Symbols :
    provider[s] \in connected => s \in streams[provider[s]]

(* While a symbol stays subscribed its provider only moves down the        *)
(* priority, away from one that is stale, and the reason is kept           *)
(* (triggerFailover): a symbol never bounces between two providers.        *)
FailoverForward ==
  [][\A s \in Symbols :
       /\ provider[s] # NoProvider /\ provider'[s] \notin {NoProvider, provider[s]}
       => /\ Stale(provider[s]) /\ reason'[s] = "moved"
          /\ PriorityOf(provider'[s]) > PriorityOf(provider[s])]_vars

(* A symbol does not stay with a stale provider: that one is heard again,  *)
(* the symbol moves on until a provider is not stale or the client gives   *)
(* it up, or it is reported as having nowhere to go.                       *)
StaleActedOn ==
  \A s \in Symbols : s \in StaleSymbols ~> (s \notin StaleSymbols \/ reason[s] = "exhausted")

(* A tick that waits in the buffer is delivered, and the next one will     *)
(* find a timer to be scheduled: no timer outlives its flush.              *)
BufferDelivers ==
  \A s \in Symbols : pending[s] # NoProvider ~> (pending[s] = NoProvider /\ s \notin timers)

(* Neither a silent provider nor a waiting tick holds a symbol for ever    *)
(* (MarketStreamEngine.js:199, TickBuffer.js:22).                          *)
StreamMovesOn == StaleActedOn /\ BufferDelivers

=============================================================================
