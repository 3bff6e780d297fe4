------------------------- MODULE MarketStreamProofs -------------------------
(***************************************************************************)
(* What the market stream engine guarantees for any providers, priority,   *)
(* symbols, selections and environments, and what lookups guarantee for any*)
(* number of callers, retries and times to live.                           *)
(***************************************************************************)
EXTENDS MarketStream, Lookups, ListProofs, TLAPS

----------------------------------------------------------------------------
(* The provider list *)

(* What is usable of a list of providers, and what is left of the list     *)
(* without one, is a list of the same providers, none twice if none was.   *)
LEMMA RestOfList ==
  ASSUME NEW list \in Seq(Providers), NEW S
  PROVE  /\ Filtered(list, S) \in Seq(Providers)
         /\ Members(Filtered(list, S)) = Members(list) \cap S
         /\ Unrepeated(list) => Unrepeated(Filtered(list, S))
<1>1. /\ Filtered(list, S) \in Seq(Providers)
      /\ Members(Filtered(list, S)) = Members(list) \cap S
  BY FilteredMembers DEF Members
<1>2. ASSUME Unrepeated(list)
      PROVE  Unrepeated(Filtered(list, S))
  <2>1. \A i, j \in DOMAIN list : list[i] = list[j] => i = j
    BY <1>2 DEF Unrepeated
  <2>2. \A j, k \in DOMAIN Filtered(list, S) :
          Filtered(list, S)[j] = Filtered(list, S)[k] => j = k
    BY <2>1, FilteredUnrepeated
  <2>. QED
    BY <2>2 DEF Unrepeated
<1>. QED
  BY <1>1, <1>2

LEMMA OneMember ==
  ASSUME NEW p \in Providers
  PROVE  /\ <<p>> \in Seq(Providers) /\ <<p>> # <<>> /\ Unrepeated(<<p>>)
         /\ Members(<<p>>) = {p}
BY DEF Unrepeated, Members

LEMMA MembersOf ==
  ASSUME NEW list \in Seq(Providers)
  PROVE  Members(list) \subseteq Providers /\ (Members(list) = {} <=> list = <<>>)
BY DEF Members

(* resolveActiveState gives a list that is not empty, with providers of the*)
(* list it is given, or the demo alone when none of them is usable.        *)
LEMMA ResolvedList ==
  ASSUME NEW list \in Seq(Providers), NEW rec, NEW env
  PROVE  /\ Resolved(list, rec, env) \in Seq(Providers) /\ Resolved(list, rec, env) # <<>>
         /\ Unrepeated(list) => Unrepeated(Resolved(list, rec, env))
         /\ \/ Members(Resolved(list, rec, env)) \subseteq Members(list)
            \/ /\ Resolved(list, rec, env) = <<Demo>>
               /\ \A p \in Members(list) : ~Usable(p, rec, env)
         /\ EnabledFor(list, rec, env) \subseteq Providers
<1>. DEFINE viable == Viable(list, rec, env)
<1>1. /\ viable \in Seq(Providers)
      /\ Members(viable) = Members(list) \cap {p \in Providers : Usable(p, rec, env)}
      /\ Unrepeated(list) => Unrepeated(viable)
  BY RestOfList DEF Viable
<1>2. Demo \in Providers
  BY ProviderAssumption
<1>. HIDE DEF viable
<1>3. CASE viable = <<>>
  <2>1. Members(viable) = {}
    BY <1>1, <1>3, MembersOf
  <2>2. \A p \in Members(list) : ~Usable(p, rec, env)
    BY <1>1, <2>1, MembersOf
  <2>3. Resolved(list, rec, env) = <<Demo>> /\ EnabledFor(list, rec, env) = {Demo}
    BY <1>3 DEF Resolved, EnabledFor, viable
  <2>. QED
    BY <1>2, <2>2, <2>3, OneMember
<1>4. CASE viable # <<>>
  <2>1. Resolved(list, rec, env) = viable /\ EnabledFor(list, rec, env) = Members(list)
    BY <1>4 DEF Resolved, EnabledFor, viable
  <2>. QED
    BY <1>1, <1>4, <2>1, MembersOf
<1>. QED
  BY <1>3, <1>4

(* The list is what it should be, and the file holds the same.             *)
FeedsInv == FeedsTypeOK /\ file = active

LEMMA FeedsStart == FeedsInit => FeedsInv
<1>. SUFFICES ASSUME FeedsInit PROVE FeedsInv
  OBVIOUS
<1>1. <<Default>> \in Seq(Providers) /\ Unrepeated(<<Default>>)
  BY ProviderAssumption, OneMember
<1>. QED
  BY <1>1, ResolvedList DEF FeedsInit, FeedsInv, FeedsTypeOK

LEMMA SelectKeeps ==
  ASSUME FeedsInv, NEW list \in Selections, SaveActiveProviders(list)
  PROVE  FeedsInv'
<1>1. list \in Seq(Providers)
  BY SelectionAssumption
<1>. QED
  BY <1>1, MembersOf DEF SaveActiveProviders, FeedsInv, FeedsTypeOK

LEMMA StartKeeps ==
  ASSUME FeedsInv, NEW p \in Providers, StartFeed(p)
  PROVE  FeedsInv'
<1>1. <<p>> \in Seq(Providers) /\ Unrepeated(<<p>>)
  BY OneMember
<1>. QED
  BY <1>1, ResolvedList DEF StartFeed, FeedsInv, FeedsTypeOK

LEMMA SetKeeps ==
  ASSUME FeedsInv, NEW p \in Providers, NEW key \in {"none", "on", "off"},
         SetProviderCredentials(p, key)
  PROVE  FeedsInv'
<1>1. record' \in [Providers -> {"none", "on", "off"}] /\ environment' \in Environments
  BY DEF SetProviderCredentials, FeedsInv, FeedsTypeOK
<1>2. CASE UNCHANGED <<active, enabled, file>>
  BY <1>1, <1>2 DEF FeedsInv, FeedsTypeOK
<1>3. CASE /\ p \notin Members(active) /\ active' = Append(active, p)
           /\ enabled' = enabled \cup {p} /\ file' = active'
  <2>1. active' \in Seq(Providers) /\ active' # <<>>
    BY <1>3 DEF FeedsInv, FeedsTypeOK
  <2>2. Unrepeated(active')
    BY <1>3 DEF FeedsInv, FeedsTypeOK, Unrepeated, Members
  <2>. QED
    BY <1>1, <1>3, <2>1, <2>2 DEF FeedsInv, FeedsTypeOK
<1>. QED
  BY <1>2, <1>3 DEF SetProviderCredentials

(* What is left of the list without one of its providers. *)
LEMMA WithoutOne ==
  ASSUME FeedsInv, NEW p \in Providers
  PROVE  /\ Without(p) \in Seq(Providers) /\ Without(p) # <<>> /\ Unrepeated(Without(p))
         /\ \/ Members(Without(p)) \subseteq Members(active)
            \/ Without(p) = <<Demo>> /\ Members(active) \subseteq {p}
<1>. DEFINE left == Filtered(active, Providers \ {p})
<1>1. active \in Seq(Providers) /\ Unrepeated(active)
  BY DEF FeedsInv, FeedsTypeOK
<1>2. /\ left \in Seq(Providers) /\ Unrepeated(left)
      /\ Members(left) = Members(active) \cap (Providers \ {p})
  BY <1>1, RestOfList
<1>3. Without(p) = IF left = <<>> THEN <<Demo>> ELSE left
  BY DEF Without
<1>. HIDE DEF left
<1>4. CASE left = <<>>
  <2>1. Members(active) \subseteq {p}
    BY <1>1, <1>2, <1>4, MembersOf
  <2>. QED
    BY <1>3, <1>4, <2>1, OneMember, ProviderAssumption
<1>5. CASE left # <<>>
  BY <1>2, <1>3, <1>5
<1>. QED
  BY <1>4, <1>5

LEMMA ClearKeeps ==
  ASSUME FeedsInv, NEW p \in Providers, ClearProviderCredentials(p)
  PROVE  FeedsInv'
<1>1. record' \in [Providers -> {"none", "on", "off"}] /\ environment' \in Environments
  BY DEF ClearProviderCredentials, FeedsInv, FeedsTypeOK
<1>2. CASE UNCHANGED <<active, enabled, file>>
  BY <1>1, <1>2 DEF FeedsInv, FeedsTypeOK
<1>3. CASE Dropped(p)
  <2>1. enabled' \subseteq Providers
    BY <1>3, ProviderAssumption DEF Dropped, FeedsInv, FeedsTypeOK
  <2>. QED
    BY <1>1, <1>3, <2>1, WithoutOne DEF Dropped, FeedsInv, FeedsTypeOK
<1>. QED
  BY <1>2, <1>3 DEF ClearProviderCredentials

(* The file is there after the first start, so that a restart asks for the *)
(* list in use.                                                            *)
LEMMA RestartAsks ==
  ASSUME FeedsInv
  PROVE  Requested = active /\ Requested \in Seq(Providers)
BY DEF Requested, FeedsInv, FeedsTypeOK

LEMMA RestartFeedsKeeps ==
  ASSUME FeedsInv, NEW env \in Environments, RestartFeeds(env)
  PROVE  FeedsInv'
BY RestartAsks, ResolvedList DEF RestartFeeds, FeedsInv, FeedsTypeOK

LEMMA FeedsKept == FeedsInv /\ [FeedsNext]_feeds => FeedsInv'
<1>. SUFFICES ASSUME FeedsInv, [FeedsNext]_feeds PROVE FeedsInv'
  OBVIOUS
<1>1. CASE FeedsCall
  BY <1>1, SelectKeeps, StartKeeps, SetKeeps, ClearKeeps, ProviderAssumption DEF FeedsCall
<1>2. CASE FeedsRestart
  BY <1>2, RestartFeedsKeeps DEF FeedsRestart
<1>3. CASE UNCHANGED feeds
  BY <1>3 DEF feeds, FeedsInv, FeedsTypeOK
<1>. QED
  BY <1>1, <1>2, <1>3 DEF FeedsNext

(* What a step of the feeds may not do to the list in use: a restart keeps *)
(* it, and the demo does not slip in.                                      *)
KeepsList ==
  \A env \in Environments : RestartFeeds(env) => active' = Resolved(active, record, env)

KeepsDemoOut ==
  /\ Demo \in Members(active') \ Members(active)
  /\ ~\E list \in Selections : SaveActiveProviders(list)
  /\ ~\E p \in Providers : StartFeed(p)
  /\ ~\E key \in {"none", "on", "off"} : SetProviderCredentials(Demo, key)
  => /\ active' = <<Demo>>
     /\ \A p \in Members(active) : ~Usable(p, record', environment')

LEMMA RestartsKeepList ==
  ASSUME FeedsInv
  PROVE  KeepsList
BY RestartAsks DEF RestartFeeds, KeepsList

LEMMA DemoStaysOut ==
  ASSUME FeedsInv, [FeedsNext]_feeds
  PROVE  KeepsDemoOut
<1>. SUFFICES ASSUME Demo \in Members(active') \ Members(active),
                     ~\E list \in Selections : SaveActiveProviders(list),
                     ~\E p \in Providers : StartFeed(p),
                     ~\E key \in {"none", "on", "off"} : SetProviderCredentials(Demo, key)
              PROVE  /\ active' = <<Demo>>
                     /\ \A p \in Members(active) : ~Usable(p, record', environment')
  BY DEF KeepsDemoOut
<1>1. active # active'
  OBVIOUS
<1>2. ASSUME NEW p \in KeyInputs, NEW key \in {"none", "on", "off"},
             SetProviderCredentials(p, key)
      PROVE  FALSE
  <2>1. p # Demo /\ p \in Providers
    BY <1>2, ProviderAssumption
  <2>2. active' = Append(active, p) /\ active \in Seq(Providers)
    BY <1>1, <1>2 DEF SetProviderCredentials, FeedsInv, FeedsTypeOK
  <2>3. Members(active') = Members(active) \cup {p}
    BY <2>1, <2>2 DEF Members
  <2>. QED
    BY <2>1, <2>3
<1>3. ASSUME NEW p \in KeyInputs, ClearProviderCredentials(p)
      PROVE  /\ active' = <<Demo>>
             /\ \A q \in Members(active) : ~Usable(q, record', environment')
  <2>1. /\ p \in Keyed /\ ~HasKey(p, record', environment) /\ Dropped(p)
        /\ environment' = environment /\ p \in Providers
    BY <1>1, <1>3, ProviderAssumption DEF ClearProviderCredentials
  <2>2. active' = <<Demo>> /\ Members(active) \subseteq {p}
    BY <2>1, WithoutOne DEF Dropped
  <2>3. ~Usable(p, record', environment)
    BY <2>1, ProviderAssumption DEF Usable, HasKey
  <2>. QED
    BY <2>1, <2>2, <2>3
<1>4. ASSUME NEW env \in Environments, RestartFeeds(env)
      PROVE  /\ active' = <<Demo>>
             /\ \A p \in Members(active) : ~Usable(p, record', environment')
  <2>1. active' = Resolved(active, record, env) /\ record' = record /\ environment' = env
    BY <1>4, RestartAsks DEF RestartFeeds
  <2>2. active \in Seq(Providers)
    BY DEF FeedsInv, FeedsTypeOK
  <2>. QED
    BY <2>1, <2>2, ResolvedList
<1>. QED
  BY <1>1, <1>2, <1>3, <1>4 DEF FeedsNext, FeedsCall, FeedsRestart, feeds

LEMMA FeedsKeepSelection ==
  ASSUME FeedsInv, [FeedsNext]_feeds
  PROVE  KeepsList /\ KeepsDemoOut
BY RestartsKeepList, DemoStaysOut

----------------------------------------------------------------------------
(* Routing *)

RouteTypeOK ==
  /\ provider \in [Symbols -> Providers \cup {NoProvider}]
  /\ streams \in [Providers -> SUBSET Symbols]
  /\ connected \subseteq Providers

IInv == RouteTypeOK /\ ServedByItsProvider

(* First picks a member of any set of positions. *)
LEMMA FirstIsIn ==
  ASSUME NEW I \in SUBSET Nat, I # {}
  PROVE  First(I) \in I
<1>1. \E i \in I : \A j \in I : i <= j
  BY LeastOf
<1>. QED
  BY <1>1, Zenon DEF First

(* A place in the priority gives a provider, and tells it apart. *)
LEMMA PriorityPlaces ==
  ASSUME NEW i \in DOMAIN Priority
  PROVE  i \in Nat /\ Priority[i] \in Providers /\ PriorityOf(Priority[i]) = i
BY PriorityAssumption DEF Unrepeated, PriorityOf

(* A carrier whose adapter is connected takes the subscription. *)
LEMMA CarriersTake ==
  ASSUME NEW s \in Symbols, NEW i \in Carriers(s), Priority[i] \in connected
  PROVE  Takes(Priority[i])
BY DEF Carriers, MayCarry, Takes

LEMMA ResolveServes ==
  ASSUME NEW s \in Symbols
  PROVE  Resolve(s) \in Providers /\ (Resolve(s) \in connected => Takes(Resolve(s)))
<1>1. CASE Carriers(s) = {}
  BY <1>1, ProviderAssumption, PriorityAssumption DEF Resolve, Takes
<1>2. CASE Carriers(s) # {}
  <2>1. Carriers(s) \in SUBSET DOMAIN Priority /\ Carriers(s) \in SUBSET Nat
    BY PriorityPlaces DEF Carriers
  <2>2. First(Carriers(s)) \in Carriers(s)
    BY <1>2, <2>1, FirstIsIn
  <2>. QED
    BY <1>2, <2>1, <2>2, PriorityPlaces, CarriersTake DEF Resolve
<1>. QED
  BY <1>1, <1>2

(* Where a failover goes: further down, to a provider that carries the     *)
(* symbol.                                                                 *)
LEMMA LaterServes ==
  ASSUME NEW s \in Symbols, Later(s) # {}
  PROVE  LET p == Priority[First(Later(s))] IN
         /\ p \in Providers /\ (p \in connected => Takes(p))
         /\ PriorityOf(p) > PriorityOf(provider[s])
<1>1. Later(s) \in SUBSET Carriers(s) /\ Later(s) \in SUBSET DOMAIN Priority
  BY DEF Later, Carriers
<1>2. Later(s) \in SUBSET Nat
  BY <1>1, PriorityPlaces
<1>3. First(Later(s)) \in Later(s)
  BY <1>2, FirstIsIn
<1>4. First(Later(s)) > PriorityOf(provider[s])
  BY <1>3 DEF Later
<1>. QED
  BY <1>1, <1>3, <1>4, PriorityPlaces, CarriersTake

----------------------------------------------------------------------------
(* The steps that route *)

LEMMA SubscribeKeeps ==
  ASSUME IInv, NEW s \in Symbols, Subscribe(s)
  PROVE  IInv'
<1>1. Resolve(s) \in Providers /\ (Resolve(s) \in connected => Takes(Resolve(s)))
  BY ResolveServes
<1>2. /\ provider' = [provider EXCEPT ![s] = Resolve(s)]
      /\ streams' = [streams EXCEPT ![Resolve(s)] =
                       IF Takes(Resolve(s)) THEN @ \cup {s} ELSE @]
      /\ connected' = connected
  BY DEF Subscribe
<1>3. RouteTypeOK'
  BY <1>1, <1>2 DEF IInv, RouteTypeOK
<1>4. \A p \in Providers : streams[p] \subseteq streams'[p]
  BY <1>1, <1>2 DEF IInv, RouteTypeOK
<1>5. ASSUME NEW x \in Symbols, provider'[x] \in connected'
      PROVE  x \in streams'[provider'[x]]
  <2>1. CASE x = s
    BY <1>1, <1>2, <1>5, <2>1 DEF IInv, RouteTypeOK
  <2>2. CASE x # s
    <3>1. provider'[x] = provider[x] /\ provider[x] \in connected
      BY <1>2, <1>5, <2>2 DEF IInv, RouteTypeOK
    <3>2. x \in streams[provider[x]]
      BY <3>1 DEF IInv, ServedByItsProvider
    <3>3. CASE provider[x] \in Providers
      BY <1>4, <3>1, <3>2, <3>3
    <3>4. CASE provider[x] = NoProvider
      BY <1>2, <3>1, <3>2, <3>4, PriorityAssumption, <1>1 DEF IInv, RouteTypeOK
    <3>. QED
      BY <3>3, <3>4 DEF IInv, RouteTypeOK
  <2>. QED
    BY <2>1, <2>2
<1>. QED
  BY <1>3, <1>5 DEF IInv, ServedByItsProvider

LEMMA UnsubscribeKeeps ==
  ASSUME IInv, NEW s \in Symbols, Unsubscribe(s)
  PROVE  IInv'
<1>1. /\ provider' = [provider EXCEPT ![s] = NoProvider]
      /\ streams' = [streams EXCEPT ![provider[s]] = @ \ {s}]
      /\ connected' = connected
  BY DEF Unsubscribe
<1>2. RouteTypeOK'
  BY <1>1 DEF IInv, RouteTypeOK
<1>3. ASSUME NEW x \in Symbols, provider'[x] \in connected'
      PROVE  x \in streams'[provider'[x]]
  <2>1. x # s /\ provider'[x] = provider[x] /\ provider[x] \in connected
    BY <1>1, <1>3, PriorityAssumption DEF Unsubscribe, IInv, RouteTypeOK
  <2>2. x \in streams[provider[x]] /\ provider[x] \in Providers
    BY <2>1 DEF IInv, RouteTypeOK, ServedByItsProvider
  <2>. QED
    BY <1>1, <2>1, <2>2 DEF IInv, RouteTypeOK
<1>. QED
  BY <1>2, <1>3 DEF IInv, ServedByItsProvider

LEMMA StaleCheckKeeps ==
  ASSUME IInv, RunStaleCheck
  PROVE  IInv'
<1>. DEFINE moving == {s \in StaleSymbols : Later(s) # {}}
            to     == [s \in moving |-> Priority[First(Later(s))]]
<1>1. /\ provider' = [s \in Symbols |-> IF s \in moving THEN to[s] ELSE provider[s]]
      /\ streams' = AfterFailover(moving, to)
      /\ connected' = connected
  BY DEF RunStaleCheck
<1>2. moving \subseteq Symbols
  BY DEF StaleSymbols
<1>3. \A s \in moving : to[s] \in Providers /\ (to[s] \in connected => Takes(to[s]))
  BY <1>2, LaterServes
<1>. HIDE DEF moving, to
<1>4. RouteTypeOK'
  BY <1>1, <1>2, <1>3 DEF IInv, RouteTypeOK, AfterFailover
<1>5. ASSUME NEW x \in Symbols, provider'[x] \in connected'
      PROVE  x \in streams'[provider'[x]]
  <2>1. CASE x \in moving
    <3>1. provider'[x] = to[x] /\ to[x] \in Providers /\ Takes(to[x])
      BY <1>1, <1>3, <1>5, <2>1
    <3>. QED
      BY <1>1, <2>1, <3>1 DEF AfterFailover
  <2>2. CASE x \notin moving
    <3>1. provider'[x] = provider[x] /\ provider[x] \in connected /\ provider[x] \in Providers
      BY <1>1, <1>5, <2>2 DEF IInv, RouteTypeOK
    <3>2. x \in streams[provider[x]]
      BY <3>1 DEF IInv, ServedByItsProvider
    <3>. QED
      BY <1>1, <3>1, <3>2 DEF AfterFailover
  <2>. QED
    BY <2>1, <2>2
<1>. QED
  BY <1>4, <1>5 DEF IInv, ServedByItsProvider

----------------------------------------------------------------------------
(* Every step *)

LEMMA InitHolds == Init => IInv
<1>. SUFFICES ASSUME Init
              PROVE  IInv
  OBVIOUS
<1>1. RouteTypeOK
  BY DEF Init, RouteTypeOK, Everywhere, Nowhere, Eligible
<1>2. NoProvider \notin connected
  BY PriorityAssumption, <1>1 DEF RouteTypeOK
<1>3. ServedByItsProvider
  BY <1>2 DEF Init, ServedByItsProvider, Everywhere
<1>. QED
  BY <1>1, <1>3 DEF IInv

LEMMA RestartKeeps ==
  ASSUME NEW env \in Environments, Restart(env)
  PROVE  IInv'
<1>1. RouteTypeOK'
  BY DEF Restart, RouteTypeOK, Everywhere, Nowhere, Eligible
<1>2. NoProvider \notin connected'
  BY PriorityAssumption, <1>1 DEF RouteTypeOK
<1>3. ServedByItsProvider'
  BY <1>2 DEF Restart, ServedByItsProvider, Everywhere
<1>. QED
  BY <1>1, <1>3 DEF IInv

(* All other steps leave routes, subscriptions and connections alone. *)
Routes == <<provider, streams, connected>>

AdapterStep ==
  \/ \E s \in Symbols : Flush(s) \/ DemoTick(s)
  \/ \E p \in Providers, s \in Symbols : Poll(p, s) \/ Tick(p, s) \/ RepeatedTick(p, s) \/ NoTick(p, s)
  \/ \E p \in Providers : Silence(p)

OtherStep == (FeedsCall /\ UNCHANGED <<engine, buffer>>) \/ AdapterStep \/ UNCHANGED vars

LEMMA AdaptersLeaveRoutes ==
  ASSUME AdapterStep
  PROVE  UNCHANGED Routes
<1>1. ASSUME NEW s \in Symbols, Flush(s) \/ DemoTick(s)
      PROVE  UNCHANGED Routes
  BY <1>1 DEF Routes, engine, Flush, DemoTick
<1>2. ASSUME NEW p \in Providers, NEW s \in Symbols,
             Poll(p, s) \/ Tick(p, s) \/ RepeatedTick(p, s) \/ NoTick(p, s)
      PROVE  UNCHANGED Routes
  BY <1>2 DEF Routes, Poll, Tick, RepeatedTick, NoTick, Answered
<1>3. ASSUME NEW p \in Providers, Silence(p)
      PROVE  UNCHANGED Routes
  BY <1>3, Zenon DEF Routes, Silence
<1>. QED
  BY <1>1, <1>2, <1>3 DEF AdapterStep

LEMMA OthersLeaveRoutes ==
  ASSUME OtherStep
  PROVE  UNCHANGED Routes
BY AdaptersLeaveRoutes DEF OtherStep, Routes, vars, engine

LEMMA StepsAreRouting ==
  ASSUME [Next]_vars
  PROVE  \/ \E s \in Symbols : Subscribe(s) \/ Unsubscribe(s)
         \/ RunStaleCheck
         \/ \E env \in Environments : Restart(env)
         \/ OtherStep
BY DEF Next, OtherStep, AdapterStep

LEMMA StepKeeps ==
  ASSUME IInv, [Next]_vars
  PROVE  IInv'
<1>1. ASSUME NEW s \in Symbols, Subscribe(s)
      PROVE  IInv'
  BY <1>1, SubscribeKeeps
<1>2. ASSUME NEW s \in Symbols, Unsubscribe(s)
      PROVE  IInv'
  BY <1>2, UnsubscribeKeeps
<1>3. CASE RunStaleCheck
  BY <1>3, StaleCheckKeeps
<1>4. ASSUME NEW env \in Environments, Restart(env)
      PROVE  IInv'
  BY <1>4, RestartKeeps
<1>5. CASE OtherStep
  <2>1. UNCHANGED <<provider, streams, connected>>
    BY <1>5, OthersLeaveRoutes DEF Routes
  <2>. QED
    BY <2>1 DEF IInv, RouteTypeOK, ServedByItsProvider
<1>. QED
  BY <1>1, <1>2, <1>3, <1>4, <1>5, StepsAreRouting

(* The types of routes, and that each connected provider serves what is    *)
(* routed to it, hold on every path.                                       *)
THEOREM Inductive == Spec => []IInv
<1>. QED
  BY InitHolds, StepKeeps, PTL DEF Spec

(* A symbol is carried by the adapter of its provider whenever that        *)
(* adapter is connected (MarketStreamEngine.js: subscribe, unsubscribe,    *)
(* triggerFailover).                                                       *)
THEOREM Serving == Spec => []ServedByItsProvider
<1>1. IInv => ServedByItsProvider
  BY DEF IInv
<1>. QED
  BY <1>1, Inductive, PTL

----------------------------------------------------------------------------
(* Failover *)

(* A provider changes only by a failover, and only downward.               *)
Forward ==
  \A s \in Symbols :
    /\ provider[s] # NoProvider /\ provider'[s] \notin {NoProvider, provider[s]}
    => /\ Stale(provider[s]) /\ reason'[s] = "moved"
       /\ PriorityOf(provider'[s]) > PriorityOf(provider[s])

LEMMA StaleCheckForward ==
  ASSUME RunStaleCheck
  PROVE  Forward
<1>. DEFINE moving == {s \in StaleSymbols : Later(s) # {}}
            to     == [s \in moving |-> Priority[First(Later(s))]]
<1>. SUFFICES ASSUME NEW s \in Symbols, provider[s] # NoProvider,
                     provider'[s] \notin {NoProvider, provider[s]}
              PROVE  /\ Stale(provider[s]) /\ reason'[s] = "moved"
                     /\ PriorityOf(provider'[s]) > PriorityOf(provider[s])
  BY DEF Forward
<1>1. provider'[s] = IF s \in moving THEN to[s] ELSE provider[s]
  BY DEF RunStaleCheck
<1>2. s \in moving /\ provider'[s] = Priority[First(Later(s))]
  BY <1>1
<1>3. Stale(provider[s]) /\ reason'[s] = "moved"
  BY <1>2 DEF RunStaleCheck, StaleSymbols, MovedOrExhausted
<1>4. PriorityOf(provider'[s]) > PriorityOf(provider[s])
  BY <1>2, LaterServes
<1>. QED
  BY <1>3, <1>4

LEMMA StepForward ==
  ASSUME IInv, [Next]_vars
  PROVE  Forward
<1>1. ASSUME NEW s \in Symbols, Subscribe(s) \/ Unsubscribe(s)
      PROVE  Forward
  BY <1>1 DEF Subscribe, Unsubscribe, Forward, IInv, RouteTypeOK
<1>2. CASE RunStaleCheck
  BY <1>2, StaleCheckForward
<1>3. ASSUME NEW env \in Environments, Restart(env)
      PROVE  Forward
  BY <1>3 DEF Restart, Everywhere, Forward
<1>4. CASE OtherStep
  BY <1>4, OthersLeaveRoutes DEF Routes, Forward
<1>. QED
  BY <1>1, <1>2, <1>3, <1>4, StepsAreRouting

(* While a symbol stays subscribed its provider only moves down            *)
(* FAILOVER_PRIORITY, and only away from one that is stale.                *)
THEOREM NeverBounces == Spec => FailoverForward
<1>1. IInv /\ [Next]_vars => [Forward]_vars
  BY StepForward
<1>2. [Forward]_vars <=>
        [\A s \in Symbols :
           /\ provider[s] # NoProvider /\ provider'[s] \notin {NoProvider, provider[s]}
           => /\ Stale(provider[s]) /\ reason'[s] = "moved"
              /\ PriorityOf(provider'[s]) > PriorityOf(provider[s])]_vars
  BY DEF Forward
<1>. QED
  BY <1>1, <1>2, Inductive, PTL DEF Spec, FailoverForward

----------------------------------------------------------------------------
(* The list in use, under the market stream *)

LEMMA StreamLeavesFeeds == [Next]_vars => [FeedsNext]_feeds
<1>. SUFFICES ASSUME [Next]_vars PROVE [FeedsNext]_feeds
  OBVIOUS
<1>1. ASSUME NEW s \in Symbols, Subscribe(s) \/ Unsubscribe(s) \/ Flush(s) \/ DemoTick(s)
      PROVE  UNCHANGED feeds
  BY <1>1 DEF Subscribe, Unsubscribe, Flush, DemoTick
<1>2. ASSUME NEW p \in Providers, NEW s \in Symbols,
             Poll(p, s) \/ Tick(p, s) \/ RepeatedTick(p, s) \/ NoTick(p, s)
      PROVE  UNCHANGED feeds
  BY <1>2 DEF Poll, Tick, RepeatedTick, NoTick, Answered
<1>3. ASSUME NEW p \in Providers, Silence(p)
      PROVE  UNCHANGED feeds
  BY <1>3 DEF Silence
<1>4. RunStaleCheck => UNCHANGED feeds
  BY DEF RunStaleCheck
<1>5. ASSUME NEW env \in Environments, Restart(env)
      PROVE  FeedsNext
  BY <1>5 DEF Restart, FeedsNext, FeedsRestart
<1>. QED
  BY <1>1, <1>2, <1>3, <1>4, <1>5 DEF Next, FeedsNext, vars

(* The list in use is never empty, repeats nothing, and is what the file   *)
(* holds (feedManager.js:148-157).                                           *)
THEOREM FeedsInductive == Spec => []FeedsInv
<1>1. Init => FeedsInv
  BY FeedsStart DEF Init
<1>2. FeedsInv /\ [Next]_vars => FeedsInv'
  BY FeedsKept, StreamLeavesFeeds
<1>. QED
  BY <1>1, <1>2, PTL DEF Spec

(* The list in use changes by selections, keys and the environment alone:  *)
(* whatever the calls before, a restart keeps what is usable of it in its  *)
(* order, and the demo enters it unasked only when nothing of it is usable *)
(* (feedManager.js:99).                                                    *)
THEOREM SelectionIsKept == Spec => SelectionKept
<1>1. FeedsInv /\ [Next]_vars => [KeepsList]_feeds /\ [KeepsDemoOut]_feeds
  BY FeedsKeepSelection, StreamLeavesFeeds
<1>2. [KeepsList]_feeds
        <=> [\A env \in Environments :
               RestartFeeds(env) => active' = Resolved(active, record, env)]_feeds
  BY DEF KeepsList
<1>3. [KeepsDemoOut]_feeds
        <=> [ /\ Demo \in Members(active') \ Members(active)
              /\ ~\E list \in Selections : SaveActiveProviders(list)
              /\ ~\E p \in Providers : StartFeed(p)
              /\ ~\E key \in {"none", "on", "off"} : SetProviderCredentials(Demo, key)
              => /\ active' = <<Demo>>
                 /\ \A p \in Members(active) : ~Usable(p, record', environment') ]_feeds
  BY DEF KeepsDemoOut
<1>. QED
  BY <1>1, <1>2, <1>3, FeedsInductive, PTL
  DEF Spec, SelectionKept, RestartKeepsSelection, DemoNeverSlipsIn

----------------------------------------------------------------------------
(* What the engine and its buffer hold *)

HoldsTypeOK ==
  /\ heard \in [Providers -> {"never", "lately", "before"}]
  /\ reason \in [Symbols -> {"none", "moved", "exhausted"}]
  /\ polls \in [Providers -> SUBSET Symbols]

BufferTypeOK ==
  /\ seen \subseteq Symbols /\ timers \subseteq seen
  /\ pending \in [Symbols -> Providers \cup {NoProvider}]
  /\ cache \in [Symbols -> Providers \cup {NoProvider}]
  /\ \A s \in Symbols : pending[s] # NoProvider => s \in timers

HoldsInv == HoldsTypeOK /\ BufferTypeOK

LEMMA IngestTypes ==
  ASSUME BufferTypeOK, NEW S \in SUBSET Symbols, NEW p \in Providers, Ingest(S, p),
         cache' \in [Symbols -> Providers \cup {NoProvider}]
  PROVE  BufferTypeOK'
BY DEF Ingest, BufferTypeOK

LEMMA DemoTypes ==
  ASSUME BufferTypeOK, NEW S \in SUBSET Symbols, DemoTicks(S)
  PROVE  BufferTypeOK'
<1>1. Demo \in Providers
  BY ProviderAssumption
<1>2. cache' \in [Symbols -> Providers \cup {NoProvider}]
  BY <1>1 DEF DemoTicks, BufferTypeOK
<1>. QED
  BY <1>1, <1>2, IngestTypes DEF DemoTicks

LEMMA FlushTypes ==
  ASSUME BufferTypeOK, NEW s \in Symbols, Flush(s)
  PROVE  BufferTypeOK'
BY DEF Flush, Flushed, BufferTypeOK

LEMMA NothingHeard ==
  /\ Everywhere("none") \in [Symbols -> {"none", "moved", "exhausted"}]
  /\ Everywhere(NoProvider) \in [Symbols -> Providers \cup {NoProvider}]
  /\ \A s \in Symbols : Everywhere(NoProvider)[s] = NoProvider
  /\ Nowhere \in [Providers -> SUBSET Symbols]
  /\ Unheard \in [Providers -> {"never", "lately", "before"}]
BY DEF Everywhere, Nowhere, Unheard

LEMMA SubscribeTypes ==
  ASSUME HoldsInv, NEW s \in Symbols, Subscribe(s)
  PROVE  HoldsInv'
<1>1. HoldsTypeOK'
  BY DEF Subscribe, HoldsInv, HoldsTypeOK
<1>2. CASE DemoTicks({s})
  BY <1>1, <1>2, DemoTypes DEF HoldsInv
<1>3. CASE UNCHANGED buffer
  BY <1>1, <1>3 DEF buffer, HoldsInv, BufferTypeOK
<1>. QED
  BY <1>2, <1>3 DEF Subscribe

LEMMA StaleCheckTypes ==
  ASSUME HoldsInv, RunStaleCheck
  PROVE  HoldsInv'
<1>. DEFINE moving == {s \in StaleSymbols : Later(s) # {}}
            to     == [s \in moving |-> Priority[First(Later(s))]]
            joined == {s \in moving : s \notin streams[to[s]]}
            simulated == {s \in joined : to[s] = Demo}
<1>1. moving \subseteq Symbols
  BY DEF StaleSymbols
<1>2. /\ reason' = [s \in Symbols |-> MovedOrExhausted(s)]
      /\ polls' = [p \in Providers |-> polls[p] \cup {s \in joined : to[s] = p /\ p \in Pollers}]
      /\ DemoTicks(simulated) \/ UNCHANGED buffer
      /\ UNCHANGED heard
  BY DEF RunStaleCheck
<1>. HIDE DEF moving
<1>3. joined \subseteq Symbols /\ simulated \subseteq Symbols
  BY <1>1
<1>. HIDE DEF to, joined, simulated
<1>4. HoldsTypeOK'
  BY <1>2, <1>3 DEF HoldsInv, HoldsTypeOK, MovedOrExhausted
<1>5. BufferTypeOK'
  BY <1>2, <1>3, DemoTypes DEF HoldsInv, buffer, BufferTypeOK
<1>. QED
  BY <1>4, <1>5 DEF HoldsInv

LEMMA AnsweredTypes ==
  ASSUME HoldsInv, NEW p \in Providers, NEW s \in Symbols, Answered(p, s),
         heard' = heard \/ heard' = [heard EXCEPT ![p] = "lately"],
         Ingest({s}, p) \/ UNCHANGED <<seen, pending, timers>>
  PROVE  HoldsInv'
<1>1. HoldsTypeOK' /\ UNCHANGED cache
  BY DEF Answered, HoldsInv, HoldsTypeOK
<1>2. BufferTypeOK'
  BY <1>1, IngestTypes DEF HoldsInv, BufferTypeOK
<1>. QED
  BY <1>1, <1>2 DEF HoldsInv

LEMMA HoldsStart == Init => HoldsInv
BY NothingHeard DEF Init, HoldsInv, HoldsTypeOK, BufferTypeOK

LEMMA HoldsKept == HoldsInv /\ [Next]_vars => HoldsInv'
<1>. SUFFICES ASSUME HoldsInv, [Next]_vars PROVE HoldsInv'
  OBVIOUS
<1>1. CASE UNCHANGED <<heard, reason, polls, buffer>>
  BY <1>1 DEF HoldsInv, HoldsTypeOK, BufferTypeOK, buffer
<1>2. ASSUME NEW s \in Symbols, Subscribe(s) \/ Unsubscribe(s) \/ Flush(s) \/ DemoTick(s)
      PROVE  HoldsInv'
  <2>1. CASE Subscribe(s)
    BY <2>1, SubscribeTypes
  <2>2. CASE Unsubscribe(s)
    BY <2>2 DEF Unsubscribe, HoldsInv, HoldsTypeOK, BufferTypeOK, buffer
  <2>3. CASE Flush(s)
    BY <2>3, FlushTypes DEF Flush, engine, HoldsInv, HoldsTypeOK
  <2>4. CASE DemoTick(s)
    BY <2>4, DemoTypes DEF DemoTick, engine, HoldsInv, HoldsTypeOK
  <2>. QED
    BY <1>2, <2>1, <2>2, <2>3, <2>4
<1>3. ASSUME NEW p \in Providers, NEW s \in Symbols,
             Poll(p, s) \/ Tick(p, s) \/ RepeatedTick(p, s) \/ NoTick(p, s)
      PROVE  HoldsInv'
  <2>1. CASE Poll(p, s)
    BY <2>1 DEF Poll, HoldsInv, HoldsTypeOK, BufferTypeOK, buffer
  <2>2. CASE Tick(p, s) \/ RepeatedTick(p, s) \/ NoTick(p, s)
    BY <2>2, AnsweredTypes DEF Tick, RepeatedTick, NoTick
  <2>. QED
    BY <1>3, <2>1, <2>2
<1>4. ASSUME NEW p \in Providers, Silence(p)
      PROVE  HoldsInv'
  BY <1>4 DEF Silence, HoldsInv, HoldsTypeOK, BufferTypeOK, buffer
<1>5. ASSUME NEW env \in Environments, Restart(env)
      PROVE  HoldsInv'
  BY <1>5, NothingHeard DEF Restart, HoldsInv, HoldsTypeOK, BufferTypeOK
<1>. QED
  BY <1>1, <1>2, <1>3, <1>4, <1>5, StaleCheckTypes DEF Next, vars, engine

(* Every provider list, routing table, poll and tick is what it should be; *)
(* the list in use is never empty and repeats nothing, and a tick waits    *)
(* only where a flush is scheduled, so that none is stranded in the buffer *)
(* (TickBuffer.js:22-44).                                                  *)
THEOREM StreamTypeCorrect == Spec => []TypeOK
<1>1. FeedsInv /\ IInv /\ HoldsInv => TypeOK
  BY DEF FeedsInv, IInv, RouteTypeOK, HoldsInv, HoldsTypeOK, BufferTypeOK, TypeOK
<1>. QED
  BY <1>1, FeedsInductive, Inductive, HoldsStart, HoldsKept, PTL DEF Spec

----------------------------------------------------------------------------
(* Lookups *)

Fields ==
  {"place", "kind", "symbol", "chain", "at", "began", "again", "able", "silent", "answer"}

(* A lookup and its fetch: what a chart from the cache, and what a finished*)
(* replay from Yahoo, owe to the moment the caller asked.                  *)
FreshRow(l, f) ==
  /\ DOMAIN l = Fields
  /\ l.symbol \in LookupSymbols /\ l.began \in Nat /\ l.began <= now
  /\ f \in [stage : {"none", "served", "waiting", "sent", "backoff"},
            tries : Nat, found : Nat \cup {NoData}]
  /\ f.found # NoData => f.found + Ttl >= l.began
  /\ l.place = "done" /\ l.kind = "replay" /\ l.answer.source = Yahoo
     => l.answer.fetched + Ttl >= l.began

FreshInv ==
  /\ now \in Nat
  /\ chart \in [LookupSymbols -> [ok : BOOLEAN, since : Nat] \cup {NoData}]
  /\ DOMAIN lookup = Lookups /\ DOMAIN fetch = Lookups
  /\ \A r \in Lookups : FreshRow(lookup[r], fetch[r])

Basics == Ttl \in Nat /\ Demo # Yahoo

LEMMA LookupBasics == Basics
BY LookupAssumption DEF Basics

(* A fetch starts with a chart that is fresh now, or with none. *)
LEMMA StartedFresh ==
  ASSUME FreshInv, NEW s \in LookupSymbols
  PROVE  /\ Started(s) \in [stage : {"none", "served", "waiting", "sent", "backoff"},
                            tries : Nat, found : Nat \cup {NoData}]
         /\ Started(s).found # NoData => Started(s).found + Ttl >= now
<1>1. CASE Fresh(s) /\ chart[s].ok
  <2>1. chart[s] \in [ok : BOOLEAN, since : Nat] /\ now - chart[s].since <= Ttl
    BY <1>1 DEF FreshInv, Fresh
  <2>. QED
    BY <1>1, <2>1, LookupBasics DEF Started, FreshInv, Basics
<1>2. CASE ~(Fresh(s) /\ chart[s].ok)
  BY <1>2 DEF Started
<1>. QED
  BY <1>1, <1>2

(* Whatever a lookup goes on to from a row that is in progress is fresh. *)
LEMMA ContinuesFresh ==
  ASSUME FreshInv, NEW r \in Lookups, NEW l, NEW i, Continues(r, l, i),
         DOMAIN l = Fields, l.symbol \in LookupSymbols,
         l.began \in Nat, l.began <= now
  PROVE  /\ DOMAIN lookup' = Lookups /\ DOMAIN fetch' = Lookups
         /\ FreshRow(lookup'[r], fetch'[r])
         /\ \A q \in Lookups \ {r} : lookup'[q] = lookup[q] /\ fetch'[q] = fetch[q]
<1>. DEFINE stops == {j \in i .. Len(l.chain) : Asks(l.kind, l.chain[j])}
            p     == l.chain[Min(stops)]
<1>1. ASSUME NEW datum, Ends(r, l, datum),
             l.kind = "replay" => datum.source # Yahoo
      PROVE  /\ DOMAIN lookup' = Lookups /\ DOMAIN fetch' = Lookups
             /\ FreshRow(lookup'[r], fetch'[r])
             /\ \A q \in Lookups \ {r} : lookup'[q] = lookup[q] /\ fetch'[q] = fetch[q]
  BY <1>1 DEF Ends, FreshInv, FreshRow, NoFetch, Fields
<1>2. CASE FallsBack(r, l)
  BY <1>1, <1>2, LookupBasics DEF FallsBack, Basics
<1>3. CASE /\ Cached(l, p)
           /\ Ends(r, l, IF l.kind = "tick" THEN ticks[l.symbol] ELSE candles[l.symbol])
  BY <1>1, <1>3 DEF Cached
<1>4. CASE /\ lookup' = [lookup EXCEPT ![r] =
                [l EXCEPT !.place = "asking", !.at = Min(stops), !.again = FALSE,
                          !.able = Able(p)]]
           /\ fetch' = [fetch EXCEPT ![r] = IF p = Yahoo THEN Started(l.symbol) ELSE NoFetch]
  <2>1. lookup'[r].place = "asking" /\ lookup'[r].symbol = l.symbol
        /\ lookup'[r].began = l.began /\ DOMAIN lookup'[r] = Fields
        /\ DOMAIN lookup' = Lookups
        /\ \A q \in Lookups \ {r} : lookup'[q] = lookup[q]
    BY <1>4 DEF FreshInv, Fields
  <2>2. fetch'[r] = (IF p = Yahoo THEN Started(l.symbol) ELSE NoFetch)
        /\ DOMAIN fetch' = Lookups
        /\ \A q \in Lookups \ {r} : fetch'[q] = fetch[q]
    BY <1>4 DEF FreshInv
  <2>3. CASE p = Yahoo
    <3>. HIDE DEF p
    <3>1. fetch'[r] = Started(l.symbol)
      BY <2>2, <2>3
    <3>2. /\ fetch'[r] \in [stage : {"none", "served", "waiting", "sent", "backoff"},
                            tries : Nat, found : Nat \cup {NoData}]
          /\ fetch'[r].found # NoData => fetch'[r].found + Ttl >= now
      BY <3>1, StartedFresh
    <3>. QED
      BY <2>1, <2>2, <3>2, LookupBasics DEF FreshRow, FreshInv, Basics
  <2>4. CASE p # Yahoo
    <3>. HIDE DEF p
    <3>1. fetch'[r] = NoFetch
      BY <2>2, <2>4
    <3>. QED
      BY <2>1, <2>2, <3>1 DEF FreshRow, NoFetch
  <2>. QED
    BY <2>3, <2>4
<1>. QED
  BY <1>2, <1>3, <1>4 DEF Continues

(* One caller's row moves to a fresh one and the others stay. *)
Moved(r) ==
  /\ DOMAIN lookup' = Lookups /\ DOMAIN fetch' = Lookups
  /\ FreshRow(lookup'[r], fetch'[r])
  /\ \A q \in Lookups \ {r} : lookup'[q] = lookup[q] /\ fetch'[q] = fetch[q]

LEMMA MovedFresh ==
  ASSUME FreshInv, NEW r \in Lookups, Moved(r), UNCHANGED now,
         chart' \in [LookupSymbols -> [ok : BOOLEAN, since : Nat] \cup {NoData}]
  PROVE  FreshInv'
<1>1. \A q \in Lookups : FreshRow(lookup[q], fetch[q])'
  BY DEF Moved, FreshInv, FreshRow
<1>. QED
  BY <1>1 DEF FreshInv, Moved

LEMMA DeliversFresh ==
  ASSUME FreshInv, NEW r \in Lookups, NEW t, Delivers(r, t),
         Asked(r) = Yahoo => t + Ttl >= lookup[r].began
  PROVE  Moved(r)
BY DEF Delivers, Ends, FreshInv, FreshRow, NoFetch, Fields, Moved

LEMMA SilentFresh ==
  ASSUME FreshInv, NEW r \in Lookups, NEW h, Silent(r, h)
  PROVE  Moved(r)
<1>. DEFINE l == [lookup[r] EXCEPT !.silent = @ \cup {Asked(r)}]
<1>1. /\ DOMAIN l = Fields /\ l.symbol \in LookupSymbols
      /\ l.began \in Nat /\ l.began <= now
  BY DEF FreshInv, FreshRow, Fields
<1>2. CASE /\ lookup' = [lookup EXCEPT ![r] = [l EXCEPT !.place = "pausing"]]
           /\ fetch' = [fetch EXCEPT ![r] = NoFetch]
  BY <1>1, <1>2 DEF FreshInv, FreshRow, NoFetch, Fields, Moved
<1>3. CASE Continues(r, l, l.at + 1)
  <2>. HIDE DEF l
  <2>. QED
    BY <1>1, <1>3, ContinuesFresh DEF Moved
<1>. QED
  BY <1>2, <1>3 DEF Silent

LEMMA LookupStepFresh ==
  ASSUME FreshInv, NEW r \in Lookups, LookupStep(r)
  PROVE  FreshInv'
<1>. USE DEF Times
<1>1. CASE OtherAnswers(r)
  <2>1. Moved(r)
    BY <1>1, DeliversFresh, SilentFresh DEF OtherAnswers
  <2>. QED
    BY <1>1, <2>1, MovedFresh DEF OtherAnswers, yahooVars, FreshInv
<1>2. CASE Retry(r)
  <2>1. Started(lookup[r].symbol) \in
          [stage : {"none", "served", "waiting", "sent", "backoff"},
           tries : Nat, found : Nat \cup {NoData}]
        /\ (Started(lookup[r].symbol).found # NoData
            => Started(lookup[r].symbol).found + Ttl >= now)
    BY StartedFresh DEF FreshInv, FreshRow
  <2>2. fetch'[r] = Started(lookup[r].symbol) /\ DOMAIN fetch' = Lookups
        /\ \A q \in Lookups \ {r} : fetch'[q] = fetch[q]
    BY <1>2 DEF Retry, FreshInv
  <2>3. lookup'[r].place = "asking" /\ lookup'[r].symbol = lookup[r].symbol
        /\ lookup'[r].began = lookup[r].began /\ DOMAIN lookup'[r] = Fields
        /\ DOMAIN lookup' = Lookups
        /\ \A q \in Lookups \ {r} : lookup'[q] = lookup[q]
    BY <1>2 DEF Retry, FreshInv, FreshRow, Fields
  <2>4. FreshRow(lookup'[r], fetch'[r])
    BY <2>1, <2>2, <2>3, LookupBasics DEF FreshRow, FreshInv, Basics
  <2>5. Moved(r)
    BY <2>2, <2>3, <2>4 DEF Moved
  <2>. QED
    BY <1>2, <2>5, MovedFresh DEF Retry, yahooVars, FreshInv
<1>3. CASE ServedFromCache(r)
  <2>1. Moved(r)
    BY <1>3, DeliversFresh, SilentFresh DEF ServedFromCache, FreshInv, FreshRow
  <2>. QED
    BY <1>3, <2>1, MovedFresh DEF ServedFromCache, yahooVars, FreshInv
<1>4. CASE Good(r)
  <2>1. now + Ttl >= lookup[r].began
    BY LookupBasics DEF FreshInv, FreshRow, Basics
  <2>2. Moved(r)
    BY <1>4, <2>1, DeliversFresh DEF Good
  <2>3. chart' \in [LookupSymbols -> [ok : BOOLEAN, since : Nat] \cup {NoData}]
    BY <1>4 DEF Good, FreshInv
  <2>. QED
    BY <1>4, <2>2, <2>3, MovedFresh DEF Good
<1>6. ASSUME Fails(r),
             chart' \in [LookupSymbols -> [ok : BOOLEAN, since : Nat] \cup {NoData}]
      PROVE  FreshInv'
  <2>1. Moved(r) /\ UNCHANGED now
    BY <1>6, SilentFresh DEF Fails
  <2>. QED
    BY <1>6, <2>1, MovedFresh
<1>7. UNCHANGED chart
      => chart' \in [LookupSymbols -> [ok : BOOLEAN, since : Nat] \cup {NoData}]
  BY DEF FreshInv
<1>8. CASE Refused(r)
  BY <1>6, <1>8 DEF Refused, FreshInv
<1>9. CASE Odd(r)
  BY <1>6, <1>7, <1>9 DEF Odd
<1>10. ASSUME NEW s \in {"sent", "waiting", "backoff"},
              fetch' = [fetch EXCEPT ![r].stage = s],
              UNCHANGED <<now, lookup, chart>>
       PROVE  FreshInv'
  BY <1>10 DEF FreshInv, FreshRow
<1>11. CASE Send(r)
  BY <1>10, <1>11 DEF Send, yahooVars
<1>12. BacksOff(r) => FreshInv'
  BY <1>10 DEF BacksOff, yahooVars
<1>13. CASE Busy(r)
  BY <1>12, <1>13 DEF Busy
<1>14. CASE Breaks(r)
  BY <1>6, <1>7, <1>12, <1>14 DEF Breaks
<1>15. CASE Back(r)
  <2>1. fetch[r].tries + 1 \in Nat
    BY DEF FreshInv, FreshRow
  <2>2. CASE /\ fetch' = [fetch EXCEPT ![r].stage = "waiting", ![r].tries = @ + 1]
             /\ UNCHANGED <<now, lookup, chart>>
    BY <2>1, <2>2 DEF FreshInv, FreshRow
  <2>. QED
    BY <1>6, <1>7, <1>15, <2>2 DEF Back, yahooVars
<1>. QED
  BY <1>1, <1>2, <1>3, <1>4, <1>8, <1>9, <1>11, <1>13, <1>14, <1>15 DEF LookupStep

LEMMA FreshStart == LookupsInit => FreshInv
<1>1. (CHOOSE s \in LookupSymbols : TRUE) \in LookupSymbols
  BY LookupAssumption
<1>. QED
  BY <1>1, LookupBasics
  DEF LookupsInit, Empty, FreshInv, FreshRow, Unasked, NoFetch, Fields, Basics

LEMMA FreshKept == FreshInv /\ [LookupsNext]_<<feeds, lookupVars>> => FreshInv'
<1>. SUFFICES ASSUME FreshInv, [LookupsNext]_<<feeds, lookupVars>>
              PROVE  FreshInv'
  OBVIOUS
<1>1. (CHOOSE s \in LookupSymbols : TRUE) \in LookupSymbols
  BY LookupAssumption
<1>2. ASSUME NEW r \in Lookups, NEW s \in LookupSymbols,
             NEW kind \in {"tick", "candle", "replay"}, Ask(r, kind, s)
      PROVE  FreshInv'
  <2>. DEFINE l == [Unasked EXCEPT !.kind = kind, !.symbol = s, !.chain = active,
                                   !.began = now]
  <2>1. /\ DOMAIN l = Fields /\ l.symbol \in LookupSymbols
        /\ l.began \in Nat /\ l.began <= now
    BY DEF Unasked, Fields, FreshInv
  <2>2. Continues(r, l, 1)
    BY <1>2 DEF Ask
  <2>3. Moved(r)
    <3>. HIDE DEF l
    <3>. QED
      BY <2>1, <2>2, ContinuesFresh DEF Moved
  <2>. QED
    BY <1>2, <2>3, MovedFresh DEF Ask, yahooVars, FreshInv
<1>3. CASE UNCHANGED <<lookup, fetch, chart>> /\ (UNCHANGED now \/ now' = now + 1)
  BY <1>3 DEF FreshInv, FreshRow
<1>4. CASE RestartLookups
  BY <1>1, <1>4, LookupBasics
  DEF RestartLookups, FreshInv, FreshRow, Unasked, NoFetch, Fields, Basics
<1>5. CASE Called
  BY <1>2, <1>3, <1>4, <1>5
  DEF Called, Streamed, StopFeed, Selects, yahooVars
<1>. QED
  BY <1>3, <1>5, LookupStepFresh
  DEF LookupsNext, GetFeedStatus, Passes, lookupVars, caches, yahooVars

(* What a replay gets from Yahoo is no older than the time to live of the  *)
(* cache, whoever fetched it and however many lookups, retries, selections *)
(* and restarts there are.                                                 *)
THEOREM ReplaysAreFresh == LookupsSpec => []ReplayIsFresh
<1>1. FreshInv => ReplayIsFresh
  BY DEF FreshInv, FreshRow, ReplayIsFresh
<1>. QED
  BY <1>1, FreshStart, FreshKept, PTL DEF LookupsSpec

----------------------------------------------------------------------------
(* The order of the chain *)

(* Position j of the chain has been asked in vain, with S on record. *)
Passed(l, j, S) == l.chain[j] \in Stubs \/ l.chain[j] \in l.silent \cap S

Honours(l, f, S) ==
  /\ DOMAIN l = Fields /\ l.chain \in Seq(Providers)
  /\ f.stage # "none" => l.place = "asking"
  /\ l.place \in {"asking", "pausing"} => l.at \in DOMAIN l.chain
  /\ l.place \in {"asking", "pausing"} /\ l.kind = "replay"
     => \A j \in DOMAIN l.chain : j < l.at => Passed(l, j, S)
  /\ l.place = "done" /\ l.kind = "replay"
     => \A j \in DOMAIN l.chain :
          Passed(l, j, S) \/ \E k \in 1 .. j : l.chain[k] = l.answer.source

ChainInv ==
  /\ DOMAIN lookup = Lookups /\ DOMAIN fetch = Lookups
  /\ \A r \in Lookups :
       /\ Honours(lookup[r], fetch[r], failed)
       /\ DOMAIN fetch[r] = {"stage", "tries", "found"}

LEMMA MinIsIn ==
  ASSUME NEW I \in SUBSET Nat, I # {}
  PROVE  Min(I) \in I /\ \A j \in I : Min(I) <= j
<1>1. \E i \in I : \A j \in I : i <= j
  BY LeastOf
<1>. QED
  BY <1>1, Zenon DEF Min

LEMMA StartedFields ==
  ASSUME NEW s
  PROVE  DOMAIN Started(s) = {"stage", "tries", "found"}
BY DEF Started

(* A row changes to one that honours the chain, and failures are kept. *)
Goes(r) ==
  /\ DOMAIN lookup' = Lookups /\ DOMAIN fetch' = Lookups
  /\ Honours(lookup'[r], fetch'[r], failed')
  /\ DOMAIN fetch'[r] = {"stage", "tries", "found"}
  /\ \A q \in Lookups \ {r} : lookup'[q] = lookup[q] /\ fetch'[q] = fetch[q]
  /\ failed \subseteq failed'

LEMMA GoesHonours ==
  ASSUME ChainInv, NEW r \in Lookups, Goes(r)
  PROVE  ChainInv'
<1>1. ASSUME NEW l, NEW f, Honours(l, f, failed)
      PROVE  Honours(l, f, failed')
  BY <1>1 DEF Goes, Honours, Passed
<1>2. \A q \in Lookups \ {r} : Honours(lookup'[q], fetch'[q], failed')
  BY <1>1 DEF Goes, ChainInv
<1>. QED
  BY <1>2 DEF Goes, ChainInv

LEMMA ContinuesHonours ==
  ASSUME ChainInv, NEW r \in Lookups, NEW l, NEW i \in Nat \ {0}, Continues(r, l, i),
         failed \subseteq failed',
         DOMAIN l = Fields, l.chain \in Seq(Providers),
         l.kind = "replay" =>
           \A j \in DOMAIN l.chain : j < i => Passed(l, j, failed')
  PROVE  Goes(r)
<1>. DEFINE stops == {j \in i .. Len(l.chain) : Asks(l.kind, l.chain[j])}
            p     == l.chain[Min(stops)]
<1>1. DOMAIN l.chain = 1 .. Len(l.chain) /\ Len(l.chain) \in Nat
  OBVIOUS
<1>2. ASSUME NEW datum, Ends(r, l, datum),
             l.kind = "replay" =>
               \A j \in DOMAIN l.chain :
                 Passed(l, j, failed')
      PROVE  Goes(r)
  BY <1>2 DEF Ends, ChainInv, Honours, Passed, NoFetch, Fields, Goes
<1>3. CASE stops = {} /\ FallsBack(r, l)
  <2>1. l.kind = "replay" => \A j \in DOMAIN l.chain : j >= i => l.chain[j] \in Stubs
    BY <1>1, <1>3 DEF Asks
  <2>2. l.kind = "replay" =>
          \A j \in DOMAIN l.chain : Passed(l, j, failed')
    BY <1>1, <2>1 DEF Passed
  <2>. QED
    BY <1>2, <1>3, <2>2 DEF FallsBack
<1>4. CASE /\ Cached(l, p)
           /\ Ends(r, l, IF l.kind = "tick" THEN ticks[l.symbol] ELSE candles[l.symbol])
  BY <1>2, <1>4 DEF Cached
<1>5. CASE /\ stops # {}
           /\ lookup' = [lookup EXCEPT ![r] =
                [l EXCEPT !.place = "asking", !.at = Min(stops), !.again = FALSE,
                          !.able = Able(p)]]
           /\ fetch' = [fetch EXCEPT ![r] = IF p = Yahoo THEN Started(l.symbol) ELSE NoFetch]
  <2>1. Min(stops) \in stops /\ \A j \in stops : Min(stops) <= j
    <3>1. stops \in SUBSET Nat
      BY <1>1
    <3>. QED
      BY <1>5, <3>1, MinIsIn
  <2>2. \A j \in DOMAIN l.chain : j >= i /\ j < Min(stops) /\ l.kind = "replay" => l.chain[j] \in Stubs
    <3>1. SUFFICES ASSUME NEW j \in DOMAIN l.chain, j >= i, j < Min(stops), l.kind = "replay",
                          l.chain[j] \notin Stubs
                   PROVE  FALSE
      OBVIOUS
    <3>2. j \in i .. Len(l.chain) /\ Asks(l.kind, l.chain[j])
      BY <1>1, <3>1 DEF Asks
    <3>3. j \in stops
      BY <3>2
    <3>4. Min(stops) \in Nat
      BY <1>1, <2>1
    <3>5. j \in Nat /\ Min(stops) <= j
      BY <1>1, <2>1, <3>3
    <3>. HIDE DEF stops
    <3>6. PICK least \in Nat : least = Min(stops)
      BY <3>4, Zenon
    <3>. QED
      BY <3>1, <3>5, <3>6
  <2>3. l.kind = "replay" =>
          \A j \in DOMAIN l.chain : j < Min(stops) =>
            Passed(l, j, failed')
    BY <1>1, <2>1, <2>2 DEF Passed
  <2>4. Min(stops) \in DOMAIN l.chain
    BY <1>1, <2>1
  <2>5. DOMAIN fetch'[r] = {"stage", "tries", "found"}
        /\ DOMAIN fetch' = Lookups
        /\ \A q \in Lookups \ {r} : fetch'[q] = fetch[q]
    BY <1>5, StartedFields DEF ChainInv, NoFetch
  <2>. DEFINE m == Min(stops)  able == Able(p)
  <2>6. /\ lookup'[r] = [l EXCEPT !.place = "asking", !.at = m, !.again = FALSE, !.able = able]
        /\ DOMAIN lookup' = Lookups
        /\ \A q \in Lookups \ {r} : lookup'[q] = lookup[q]
    BY <1>5 DEF ChainInv
  <2>. HIDE DEF m, able
  <2>7. /\ lookup'[r].place = "asking" /\ lookup'[r].at = m
        /\ lookup'[r].kind = l.kind /\ lookup'[r].chain = l.chain
        /\ lookup'[r].silent = l.silent /\ DOMAIN lookup'[r] = Fields
    BY <2>6 DEF Fields
  <2>8. Honours(lookup'[r], fetch'[r], failed')
    <3>1. m = Min(stops)
      BY DEF m
    <3>. HIDE DEF stops
    <3>. QED
      BY <2>3, <2>4, <2>7, <3>1 DEF Honours, Passed
  <2>. QED
    BY <2>5, <2>6, <2>8 DEF Goes
<1>. QED
  BY <1>3, <1>4, <1>5 DEF Continues

LEMMA DeliversHonours ==
  ASSUME ChainInv, NEW r \in Lookups, NEW t, Delivers(r, t),
         lookup[r].place = "asking"
  PROVE  Goes(r)
<1>1. lookup[r].kind = "replay" =>
        \A j \in DOMAIN lookup[r].chain :
          \/ Passed(lookup[r], j, failed)
          \/ lookup[r].at \in 1 .. j
  BY DEF ChainInv, Honours
<1>. QED
  BY <1>1 DEF Delivers, Asked, Ends, ChainInv, Honours, Passed, NoFetch, Fields, Goes

LEMMA SilentHonours ==
  ASSUME ChainInv, NEW r \in Lookups, NEW h, Silent(r, h),
         lookup[r].place = "asking"
  PROVE  Goes(r)
<1>1. PICK l : l = [lookup[r] EXCEPT !.silent = @ \cup {Asked(r)}]
  OBVIOUS
<1>2. /\ DOMAIN l = Fields /\ l.chain = lookup[r].chain /\ l.kind = lookup[r].kind
      /\ l.at = lookup[r].at /\ l.silent = lookup[r].silent \cup {Asked(r)}
      /\ l.place = "asking"
  BY <1>1 DEF ChainInv, Honours, Fields
<1>3. failed' = failed \cup {Asked(r)}
  BY DEF Silent
<1>4. /\ l.chain \in Seq(Providers) /\ DOMAIN l.chain = 1 .. Len(l.chain)
      /\ l.at \in DOMAIN l.chain /\ l.at \in Nat
  BY <1>2 DEF ChainInv, Honours
<1>5. l.chain[l.at] = Asked(r)
  BY <1>2 DEF Asked
<1>6. l.kind = "replay" => \A j \in DOMAIN l.chain : j < l.at => Passed(l, j, failed')
  BY <1>2, <1>3 DEF ChainInv, Honours, Passed
<1>7. Passed(l, l.at, failed')
  BY <1>2, <1>3, <1>5 DEF Passed
<1>8. \A j \in DOMAIN l.chain : j < l.at + 1 => j < l.at \/ j = l.at
  BY <1>4
<1>9. CASE /\ lookup' = [lookup EXCEPT ![r] = [l EXCEPT !.place = "pausing"]]
           /\ fetch' = [fetch EXCEPT ![r] = NoFetch]
  BY <1>2, <1>3, <1>4, <1>6, <1>9 DEF ChainInv, Honours, Passed, NoFetch, Fields, Goes
<1>10. CASE Continues(r, l, l.at + 1)
  <2>1. l.at + 1 \in Nat \ {0}
    BY <1>4
  <2>2. l.kind = "replay" => \A j \in DOMAIN l.chain : j < l.at + 1 => Passed(l, j, failed')
    BY <1>6, <1>7, <1>8
  <2>3. DOMAIN l = Fields /\ l.chain \in Seq(Providers) /\ failed \subseteq failed'
    BY <1>2, <1>3, <1>4
  <2>. DEFINE i == l.at + 1
  <2>. HIDE DEF i
  <2>4. i \in Nat \ {0} /\ Continues(r, l, i)
        /\ (l.kind = "replay" => \A j \in DOMAIN l.chain : j < i => Passed(l, j, failed'))
    BY <1>10, <2>1, <2>2 DEF i
  <2>. QED
    BY <2>3, <2>4, ContinuesHonours
<1>. QED
  BY <1>1, <1>2, <1>9, <1>10 DEF Silent

(* A fetch goes on, or the grace retry begins: the chain is where it was. *)
LEMMA StaysHonours ==
  ASSUME ChainInv, NEW r \in Lookups,
         DOMAIN lookup' = Lookups, DOMAIN fetch' = Lookups, failed' = failed,
         \A q \in Lookups \ {r} : lookup'[q] = lookup[q] /\ fetch'[q] = fetch[q],
         DOMAIN fetch'[r] = {"stage", "tries", "found"}, DOMAIN lookup'[r] = Fields,
         lookup'[r].place = "asking", lookup[r].place \in {"asking", "pausing"},
         lookup'[r].chain = lookup[r].chain, lookup'[r].kind = lookup[r].kind,
         lookup'[r].at = lookup[r].at, lookup'[r].silent = lookup[r].silent
  PROVE  ChainInv'
<1>1. Goes(r)
  BY DEF ChainInv, Honours, Passed, Goes
<1>. QED
  BY <1>1, GoesHonours

LEMMA LookupStepHonours ==
  ASSUME ChainInv, NEW r \in Lookups, LookupStep(r)
  PROVE  ChainInv'
<1>1. CASE OtherAnswers(r)
  BY <1>1, DeliversHonours, SilentHonours, GoesHonours DEF OtherAnswers
<1>2. CASE Retry(r)
  <2>. DEFINE row == [[lookup[r] EXCEPT !.place = "asking"] EXCEPT !.again = TRUE]
  <2>1. DOMAIN lookup[r] = Fields /\ DOMAIN lookup = Lookups /\ DOMAIN fetch = Lookups
    BY DEF ChainInv, Honours
  <2>2. /\ lookup'[r] = row /\ DOMAIN lookup' = Lookups
        /\ \A q \in Lookups \ {r} : lookup'[q] = lookup[q]
    BY <1>2, <2>1 DEF Retry
  <2>3. /\ fetch'[r] = Started(lookup[r].symbol) /\ DOMAIN fetch' = Lookups
        /\ \A q \in Lookups \ {r} : fetch'[q] = fetch[q]
    BY <1>2, <2>1 DEF Retry
  <2>4. DOMAIN fetch'[r] = {"stage", "tries", "found"}
    BY <2>3, StartedFields
  <2>5. /\ DOMAIN row = Fields /\ row.place = "asking" /\ row.chain = lookup[r].chain
        /\ row.kind = lookup[r].kind /\ row.at = lookup[r].at
        /\ row.silent = lookup[r].silent
    BY <2>1 DEF Fields
  <2>. HIDE DEF row
  <2>. QED
    BY <1>2, <2>2, <2>3, <2>4, <2>5, StaysHonours DEF Retry
<1>3. fetch[r].stage # "none" => lookup[r].place = "asking"
  BY DEF ChainInv, Honours
<1>4. CASE ServedFromCache(r)
  BY <1>3, <1>4, DeliversHonours, SilentHonours, GoesHonours DEF ServedFromCache
<1>5. CASE Good(r)
  BY <1>3, <1>5, DeliversHonours, GoesHonours DEF Good
<1>6. ASSUME Fails(r), fetch[r].stage # "none"
      PROVE  ChainInv'
  BY <1>3, <1>6, SilentHonours, GoesHonours DEF Fails
<1>7. CASE Refused(r) \/ Odd(r)
  BY <1>6, <1>7 DEF Refused, Odd
<1>8. ASSUME NEW s, NEW t, fetch[r].stage # "none",
             \/ fetch' = [fetch EXCEPT ![r].stage = s]
             \/ fetch' = [fetch EXCEPT ![r].stage = s, ![r].tries = t],
             UNCHANGED <<lookup, failed>>
      PROVE  ChainInv'
  BY <1>3, <1>8, StaysHonours DEF ChainInv, Honours, Fields
<1>9. CASE Send(r)
  BY <1>8, <1>9 DEF Send
<1>10. ASSUME BacksOff(r), fetch[r].stage # "none"
       PROVE  ChainInv'
  BY <1>8, <1>10 DEF BacksOff
<1>11. CASE Busy(r) \/ Breaks(r)
  BY <1>6, <1>10, <1>11 DEF Busy, Breaks
<1>12. CASE Back(r)
  <2>1. CASE fetch' = [fetch EXCEPT ![r].stage = "waiting", ![r].tries = @ + 1]
             /\ UNCHANGED <<lookup, failed>>
    BY <1>8, <1>12, <2>1 DEF Back
  <2>. QED
    BY <1>6, <1>12, <2>1 DEF Back
<1>. QED
  BY <1>1, <1>2, <1>4, <1>5, <1>7, <1>9, <1>11, <1>12 DEF LookupStep

LEMMA NobodyAsks ==
  ASSUME NEW S
  PROVE  /\ Honours(Unasked, NoFetch, S)
         /\ DOMAIN NoFetch = {"stage", "tries", "found"}
<1>1. /\ DOMAIN Unasked = Fields /\ Unasked.chain = <<>> /\ Unasked.place = "idle"
      /\ NoFetch.stage = "none" /\ DOMAIN NoFetch = {"stage", "tries", "found"}
  BY DEF Unasked, NoFetch, Fields
<1>2. <<>> \in Seq(Providers)
  OBVIOUS
<1>. QED
  BY <1>1, <1>2 DEF Honours

LEMMA ChainStart == LookupsInit => ChainInv
BY NobodyAsks DEF LookupsInit, Empty, ChainInv

LEMMA ChainKept ==
  FeedsTypeOK /\ ChainInv /\ [LookupsNext]_<<feeds, lookupVars>> => ChainInv'
<1>. SUFFICES ASSUME FeedsTypeOK, ChainInv, [LookupsNext]_<<feeds, lookupVars>>
              PROVE  ChainInv'
  OBVIOUS
<1>1. ASSUME NEW r \in Lookups, NEW s \in LookupSymbols,
             NEW kind \in {"tick", "candle", "replay"}, Ask(r, kind, s)
      PROVE  ChainInv'
  <2>1. PICK l : l = [Unasked EXCEPT !.kind = kind, !.symbol = s, !.chain = active,
                                     !.began = now]
    OBVIOUS
  <2>2. DOMAIN l = Fields /\ l.chain = active
    BY <2>1 DEF Unasked, Fields
  <2>3. l.chain \in Seq(Providers)
    BY <2>2 DEF FeedsTypeOK
  <2>4. \A j \in DOMAIN l.chain : ~(j < 1)
    BY <2>3
  <2>5. Continues(r, l, 1) /\ failed \subseteq failed'
    BY <1>1, <2>1 DEF Ask
  <2>6. Goes(r)
    BY <2>2, <2>3, <2>4, <2>5, ContinuesHonours
  <2>. QED
    BY <2>6, GoesHonours
<1>2. CASE UNCHANGED <<lookup, fetch, failed>>
  BY <1>2 DEF ChainInv, Honours, Passed
<1>3. CASE RestartLookups
  BY <1>3, NobodyAsks DEF RestartLookups, ChainInv
<1>4. CASE Called
  BY <1>1, <1>2, <1>3, <1>4 DEF Called, Streamed, StopFeed, Selects
<1>. QED
  BY <1>2, <1>4, LookupStepHonours DEF LookupsNext, GetFeedStatus, Passes, lookupVars

(* The lists of lookups are those of the feed manager. *)
LEMMA LookupsLeaveFeeds == [LookupsNext]_<<feeds, lookupVars>> => [FeedsNext]_feeds
<1>. SUFFICES ASSUME [LookupsNext]_<<feeds, lookupVars>> PROVE [FeedsNext]_feeds
  OBVIOUS
<1>1. ASSUME NEW r \in Lookups, LookupStep(r) PROVE UNCHANGED feeds
  BY <1>1 DEF LookupStep, OtherAnswers, Retry, ServedFromCache, Send, Good, Refused, Odd,
              Busy, Breaks, Back, Fails, BacksOff
<1>2. ASSUME NEW r, NEW kind, NEW s, Ask(r, kind, s) PROVE UNCHANGED feeds
  BY <1>2 DEF Ask
<1>3. ASSUME NEW s, NEW p, Streamed(s, p) \/ StopFeed(p) PROVE UNCHANGED feeds
  BY <1>3 DEF Streamed, StopFeed
<1>4. Selects \/ RestartLookups => FeedsNext
  BY DEF Selects, RestartLookups, FeedsNext
<1>5. GetFeedStatus \/ Passes => UNCHANGED feeds
  BY DEF GetFeedStatus, Passes
<1>. QED
  BY <1>1, <1>2, <1>3, <1>4, <1>5 DEF LookupsNext, Called

LEMMA ChainsInductive == LookupsSpec => []ChainInv
<1>1. LookupsInit => FeedsInv /\ ChainInv
  BY FeedsStart, ChainStart DEF LookupsInit
<1>2. FeedsInv => FeedsTypeOK
  BY DEF FeedsInv
<1>3. FeedsInv /\ [LookupsNext]_<<feeds, lookupVars>> => FeedsInv'
  BY FeedsKept, LookupsLeaveFeeds
<1>. QED
  BY <1>1, <1>2, <1>3, ChainKept, PTL DEF LookupsSpec

(* A series comes from the first provider of the list that gave one, and   *)
(* those before it that have the method have failed in this lookup and are *)
(* on record, for any lists, callers, retries and restarts                 *)
(* (feedManager.js:470-507).                                               *)
THEOREM ChainsAreHonoured == LookupsSpec => []ChainHonoured
<1>1. ChainInv => ChainHonoured
  BY DEF ChainInv, Honours, Passed, ChainHonoured
<1>. QED
  BY <1>1, ChainsInductive, PTL

(* A replay is as fresh as the cache promises, and from the right provider *)
(* of its list.                                                            *)
THEOREM LookupsAreHonest == LookupsSpec => []LookupHonest
<1>1. ReplayIsFresh /\ ChainHonoured => LookupHonest
  BY DEF LookupHonest
<1>. QED
  BY <1>1, ReplaysAreFresh, ChainsAreHonoured, PTL

----------------------------------------------------------------------------
(* What lookups, caches and health records hold *)

Fetches == [stage : {"none", "served", "waiting", "sent", "backoff"},
            tries : 0 .. Retries, found : Times \cup {NoData}]

Fits(l) ==
  /\ DOMAIN l = Fields
  /\ l.kind \in {"tick", "candle", "replay"} /\ l.symbol \in LookupSymbols
  /\ l.silent \subseteq Providers /\ l.answer \in Data \cup {NoData}

RowsTypeOK ==
  /\ DOMAIN lookup = Lookups
  /\ fetch \in [Lookups -> Fetches]
  /\ \A r \in Lookups :
       Fits(lookup[r]) /\ lookup[r].place \in {"idle", "asking", "pausing", "done"}

CachesTypeOK ==
  /\ ticks \in [LookupSymbols -> Data \cup {NoData}]
  /\ candles \in [LookupSymbols -> Data \cup {NoData}]
  /\ shown \in [Providers -> [connected : BOOLEAN, told : BOOLEAN]]

YahooTypeOK ==
  /\ chart \in [LookupSymbols -> [ok : BOOLEAN, since : Times] \cup {NoData}]
  /\ health \in [failures : 0 .. Retries + 1, succeeded : Times \cup {NoData}]

HeldTypeOK ==
  /\ now \in Times
  /\ RowsTypeOK /\ CachesTypeOK /\ YahooTypeOK
  /\ failed \subseteq Providers

LEMMA LookupNumbers ==
  /\ Retries \in Nat /\ MaxClock \in Nat /\ MaxCalls \in Nat
  /\ Demo \in Providers /\ NoFetch \in Fetches
BY LookupAssumption, ProviderAssumption DEF NoFetch, Fetches

LEMMA ShownTypes ==
  ASSUME CachesTypeOK, NEW p \in Providers
  PROVE  /\ Bumped(p) \in [Providers -> [connected : BOOLEAN, told : BOOLEAN]]
         /\ Promoted(p) \in [Providers -> [connected : BOOLEAN, told : BOOLEAN]]
         /\ Rebuilt \in [Providers -> [connected : BOOLEAN, told : BOOLEAN]]
BY DEF CachesTypeOK, Bumped, Promoted, Rebuilt

LEMMA StartedTypes ==
  ASSUME YahooTypeOK, NEW s \in LookupSymbols
  PROVE  Started(s) \in Fetches
<1>1. CASE Fresh(s)
  <2>1. chart[s] \in [ok : BOOLEAN, since : Times]
    BY <1>1 DEF Fresh, YahooTypeOK
  <2>. QED
    BY <1>1, <2>1, LookupNumbers DEF Started, Fetches
<1>2. CASE ~Fresh(s)
  BY <1>2, LookupNumbers DEF Started, Fetches
<1>. QED
  BY <1>1, <1>2

(* A row is written, and the others stay. *)
LEMMA RowTypes ==
  ASSUME RowsTypeOK, NEW r \in Lookups, NEW l, Fits(l),
         l.place \in {"idle", "asking", "pausing", "done"},
         lookup' = [lookup EXCEPT ![r] = l],
         NEW f \in Fetches, fetch' = [fetch EXCEPT ![r] = f]
  PROVE  RowsTypeOK'
<1>1. fetch' \in [Lookups -> Fetches] /\ DOMAIN lookup' = Lookups
  BY DEF RowsTypeOK
<1>2. \A q \in Lookups : lookup'[q] = IF q = r THEN l ELSE lookup[q]
  BY DEF RowsTypeOK
<1>3. \A q \in Lookups :
        Fits(lookup'[q]) /\ lookup'[q].place \in {"idle", "asking", "pausing", "done"}
  BY <1>2 DEF RowsTypeOK
<1>. QED
  BY <1>1, <1>3 DEF RowsTypeOK

LEMMA EndsTypes ==
  ASSUME RowsTypeOK, NEW r \in Lookups, NEW l, Fits(l),
         NEW datum \in Data \cup {NoData}, Ends(r, l, datum)
  PROVE  RowsTypeOK'
<1>1. PICK m : m = [l EXCEPT !.place = "done", !.answer = datum]
  OBVIOUS
<1>2. Fits(m) /\ m.place = "done"
  BY <1>1 DEF Fits, Fields
<1>. QED
  BY <1>1, <1>2, RowTypes, LookupNumbers DEF Ends

LEMMA ContinuesTypes ==
  ASSUME HeldTypeOK, NEW r \in Lookups, NEW l, Fits(l), NEW i, Continues(r, l, i)
  PROVE  RowsTypeOK' /\ CachesTypeOK'
<1>. DEFINE stops == {j \in i .. Len(l.chain) : Asks(l.kind, l.chain[j])}
            p     == l.chain[Min(stops)]
<1>1. CASE FallsBack(r, l)
  <2>1. PICK made : made = [source |-> Demo, fetched |-> now]
    OBVIOUS
  <2>2. made \in Data /\ l.symbol \in LookupSymbols
    BY <2>1, LookupNumbers DEF Data, HeldTypeOK, Fits
  <2>3. /\ Ends(r, l, IF l.kind = "tick" THEN ticks[l.symbol] ELSE made)
        /\ \/ /\ ticks' = [ticks EXCEPT ![l.symbol] = made]
              /\ candles' = [candles EXCEPT ![l.symbol] = made]
              /\ shown' = Promoted(Demo)
           \/ UNCHANGED caches
    BY <1>1, <2>1 DEF FallsBack
  <2>4. CachesTypeOK'
    <3>1. Promoted(Demo) \in [Providers -> [connected : BOOLEAN, told : BOOLEAN]]
      BY ShownTypes, LookupNumbers DEF HeldTypeOK
    <3>. QED
      BY <2>2, <2>3, <3>1 DEF HeldTypeOK, CachesTypeOK, caches
  <2>5. (IF l.kind = "tick" THEN ticks[l.symbol] ELSE made) \in Data \cup {NoData}
    BY <2>2 DEF HeldTypeOK, CachesTypeOK
  <2>. QED
    BY <2>3, <2>4, <2>5, EndsTypes DEF HeldTypeOK
<1>2. CASE /\ Ends(r, l, IF l.kind = "tick" THEN ticks[l.symbol] ELSE candles[l.symbol])
           /\ UNCHANGED caches
  <2>1. (IF l.kind = "tick" THEN ticks[l.symbol] ELSE candles[l.symbol]) \in Data \cup {NoData}
    BY DEF HeldTypeOK, CachesTypeOK, Fits
  <2>2. CachesTypeOK'
    BY <1>2 DEF HeldTypeOK, CachesTypeOK, caches
  <2>. QED
    BY <1>2, <2>1, <2>2, EndsTypes DEF HeldTypeOK
<1>3. CASE /\ lookup' = [lookup EXCEPT ![r] =
                [l EXCEPT !.place = "asking", !.at = Min(stops), !.again = FALSE,
                          !.able = Able(p)]]
           /\ fetch' = [fetch EXCEPT ![r] = IF p = Yahoo THEN Started(l.symbol) ELSE NoFetch]
           /\ UNCHANGED caches
  <2>. DEFINE first == Min(stops)
              able  == Able(p)
              m == [l EXCEPT !.place = "asking", !.at = first, !.again = FALSE, !.able = able]
  <2>1. lookup' = [lookup EXCEPT ![r] = m]
    BY <1>3
  <2>2. Fits(m) /\ m.place = "asking"
    <3>. HIDE DEF first, able
    <3>. QED
      BY DEF Fits, Fields
  <2>3. (IF p = Yahoo THEN Started(l.symbol) ELSE NoFetch) \in Fetches
    BY StartedTypes, LookupNumbers DEF HeldTypeOK, Fits
  <2>4. RowsTypeOK'
    <3>. DEFINE f == IF p = Yahoo THEN Started(l.symbol) ELSE NoFetch
    <3>1. fetch' = [fetch EXCEPT ![r] = f] /\ f \in Fetches
      BY <1>3, <2>3
    <3>. HIDE DEF f, m
    <3>. QED
      BY <2>1, <2>2, <3>1, RowTypes DEF HeldTypeOK
  <2>5. CachesTypeOK'
    BY <1>3 DEF HeldTypeOK, CachesTypeOK, caches
  <2>. QED
    BY <2>4, <2>5
<1>. QED
  BY <1>1, <1>2, <1>3 DEF Continues

(* The provider a lookup waits for is one of its list. *)
LEMMA AskedIsKnown ==
  ASSUME ChainInv, NEW r \in Lookups, lookup[r].place = "asking"
  PROVE  Asked(r) \in Providers
BY DEF ChainInv, Honours, Asked

LEMMA DeliversTypes ==
  ASSUME HeldTypeOK, ChainInv, NEW r \in Lookups, NEW t \in Times, Delivers(r, t),
         lookup[r].place = "asking"
  PROVE  RowsTypeOK' /\ CachesTypeOK' /\ failed' = failed
<1>1. PICK datum : datum = [source |-> Asked(r), fetched |-> t]
  OBVIOUS
<1>2. datum \in Data /\ Asked(r) \in Providers
  BY <1>1, AskedIsKnown DEF Data
<1>3. /\ Ends(r, lookup[r], datum)
      /\ ticks' = IF lookup[r].kind = "candle" THEN ticks
                  ELSE [ticks EXCEPT ![lookup[r].symbol] = datum]
      /\ candles' = IF lookup[r].kind = "tick" THEN candles
                    ELSE [candles EXCEPT ![lookup[r].symbol] = datum]
      /\ shown' = IF lookup[r].kind = "replay" THEN Promoted(Asked(r)) ELSE Bumped(Asked(r))
      /\ failed' = failed
  BY <1>1 DEF Delivers
<1>4. Fits(lookup[r])
  BY DEF HeldTypeOK, RowsTypeOK
<1>5. RowsTypeOK'
  BY <1>2, <1>3, <1>4, EndsTypes DEF HeldTypeOK
<1>6. CachesTypeOK'
  BY <1>2, <1>3, <1>4, ShownTypes DEF HeldTypeOK, CachesTypeOK, Fits
<1>. QED
  BY <1>3, <1>5, <1>6

LEMMA SilentTypes ==
  ASSUME HeldTypeOK, ChainInv, NEW r \in Lookups, NEW h, Silent(r, h),
         lookup[r].place = "asking"
  PROVE  RowsTypeOK' /\ CachesTypeOK' /\ failed' \subseteq Providers
<1>1. PICK l : l = [lookup[r] EXCEPT !.silent = @ \cup {Asked(r)}]
  OBVIOUS
<1>2. Asked(r) \in Providers /\ Fits(lookup[r])
  BY AskedIsKnown DEF HeldTypeOK, RowsTypeOK
<1>3. Fits(l)
  BY <1>1, <1>2 DEF Fits, Fields
<1>4. failed' \subseteq Providers
  BY <1>2 DEF Silent, HeldTypeOK
<1>5. CASE /\ lookup' = [lookup EXCEPT ![r] = [l EXCEPT !.place = "pausing"]]
           /\ fetch' = [fetch EXCEPT ![r] = NoFetch]
           /\ UNCHANGED caches
  <2>1. PICK m : m = [l EXCEPT !.place = "pausing"]
    OBVIOUS
  <2>2. Fits(m) /\ m.place = "pausing"
    BY <1>3, <2>1 DEF Fits, Fields
  <2>3. RowsTypeOK'
    BY <1>5, <2>1, <2>2, RowTypes, LookupNumbers DEF HeldTypeOK
  <2>. QED
    BY <1>4, <1>5, <2>3 DEF HeldTypeOK, CachesTypeOK, caches
<1>6. CASE Continues(r, l, l.at + 1)
  BY <1>3, <1>4, <1>6, ContinuesTypes
<1>. QED
  BY <1>1, <1>5, <1>6 DEF Silent

(* Only the stage and the tries of a fetch change. *)
LEMMA StageTypes ==
  ASSUME HeldTypeOK, NEW r \in Lookups, NEW f \in Fetches,
         fetch' = [fetch EXCEPT ![r] = f],
         UNCHANGED <<now, lookup, caches, yahooVars, failed>>
  PROVE  HeldTypeOK'
<1>1. RowsTypeOK'
  BY DEF HeldTypeOK, RowsTypeOK
<1>. QED
  BY <1>1 DEF HeldTypeOK, CachesTypeOK, YahooTypeOK, caches, yahooVars

LEMMA LookupStepTypes ==
  ASSUME HeldTypeOK, ChainInv, NEW r \in Lookups, LookupStep(r)
  PROVE  HeldTypeOK'
<1>1. fetch[r].stage # "none" => lookup[r].place = "asking"
  BY DEF ChainInv, Honours
<1>2. fetch[r] \in Fetches /\ Fits(lookup[r])
  BY DEF HeldTypeOK, RowsTypeOK
<1>3. CASE OtherAnswers(r)
  BY <1>3, DeliversTypes, SilentTypes
  DEF OtherAnswers, HeldTypeOK, YahooTypeOK, yahooVars
<1>4. CASE Retry(r)
  <2>1. PICK m : m = [lookup[r] EXCEPT !.place = "asking", !.again = TRUE]
    OBVIOUS
  <2>2. Fits(m) /\ m.place = "asking"
    BY <1>2, <2>1 DEF Fits, Fields
  <2>3. lookup' = [lookup EXCEPT ![r] = m]
    BY <1>4, <2>1 DEF Retry
  <2>4. Started(lookup[r].symbol) \in Fetches
    BY <1>2, StartedTypes DEF HeldTypeOK, Fits
  <2>5. RowsTypeOK'
    BY <1>4, <2>2, <2>3, <2>4, RowTypes DEF Retry, HeldTypeOK
  <2>. QED
    BY <1>4, <2>5 DEF Retry, HeldTypeOK, CachesTypeOK, YahooTypeOK, caches, yahooVars
<1>5. CASE ServedFromCache(r)
  <2>1. fetch[r].found # NoData => fetch[r].found \in Times
    BY <1>2 DEF Fetches
  <2>2. RowsTypeOK' /\ CachesTypeOK' /\ failed' \subseteq Providers
    BY <1>1, <1>5, <2>1, DeliversTypes, SilentTypes DEF ServedFromCache, HeldTypeOK
  <2>. QED
    BY <1>5, <2>2 DEF ServedFromCache, HeldTypeOK, YahooTypeOK, yahooVars
<1>6. CASE Good(r)
  <2>1. RowsTypeOK' /\ CachesTypeOK' /\ failed' = failed
    BY <1>1, <1>6, DeliversTypes DEF Good, HeldTypeOK
  <2>2. YahooTypeOK'
    BY <1>2, <1>6, LookupNumbers DEF Good, HeldTypeOK, YahooTypeOK, Fits
  <2>. QED
    BY <1>6, <2>1, <2>2 DEF Good, HeldTypeOK
<1>7. ASSUME Fails(r), fetch[r].stage # "none",
             chart' \in [LookupSymbols -> [ok : BOOLEAN, since : Times] \cup {NoData}]
      PROVE  HeldTypeOK'
  <2>1. RowsTypeOK' /\ CachesTypeOK' /\ failed' \subseteq Providers
    BY <1>1, <1>7, SilentTypes DEF Fails
  <2>2. health' \in [failures : 0 .. Retries + 1, succeeded : Times \cup {NoData}]
    BY <1>7, LookupNumbers DEF Fails, HeldTypeOK, YahooTypeOK
  <2>. QED
    BY <1>7, <2>1, <2>2 DEF Fails, HeldTypeOK, YahooTypeOK
<1>8. UNCHANGED chart
      => chart' \in [LookupSymbols -> [ok : BOOLEAN, since : Times] \cup {NoData}]
  BY DEF HeldTypeOK, YahooTypeOK
<1>9. CASE Refused(r)
  BY <1>2, <1>7, <1>9 DEF Refused, HeldTypeOK, YahooTypeOK, Fits
<1>10. CASE Odd(r)
  BY <1>7, <1>8, <1>10 DEF Odd
<1>11. ASSUME NEW s \in {"sent", "backoff"}, fetch' = [fetch EXCEPT ![r].stage = s],
              UNCHANGED <<now, lookup, caches, yahooVars, failed>>
       PROVE  HeldTypeOK'
  <2>1. [fetch[r] EXCEPT !.stage = s] \in Fetches
    BY <1>2 DEF Fetches
  <2>2. fetch' = [fetch EXCEPT ![r] = [fetch[r] EXCEPT !.stage = s]]
    BY <1>11
  <2>. QED
    BY <1>11, <2>1, <2>2, StageTypes
<1>12. CASE Send(r)
  BY <1>11, <1>12 DEF Send
<1>13. BacksOff(r) => HeldTypeOK'
  BY <1>11 DEF BacksOff
<1>14. CASE Busy(r)
  BY <1>13, <1>14 DEF Busy
<1>15. CASE Breaks(r)
  BY <1>7, <1>8, <1>13, <1>15 DEF Breaks
<1>16. CASE Back(r)
  <2>1. CASE /\ fetch[r].tries < Retries
             /\ fetch' = [fetch EXCEPT ![r].stage = "waiting", ![r].tries = @ + 1]
             /\ UNCHANGED <<feeds, now, lookup, caches, yahooVars, failed>>
    <3>1. fetch[r].tries + 1 \in 0 .. Retries
      BY <1>2, <2>1, LookupNumbers DEF Fetches
    <3>. DEFINE f == [fetch[r] EXCEPT !.stage = "waiting", !.tries = fetch[r].tries + 1]
    <3>2. f \in Fetches /\ fetch' = [fetch EXCEPT ![r] = f]
      BY <1>2, <2>1, <3>1 DEF Fetches
    <3>. HIDE DEF f
    <3>. QED
      BY <2>1, <3>2, StageTypes
  <2>. QED
    BY <1>7, <1>8, <1>16, <2>1 DEF Back
<1>. QED
  BY <1>3, <1>4, <1>5, <1>6, <1>9, <1>10, <1>12, <1>14, <1>15, <1>16 DEF LookupStep

LEMMA NobodyHolds ==
  /\ Fits(Unasked) /\ Unasked.place = "idle"
  /\ [r \in Lookups |-> NoFetch] \in [Lookups -> Fetches]
<1>1. (CHOOSE s \in LookupSymbols : TRUE) \in LookupSymbols
  BY LookupAssumption
<1>. QED
  BY <1>1, LookupNumbers DEF Fits, Unasked, Fields

LEMMA HeldStart == LookupsInit => HeldTypeOK /\ calls \in 0 .. MaxCalls
BY NobodyHolds, LookupNumbers
DEF LookupsInit, Empty, HeldTypeOK, RowsTypeOK, CachesTypeOK, YahooTypeOK, Times

LEMMA HeldKept ==
  HeldTypeOK /\ ChainInv /\ [LookupsNext]_<<feeds, lookupVars>> => HeldTypeOK'
<1>. SUFFICES ASSUME HeldTypeOK, ChainInv, [LookupsNext]_<<feeds, lookupVars>>
              PROVE  HeldTypeOK'
  OBVIOUS
<1>1. ASSUME NEW r \in Lookups, NEW s \in LookupSymbols,
             NEW kind \in {"tick", "candle", "replay"}, Ask(r, kind, s)
      PROVE  HeldTypeOK'
  <2>1. PICK l : l = [Unasked EXCEPT !.kind = kind, !.symbol = s, !.chain = active,
                                     !.began = now]
    OBVIOUS
  <2>2. Fits(l)
    BY <2>1, NobodyHolds DEF Fits, Fields
  <2>3. RowsTypeOK' /\ CachesTypeOK'
    BY <1>1, <2>1, <2>2, ContinuesTypes DEF Ask
  <2>. QED
    BY <1>1, <2>3 DEF Ask, HeldTypeOK, YahooTypeOK, yahooVars
<1>2. ASSUME now' \in Times, UNCHANGED <<lookup, fetch, yahooVars, failed>>, CachesTypeOK'
      PROVE  HeldTypeOK'
  BY <1>2 DEF HeldTypeOK, RowsTypeOK, YahooTypeOK, yahooVars
<1>3. ASSUME NEW s \in LookupSymbols, NEW p \in Providers, Streamed(s, p)
      PROVE  HeldTypeOK'
  <2>1. [source |-> p, fetched |-> now] \in Data
    BY DEF HeldTypeOK, Data
  <2>2. CachesTypeOK'
    BY <1>3, <2>1, ShownTypes DEF Streamed, HeldTypeOK, CachesTypeOK
  <2>. QED
    BY <1>2, <1>3, <2>2 DEF Streamed, HeldTypeOK
<1>4. ASSUME NEW p \in Providers, StopFeed(p)
      PROVE  HeldTypeOK'
  BY <1>2, <1>4 DEF StopFeed, HeldTypeOK, CachesTypeOK
<1>5. CASE GetFeedStatus \/ Selects
  <2>1. CachesTypeOK'
    BY <1>5, ShownTypes, LookupNumbers DEF GetFeedStatus, Selects, HeldTypeOK, CachesTypeOK
  <2>. QED
    BY <1>2, <1>5, <2>1 DEF GetFeedStatus, Selects, HeldTypeOK
<1>6. CASE Passes
  BY <1>2, <1>6, LookupNumbers DEF Passes, HeldTypeOK, CachesTypeOK, caches, Times
<1>7. CASE RestartLookups
  BY <1>7, NobodyHolds, LookupNumbers
  DEF RestartLookups, HeldTypeOK, RowsTypeOK, CachesTypeOK, YahooTypeOK, Times
<1>8. CASE UNCHANGED <<feeds, lookupVars>>
  BY <1>2, <1>8 DEF lookupVars, caches, HeldTypeOK, CachesTypeOK
<1>9. Streaming \subseteq Providers
  BY LookupAssumption
<1>. QED
  BY <1>1, <1>3, <1>4, <1>5, <1>6, <1>7, <1>8, <1>9, LookupStepTypes DEF LookupsNext, Called

LEMMA CallsCounted ==
  calls \in 0 .. MaxCalls /\ [LookupsNext]_<<feeds, lookupVars>> => calls' \in 0 .. MaxCalls
BY LookupNumbers DEF LookupsNext, Called, lookupVars

(* A lookup that waits is at a place of its list, a request is retried     *)
(* YAHOO_RETRIES times at most, and every cache and record holds what it   *)
(* is read as, however lookups and restarts interleave.                    *)
THEOREM LookupsTypeCorrect == LookupsSpec => []LookupsTypeOK
<1>. DEFINE Counted == calls \in 0 .. MaxCalls
<1>1. HeldTypeOK /\ ChainInv /\ Counted => LookupsTypeOK
  BY DEF HeldTypeOK, RowsTypeOK, Fits, Fetches, CachesTypeOK, YahooTypeOK, ChainInv, Honours,
         LookupsTypeOK
<1>2. LookupsInit => HeldTypeOK /\ Counted
  BY HeldStart
<1>3. Counted /\ [LookupsNext]_<<feeds, lookupVars>> => Counted'
  BY CallsCounted
<1>. HIDE DEF Counted
<1>. QED
  BY <1>1, <1>2, <1>3, HeldKept, ChainsInductive, PTL DEF LookupsSpec
=============================================================================
