------------------------------- MODULE Feeds -------------------------------
(***************************************************************************)
(* Which market data providers are in use (server/feeds/feedManager.js,    *)
(* server/feeds/providers/credentialStore.js and                           *)
(* server/persistence/activeProviderStore.js).  The ordered list of active *)
(* providers follows what clients select and the keys they save or delete, *)
(* is written to a file by every change and read again by a restart, which *)
(* may come with other environment variables.  Every operation runs        *)
(* without an await; both files are written in the call that changes them. *)
(***************************************************************************)
EXTENDS Filter, FiniteSets

CONSTANTS
  Providers,     \* the provider registry
  Keyed,         \* those with requiresCredentials
  Gateway,       \* those that also need a session at a local gateway
  Demo,          \* fallback_demo
  Default,       \* DEFAULT_DATA_PROVIDER
  KeyInputs,     \* providers that clients save and delete keys for (a bound)
  Selections,    \* lists that clients select (a bound)
  Environments   \* what the environment variables hold for each keyed provider

ASSUME ProviderAssumption ==
  /\ Gateway \subseteq Keyed /\ Keyed \subseteq Providers
  /\ Demo \in Providers \ Keyed /\ Default \in Providers
  /\ KeyInputs \subseteq Providers
ASSUME SelectionAssumption == Selections \subseteq Seq(Providers)
ASSUME EnvironmentAssumption ==
  Environments \subseteq [Keyed -> {"none", "key", "session"}]

VARIABLES
  active,       \* activeProviders, in order
  enabled,      \* the providers that enabledByProvider holds as true
  record,       \* the key saved for each provider: none, enabled or disabled
  environment,  \* the variables this process was started with
  file          \* the list in activeProviders.json, empty when there is none

feeds == <<active, enabled, record, environment, file>>

Members(list) == {list[i] : i \in DOMAIN list}
Unrepeated(list) == \A i, j \in DOMAIN list : list[i] = list[j] => i = j

FeedsTypeOK ==
  /\ active \in Seq(Providers) /\ Unrepeated(active) /\ active # <<>>
  /\ file \in Seq(Providers)
  /\ enabled \subseteq Providers
  /\ record \in [Providers -> {"none", "on", "off"}]
  /\ environment \in Environments

----------------------------------------------------------------------------
(* Credentials: a saved and enabled key comes before the environment.      *)

HasKey(p, rec, env) == rec[p] = "on" \/ (p \in Keyed /\ env[p] # "none")

(* The session of a gateway is known from the environment only, and a      *)
(* saved key hides it.                                                     *)
Usable(p, rec, env) ==
  \/ p \notin Keyed
  \/ p \notin Gateway /\ HasKey(p, rec, env)
  \/ p \in Gateway /\ rec[p] # "on" /\ env[p] = "session"

Viable(list, rec, env) == Filtered(list, {p \in Providers : Usable(p, rec, env)})

----------------------------------------------------------------------------
(* The active list *)

(* resolveActiveState: the usable providers of a list, or the demo alone.  *)
Resolved(list, rec, env) ==
  LET viable == Viable(list, rec, env)
  IN  IF viable = <<>> THEN <<Demo>> ELSE viable

(* What resolveActiveState leaves enabled: the list as requested, whether  *)
(* usable or not.                                                          *)
EnabledFor(list, rec, env) ==
  IF Viable(list, rec, env) = <<>> THEN {Demo} ELSE Members(list)

(* The list that validateActiveProviderSelection makes of providers and    *)
(* providerOrder: nothing in it is repeated, unknown or unusable.          *)
SaveActiveProviders(list) ==
  /\ list # <<>> /\ Unrepeated(list)
  /\ \A p \in Members(list) : Usable(p, record, environment)
  /\ active' = list /\ enabled' = Members(list) /\ file' = list
  /\ UNCHANGED <<record, environment>>

StartFeed(p) ==
  /\ active' = Resolved(<<p>>, record, environment)
  /\ enabled' = EnabledFor(<<p>>, record, environment)
  /\ file' = active'
  /\ UNCHANGED <<record, environment>>

(* A key that is empty deletes the record and one that is disabled hides   *)
(* it; neither takes the provider off the list.                            *)
SetProviderCredentials(p, key) ==
  /\ record' = [record EXCEPT ![p] = key]
  /\ IF HasKey(p, record', environment) /\ p \notin Members(active)
     THEN /\ active' = Append(active, p)
          /\ enabled' = enabled \cup {p}
          /\ file' = active'
     ELSE UNCHANGED <<active, enabled, file>>
  /\ UNCHANGED environment

(* What is left of the list without p. *)
\* Mutant: nothing replaces the last provider.
WithoutBare(p) == Filtered(active, Providers \ {p})

Without(p) ==
  LET left == Filtered(active, Providers \ {p})
  IN  IF left = <<>> THEN <<Demo>> ELSE left

\* Mutant: the list without p is not written.
DroppedUnsaved(p) ==
  /\ active' = Without(p)
  /\ enabled' = (enabled \ {p}) \cup (IF Members(active) = {p} THEN {Demo} ELSE {})
  /\ UNCHANGED file

Dropped(p) ==
  /\ active' = Without(p)
  /\ enabled' = (enabled \ {p}) \cup (IF Members(active) = {p} THEN {Demo} ELSE {})
  /\ file' = active'

ClearProviderCredentials(p) ==
  /\ record' = [record EXCEPT ![p] = "none"]
  /\ IF p \in Keyed /\ ~HasKey(p, record', environment) /\ p \in Members(active)
     THEN Dropped(p)
     ELSE UNCHANGED <<active, enabled, file>>
  /\ UNCHANGED environment

----------------------------------------------------------------------------
(* The process starts: the file's list, or the default without a file.     *)

Requested == IF file = <<>> THEN <<Default>> ELSE file

RestartFeeds(env) ==
  /\ environment' = env
  /\ active' = Resolved(Requested, record, env)
  /\ enabled' = EnabledFor(Requested, record, env)
  /\ file' = active'
  /\ UNCHANGED record

FeedsInit ==
  /\ environment \in Environments
  /\ record = [p \in Providers |-> "none"]
  /\ active = Resolved(<<Default>>, record, environment)
  /\ enabled = EnabledFor(<<Default>>, record, environment)
  /\ file = active

FeedsCall ==
  \/ \E list \in Selections : SaveActiveProviders(list)
  \/ \E p \in Providers : StartFeed(p)
  \/ \E p \in KeyInputs, key \in {"none", "on", "off"} : SetProviderCredentials(p, key)
  \/ \E p \in KeyInputs : ClearProviderCredentials(p)

FeedsRestart == \E env \in Environments : RestartFeeds(env)

FeedsNext == FeedsCall \/ FeedsRestart

FeedsSpec == FeedsInit /\ [][FeedsNext]_feeds

----------------------------------------------------------------------------
(* Properties *)

(* A restart keeps the list in use, in its order, less the providers that  *)
(* the new environment leaves without credentials, however the list came   *)
(* about: each operation has written the file it changed.                  *)
RestartKeepsSelection ==
  [][\A env \in Environments :
       RestartFeeds(env) => active' = Resolved(active, record, env)]_feeds

(* The demo enters the list silently only when no provider of it remains   *)
(* usable (feedManager.js:99): a deleted key or a restart never mixes      *)
(* synthetic prices with a provider that works.                            *)
DemoNeverSlipsIn ==
  [][ /\ Demo \in Members(active') \ Members(active)
      /\ ~\E list \in Selections : SaveActiveProviders(list)
      /\ ~\E p \in Providers : StartFeed(p)
      /\ ~\E key \in {"none", "on", "off"} : SetProviderCredentials(Demo, key)
      => /\ active' = <<Demo>>
         /\ \A p \in Members(active) : ~Usable(p, record', environment') ]_feeds

(* The list in use changes by selections, keys and the environment alone,  *)
(* whatever restarts there are (feedManager.js).                           *)
SelectionKept == RestartKeepsSelection /\ DemoNeverSlipsIn
=============================================================================
