-------------------------- MODULE InferenceWorker --------------------------
(***************************************************************************)
(* The manager of the Python inference process                             *)
(* (server/api/pythonInference.js): one process serves all calls, started  *)
(* by the first of them and again by the first that finds it gone.  The    *)
(* events of processes that were given up (lines still in the pipe, late   *)
(* exits) arrive in any order with those of the process that replaced      *)
(* them; the continuations of a promise run before the next event.         *)
(***************************************************************************)
EXTENDS Integers, FiniteSets

CONSTANTS
  Calls,         \* calls of infer
  Procs, NoProc, \* processes that may be spawned (a bound), and null
  MaxRestarts

ASSUME ProcAssumption    == NoProc \notin Procs
ASSUME CallAssumption    == IsFiniteSet(Calls)
ASSUME RestartAssumption == MaxRestarts \in Nat

VARIABLES
  call,      \* where each call is
  awaits,    \* the process whose startup a waiting call awaits
  worker,    \* _worker
  starting,  \* _readyPromise, named by its process
  alive,     \* _workerAlive
  restarts,  \* _restarts
  pending,   \* the keys of _pending
  timers,    \* the calls whose hard timeout is armed
  asked,     \* _totalRequests
  errors,    \* _totalErrors
  process,   \* what has become of each process
  startup,   \* how the promise of each process was settled
  stopped,   \* processes that were sent SIGTERM
  stdin,     \* requests each process has still to answer
  stdout     \* lines of each process that have still to be read

promises == <<call, awaits, pending, timers, asked, errors>>
state    == <<worker, starting, alive, restarts>>
system   == <<process, startup, stopped, stdin, stdout>>
inferenceVars == <<promises, state, system>>

Waiting == {c \in Calls : call[c] = "waiting"}

InferenceTypeOK ==
  /\ call \in [Calls -> {"idle", "waiting", "pending", "ok", "failed", "timed_out"}]
  /\ awaits \in [Calls -> Procs \cup {NoProc}]
  /\ worker \in Procs \cup {NoProc} /\ starting \in Procs \cup {NoProc}
  /\ alive \in BOOLEAN /\ restarts \in Nat /\ asked \in Nat /\ errors \in Nat
  /\ pending \subseteq Calls /\ timers \subseteq Calls
  /\ process \in [Procs -> {"none", "booting", "up", "gone", "reaped"}]
  /\ startup \in [Procs -> {"none", "waiting", "ready", "failed"}]
  /\ stopped \subseteq Procs
  /\ stdin \in [Procs -> SUBSET Calls]
  /\ stdout \in [Procs -> SUBSET (Calls \cup {"ready", "not_ready"})]

InferenceInit ==
  /\ call = [c \in Calls |-> "idle"] /\ awaits = [c \in Calls |-> NoProc]
  /\ worker = NoProc /\ starting = NoProc /\ alive = FALSE
  /\ restarts = 0 /\ asked = 0 /\ errors = 0
  /\ pending = {} /\ timers = {} /\ stopped = {}
  /\ process = [p \in Procs |-> "none"] /\ startup = [p \in Procs |-> "none"]
  /\ stdin = [p \in Procs |-> {}] /\ stdout = [p \in Procs |-> {}]

----------------------------------------------------------------------------
(* Settling calls *)

Settled(S, as) == call' = [c \in Calls |-> IF c \in S THEN as ELSE call[c]]

(* Calls whose worker is ready write to whatever process is the worker by  *)
(* now; without one the write throws and the call fails.                   *)
Ask(S) ==
  /\ asked' = asked + Cardinality(S)
  /\ IF worker = NoProc
     THEN /\ Settled(S, "failed")
          /\ errors' = errors + Cardinality(S)
          /\ UNCHANGED <<pending, timers, stdin>>
     ELSE /\ Settled(S, "pending")
          /\ pending' = pending \cup S /\ timers' = timers \cup S
          /\ stdin' = [stdin EXCEPT ![worker] = @ \cup S]
          /\ UNCHANGED errors

\* Mutant: the timers of the rejected calls stay armed.
RejectAllArmed ==
  /\ Settled(pending, "failed")
  /\ errors' = errors + Cardinality(pending)
  /\ pending' = {}
  /\ UNCHANGED timers

RejectAllPending ==
  /\ Settled(pending, "failed")
  /\ errors' = errors + Cardinality(pending)
  /\ pending' = {} /\ timers' = timers \ pending

----------------------------------------------------------------------------
(* Calls *)

Spawn(p) ==
  /\ process[p] = "none"
  /\ process' = [process EXCEPT ![p] = "booting"]
  /\ startup' = [startup EXCEPT ![p] = "waiting"]
  /\ worker' = p /\ starting' = p /\ alive' = FALSE

InferAlive(c) ==
  /\ call[c] = "idle" /\ alive
  /\ Ask({c})
  /\ UNCHANGED <<awaits, state, process, startup, stopped, stdout>>

Wait(c, p) ==
  /\ call[c] = "idle"
  /\ call' = [call EXCEPT ![c] = "waiting"]
  /\ awaits' = [awaits EXCEPT ![c] = p]
  /\ UNCHANGED <<pending, timers, asked, errors>>

InferStarting(c) ==
  /\ ~alive /\ starting # NoProc
  /\ Wait(c, starting)
  /\ UNCHANGED <<state, system>>

(* A restart is counted while the old process is still the worker.         *)
InferSpawn(c, p) ==
  /\ ~alive /\ starting = NoProc
  /\ \/ worker = NoProc /\ UNCHANGED restarts
     \/ worker # NoProc /\ restarts < MaxRestarts /\ restarts' = restarts + 1
  /\ Wait(c, p) /\ Spawn(p)
  /\ UNCHANGED <<stopped, stdin, stdout>>

InferRefused(c) ==
  /\ call[c] = "idle" /\ ~alive /\ starting = NoProc
  /\ worker # NoProc /\ restarts >= MaxRestarts
  /\ restarts' = restarts + 1
  /\ Settled({c}, "failed")
  /\ UNCHANGED <<awaits, pending, timers, asked, errors, worker, starting, alive, system>>

RequestTimeout(c) ==
  /\ c \in timers
  /\ timers' = timers \ {c} /\ pending' = pending \ {c}
  /\ errors' = errors + 1
  /\ call' = [call EXCEPT ![c] = IF @ = "pending" THEN "timed_out" ELSE @]
  /\ UNCHANGED <<awaits, asked, state, system>>

(* The lines of a process that was shut down are still read, and its calls *)
(* that await its startup are left to its exit.                            *)
Shutdown ==
  /\ starting' = NoProc /\ alive' = FALSE /\ worker' = NoProc
  /\ RejectAllPending
  /\ stopped' = stopped \cup ({worker} \ {NoProc})
  /\ UNCHANGED <<awaits, asked, restarts, process, startup, stdin, stdout>>

----------------------------------------------------------------------------
(* Events of a process *)

Awaiting(p) == {c \in Waiting : awaits[c] = p}

(* The line "ready" resolves the promise, once; later it says nothing.     *)
HearReady(p) ==
  /\ "ready" \in stdout[p]
  /\ stdout' = [stdout EXCEPT ![p] = @ \ {"ready"}]
  /\ IF startup[p] = "waiting"
     THEN /\ startup' = [startup EXCEPT ![p] = "ready"]
          /\ alive' = TRUE
          /\ Ask(Awaiting(p))
     ELSE UNCHANGED <<startup, alive, call, pending, timers, asked, errors, stdin>>
  /\ UNCHANGED <<awaits, worker, starting, restarts, process, stopped>>

\* Mutant: the startup fails but its promise stays unsettled.
FailStartupSilent(p) ==
  /\ startup' = [startup EXCEPT ![p] = "failed"]
  /\ alive' = FALSE /\ starting' = NoProc
  /\ stopped' = stopped \cup {p}
  /\ UNCHANGED call

FailStartup(p) ==
  /\ startup' = [startup EXCEPT ![p] = "failed"]
  /\ alive' = FALSE /\ starting' = NoProc
  /\ stopped' = stopped \cup {p}
  /\ Settled(Awaiting(p), "failed")

HearNotReady(p) ==
  /\ "not_ready" \in stdout[p]
  /\ stdout' = [stdout EXCEPT ![p] = @ \ {"not_ready"}]
  /\ IF startup[p] = "waiting"
     THEN FailStartup(p)
     ELSE UNCHANGED <<startup, alive, starting, stopped, call>>
  /\ UNCHANGED <<awaits, pending, timers, asked, errors, worker, restarts, process, stdin>>

StartupTimeout(p) ==
  /\ startup[p] = "waiting"
  /\ FailStartup(p)
  /\ UNCHANGED <<awaits, pending, timers, asked, errors, worker, restarts, process, stdin, stdout>>

(* An answer settles its call unless the call has been settled before.     *)
HearAnswer(p, c, ok) ==
  /\ c \in stdout[p] /\ "ready" \notin stdout[p]
  /\ stdout' = [stdout EXCEPT ![p] = @ \ {c}]
  /\ pending' = pending \ {c}
  /\ IF c \in pending
     THEN /\ timers' = timers \ {c}
          /\ Settled({c}, IF ok THEN "ok" ELSE "failed")
          /\ errors' = IF ok THEN errors ELSE errors + 1
     ELSE UNCHANGED <<timers, call, errors>>
  /\ UNCHANGED <<awaits, asked, state, process, startup, stopped, stdin>>

(* Whichever process ends, the state of the current one is cleared. *)
Cleared == worker' = NoProc /\ alive' = FALSE

Ended(p) ==
  /\ process' = [process EXCEPT ![p] = "reaped"]
  /\ Cleared
  /\ IF startup[p] = "waiting"
     THEN /\ startup' = [startup EXCEPT ![p] = "failed"]
          /\ stopped' = stopped \cup {p}
          /\ Settled(Awaiting(p), "failed")
          /\ UNCHANGED <<pending, timers, errors>>
     ELSE RejectAllPending /\ UNCHANGED <<startup, stopped>>
  /\ starting' = NoProc
  /\ UNCHANGED <<awaits, asked, restarts, stdin, stdout>>

ExitEvent(p)  == process[p] = "gone" /\ Ended(p)
SpawnError(p) == process[p] = "booting" /\ Ended(p)

----------------------------------------------------------------------------
(* The processes themselves (server/ai/inference/infer_worker.py) *)

Boots(p, line) ==
  /\ process[p] = "booting"
  /\ process' = [process EXCEPT ![p] = IF line = "ready" THEN "up" ELSE "gone"]
  /\ stdout' = [stdout EXCEPT ![p] = @ \cup {line}]
  /\ UNCHANGED <<promises, state, startup, stopped, stdin>>

Answers(p, c) ==
  /\ process[p] = "up" /\ c \in stdin[p]
  /\ stdin' = [stdin EXCEPT ![p] = @ \ {c}]
  /\ stdout' = [stdout EXCEPT ![p] = @ \cup {c}]
  /\ UNCHANGED <<promises, state, process, startup, stopped>>

(* It crashes, or ends because it was told to. *)
Exits(p) ==
  /\ process[p] \in {"booting", "up"}
  /\ process' = [process EXCEPT ![p] = "gone"]
  /\ UNCHANGED <<promises, state, startup, stopped, stdin, stdout>>

----------------------------------------------------------------------------

CallStep(c) ==
  \/ InferAlive(c) \/ InferStarting(c) \/ InferRefused(c) \/ RequestTimeout(c)
  \/ \E p \in Procs : InferSpawn(c, p)

ProcStep(p) ==
  \/ HearReady(p) \/ HearNotReady(p) \/ StartupTimeout(p)
  \/ ExitEvent(p) \/ SpawnError(p) \/ Exits(p)
  \/ \E line \in {"ready", "not_ready"} : Boots(p, line)
  \/ \E c \in Calls : Answers(p, c) \/ \E ok \in BOOLEAN : HearAnswer(p, c, ok)

InferenceNext ==
  \/ \E c \in Calls : CallStep(c)
  \/ \E p \in Procs : ProcStep(p)
  \/ Shutdown

(* Timers fire; processes and pipes promise nothing. *)
InferenceFairness ==
  /\ \A c \in Calls : WF_inferenceVars(RequestTimeout(c))
  /\ \A p \in Procs : WF_inferenceVars(StartupTimeout(p))

InferenceSpec == InferenceInit /\ [][InferenceNext]_inferenceVars /\ InferenceFairness

----------------------------------------------------------------------------
(* Properties *)

(* Every request that was asked is pending, answered or counted as an      *)
(* error, once: no call is settled twice, by a timer and an exit or by an  *)
(* exit and a shutdown.                                                    *)
Accounted ==
  asked = Cardinality(pending) + Cardinality({c \in Calls : call[c] = "ok"}) + errors

(* No caller is stranded: a call that waits, waits for a promise that is   *)
(* not settled, and one that was asked has an armed timer.                 *)
NoneStranded ==
  /\ \A c \in Waiting : startup[awaits[c]] = "waiting"
  /\ pending = {c \in Calls : call[c] = "pending"} /\ timers = pending

(* health() reports a living worker only while some process that became    *)
(* ready has not been seen to exit.                                        *)
HealthHonest ==
  alive => \E p \in Procs : startup[p] = "ready" /\ process[p] \in {"up", "gone"}

(* Calls, timers and health agree with each other and with the processes   *)
(* (settleRequest, the exit handler, shutdown, health).                    *)
InferenceHonest == Accounted /\ NoneStranded /\ HealthHonest

(* Every call is settled, whatever the processes do. *)
CallsSettle == \A c \in Calls : call[c] \in {"waiting", "pending"} ~> call[c] \notin {"waiting", "pending"}

(* "concurrent callers can await the same promise instead of spawning      *)
(* twice": of the processes that are starting at most one is wanted.       *)
OneStarting == Cardinality({p \in Procs : startup[p] = "waiting"} \ stopped) <= 1
=============================================================================
