-------------------------- MODULE PredictionService --------------------------
(***************************************************************************)
(* The Python wrapper of the inference process                             *)
(* (server/ai/inference/prediction_service.py): callers of predict block   *)
(* in threads of their own, each process has a reader thread and a         *)
(* watchdog thread, and any caller that finds the process dead stops and   *)
(* starts the service.  Only the slots and the counters are under locks.   *)
(* Spawning a process, telling the service that it runs and the first      *)
(* statement of the process's reader are steps of their own: other threads *)
(* may run between them, and spawn as well.                                *)
(***************************************************************************)
EXTENDS Integers, FiniteSets

CONSTANTS
  Callers,      \* threads that call predict, once each
  Operators,    \* threads that call stop, once each
  MaxWorkers    \* processes that may be spawned: a bound

ASSUME CallerAssumption == Operators \cap Callers = {} /\ IsFiniteSet(Callers)
ASSUME WorkerAssumption == MaxWorkers \in Nat

Threads == Callers \cup Operators
Workers == 1 .. MaxWorkers

VARIABLES
  at,         \* where each thread is
  after,      \* what a thread in stop goes on with
  running,    \* _running
  halted,     \* _stop_event
  ready,      \* _ready_event
  current,    \* _process: the process spawned last, or 0
  spawned,    \* how many processes there have been
  life,       \* what has become of each process
  closed,     \* processes whose stdin stop has closed
  inbox,      \* requests each process has still to answer
  outbox,     \* lines of each process that have still to be read
  reader,     \* the reader thread started for each process
  pipe,       \* the process that this thread reads, or 0
  watchdog,   \* the watchdog thread started with each process
  slots,      \* the keys of _pending
  result,     \* what the slot of each call holds
  target,     \* the process a waiting call has written to
  missed,     \* the readers that had ended when a call was registered: history
  requests, failures   \* _total_requests, _total_errors

service == <<running, halted, ready, current>>
workers == <<spawned, life, closed, inbox, outbox, reader, pipe, watchdog>>
calls   == <<slots, result, target, missed, requests, failures>>
serviceVars == <<at, after, service, workers, calls>>

Ended    == {"done", "crashed"}
Returned == {"answered", "failed", "lost", "raised"}

ServiceInit ==
  /\ at = [t \in Threads |-> "idle"] /\ after = [t \in Threads |-> "start"]
  /\ running = FALSE /\ halted = FALSE /\ ready = FALSE /\ current = 0 /\ spawned = 0
  /\ life = [w \in Workers |-> "none"] /\ closed = {}
  /\ inbox = [w \in Workers |-> {}] /\ outbox = [w \in Workers |-> {}]
  /\ reader = [w \in Workers |-> "none"] /\ pipe = [w \in Workers |-> 0]
  /\ watchdog = [w \in Workers |-> "none"]
  /\ slots = {} /\ result = [c \in Callers |-> "none"] /\ target = [c \in Callers |-> 0]
  /\ missed = [c \in Callers |-> {}] /\ requests = 0 /\ failures = 0

Living(w) == w \in Workers /\ life[w] \in {"booting", "up"}

Goes(t, place) == at' = [at EXCEPT ![t] = place]

----------------------------------------------------------------------------
(* stop and start, run by whichever thread needs them.                     *)

StopBegins(t) ==
  /\ at[t] = "stop"
  /\ running' = FALSE /\ halted' = TRUE
  /\ IF Living(current)
     THEN closed' = closed \cup {current} /\ Goes(t, "reap")
     ELSE Goes(t, "drain") /\ UNCHANGED closed
  /\ UNCHANGED <<after, ready, current, spawned, life, inbox, outbox, reader, pipe, watchdog, calls>>

(* What is the process by now has five seconds to end, then it is killed. *)
StopReaps(t) ==
  /\ at[t] = "reap"
  /\ life' = [w \in Workers |-> IF w = current THEN "dead" ELSE life[w]]
  /\ inbox' = [w \in Workers |-> IF w = current THEN {} ELSE inbox[w]]
  /\ Goes(t, "drain")
  /\ UNCHANGED <<after, service, spawned, closed, outbox, reader, pipe, watchdog, calls>>

StopDrains(t) ==
  /\ at[t] = "drain"
  /\ result' = [c \in Callers |-> IF c \in slots THEN "error" ELSE result[c]]
  /\ slots' = {}
  /\ Goes(t, after[t])
  /\ UNCHANGED <<after, service, workers, target, missed, requests, failures>>

(* Whoever finds the service started by another thread does not wait. *)
StartBegins(c) ==
  /\ at[c] = "start"
  /\ IF running THEN Goes(c, "register") /\ UNCHANGED <<halted, ready>>
                ELSE Goes(c, "spawn") /\ halted' = FALSE /\ ready' = FALSE
  /\ UNCHANGED <<after, running, current, workers, calls>>

SpawnWorker ==
  LET w == spawned + 1
  IN /\ w \in Workers
     /\ spawned' = w /\ current' = w
     /\ life' = [life EXCEPT ![w] = "booting"]
     /\ reader' = [reader EXCEPT ![w] = "starting"]
     /\ UNCHANGED <<closed, inbox, outbox, pipe, calls>>

StartSpawns(c) ==
  /\ at[c] = "spawn" /\ SpawnWorker
  /\ watchdog' = [watchdog EXCEPT ![spawned'] = "watching"]
  /\ Goes(c, "launch")
  /\ UNCHANGED <<after, running, halted, ready>>

StartRuns(c) ==
  /\ at[c] = "launch"
  /\ running' = TRUE /\ Goes(c, "await")
  /\ UNCHANGED <<after, halted, ready, current, workers, calls>>

(* The system may refuse another process; the call raises. *)
StartFails(c) ==
  /\ at[c] = "spawn" /\ Goes(c, "raised")
  /\ UNCHANGED <<after, service, workers, calls>>

StartEnds(c) ==
  /\ at[c] = "await" /\ ready /\ Goes(c, "register")
  /\ UNCHANGED <<after, service, workers, calls>>

StartTimesOut(c) ==
  /\ at[c] = "await" /\ ~ready
  /\ Goes(c, "stop") /\ after' = [after EXCEPT ![c] = "raised"]
  /\ UNCHANGED <<service, workers, calls>>

----------------------------------------------------------------------------
(* predict *)

Predict(c) ==
  /\ at[c] = "idle"
  /\ Goes(c, IF running /\ Living(current) THEN "register" ELSE "stop")
  /\ UNCHANGED <<after, service, workers, calls>>

OperatorStops(o) ==
  /\ at[o] = "idle"
  /\ Goes(o, "stop") /\ after' = [after EXCEPT ![o] = "answered"]
  /\ UNCHANGED <<service, workers, calls>>

Register(c) ==
  /\ at[c] = "register" /\ Goes(c, "write")
  /\ slots' = slots \cup {c} /\ requests' = requests + 1
  /\ missed' = [missed EXCEPT ![c] = {r \in Workers : reader[r] \in Ended}]
  /\ UNCHANGED <<after, service, workers, result, target, failures>>

(* A broken pipe fails the call.  A pipe that stop has closed raises an    *)
(* error that predict does not handle: the slot stays.                     *)
Write(c) ==
  /\ at[c] = "write"
  /\ \/ /\ Living(current) /\ current \notin closed
        /\ inbox' = [inbox EXCEPT ![current] = @ \cup {c}]
        /\ target' = [target EXCEPT ![c] = current]
        /\ Goes(c, "wait") /\ UNCHANGED <<slots, failures>>
     \/ /\ ~Living(current) /\ current \notin closed
        /\ slots' = slots \ {c} /\ failures' = failures + 1
        /\ Goes(c, "failed") /\ UNCHANGED <<inbox, target>>
     \/ current \in closed /\ Goes(c, "lost") /\ UNCHANGED <<inbox, target, slots, failures>>
  /\ UNCHANGED <<after, service, spawned, life, closed, outbox, reader, pipe, watchdog, result, missed, requests>>

Returns(c) ==
  /\ at[c] = "wait" /\ result[c] # "none"
  /\ Goes(c, IF result[c] = "ok" THEN "answered" ELSE "failed")
  /\ failures' = IF result[c] = "ok" THEN failures ELSE failures + 1
  /\ target' = [target EXCEPT ![c] = 0]
  /\ UNCHANGED <<after, service, workers, slots, result, missed, requests>>

TimesOut(c) ==
  /\ at[c] = "wait" /\ result[c] = "none"
  /\ slots' = slots \ {c} /\ failures' = failures + 1 /\ Goes(c, "failed")
  /\ target' = [target EXCEPT ![c] = 0]
  /\ UNCHANGED <<after, service, workers, result, missed, requests>>

----------------------------------------------------------------------------
(* The readers and the watchdogs *)

(* What a reader reads is the process there is when it comes to run: its   *)
(* own, or a later one, which then has two readers.                        *)
ReaderOpens(r) ==
  /\ reader[r] = "starting"
  /\ reader' = [reader EXCEPT ![r] = "reading"] /\ pipe' = [pipe EXCEPT ![r] = current]
  /\ UNCHANGED <<at, after, service, spawned, life, closed, inbox, outbox, watchdog, calls>>

Read(r, line) ==
  /\ reader[r] = "reading" /\ line \in outbox[pipe[r]]
  /\ outbox' = [outbox EXCEPT ![pipe[r]] = @ \ {line}]

(* The line of a failed startup sets the same event as that of readiness. *)
ReadReadiness(r, line) ==
  /\ line \in {"ready", "not_ready"} /\ Read(r, line)
  /\ ready' = TRUE
  /\ UNCHANGED <<at, after, running, halted, current, spawned, life, closed, inbox, reader, pipe, watchdog, calls>>

ReadAnswer(r, c, outcome) ==
  /\ Read(r, c) /\ "ready" \notin outbox[pipe[r]]
  /\ slots' = slots \ {c}
  /\ result' = IF c \in slots THEN [result EXCEPT ![c] = outcome] ELSE result
  /\ UNCHANGED <<at, after, service, spawned, life, closed, inbox, reader, pipe, watchdog,
                 target, missed, requests, failures>>

(* A reader is done at the end of its pipe.  It crashes on a line that is  *)
(* JSON but no object, whatever its process goes on to do.                 *)
ReaderStops(r) ==
  /\ reader[r] = "reading"
  /\ \/ /\ ~Living(pipe[r]) /\ outbox[pipe[r]] = {}
        /\ reader' = [reader EXCEPT ![r] = "done"]
     \/ reader' = [reader EXCEPT ![r] = "crashed"]
  /\ UNCHANGED <<at, after, service, spawned, life, closed, inbox, outbox, pipe, watchdog,
                 slots, target, missed, requests, failures>>

\* Mutant: the callers are left to their time-outs.
ReaderEndsSilent(r) == ReaderStops(r) /\ UNCHANGED result

(* Then whatever is pending fails, but keeps its slot. *)
ReaderEnds(r) ==
  /\ ReaderStops(r)
  /\ result' = [c \in Callers |-> IF c \in slots /\ result[c] = "none" THEN "error" ELSE result[c]]

(* A watchdog looks at the process there is, be it its own or a later one. *)
WatchdogWakes(w) ==
  /\ watchdog[w] = "watching"
  /\ halted \/ ~Living(current)
  /\ watchdog' = [watchdog EXCEPT ![w] = IF ~halted /\ running THEN "spawning" ELSE "done"]
  /\ ready' = IF ~halted /\ running THEN FALSE ELSE ready
  /\ UNCHANGED <<at, after, running, halted, current, spawned, life, closed, inbox, outbox, reader, pipe, calls>>

WatchdogSpawns(w) ==
  /\ watchdog[w] = "spawning" /\ SpawnWorker
  /\ watchdog' = [watchdog EXCEPT ![w] = "done", ![spawned'] = "watching"]
  /\ UNCHANGED <<at, after, running, halted, ready>>

(* The system may refuse here too. *)
WatchdogFails(w) ==
  /\ watchdog[w] = "spawning" /\ watchdog' = [watchdog EXCEPT ![w] = "done"]
  /\ UNCHANGED <<at, after, service, spawned, life, closed, inbox, outbox, reader, pipe, calls>>

----------------------------------------------------------------------------
(* The process (server/ai/inference/infer_worker.py) *)

(* Without metadata, or without the champion's artifact, it ends at once. *)
WorkerBoots(w, line) ==
  /\ life[w] = "booting"
  /\ life' = [life EXCEPT ![w] = IF line = "ready" THEN "up" ELSE "dead"]
  /\ outbox' = [outbox EXCEPT ![w] = @ \cup {line}]
  /\ UNCHANGED <<at, after, service, spawned, closed, inbox, reader, pipe, watchdog, calls>>

WorkerAnswers(w, c) ==
  /\ life[w] = "up" /\ c \in inbox[w]
  /\ inbox' = [inbox EXCEPT ![w] = @ \ {c}]
  /\ outbox' = [outbox EXCEPT ![w] = @ \cup {c}]
  /\ UNCHANGED <<at, after, service, spawned, life, closed, reader, pipe, watchdog, calls>>

WorkerDies(w) ==
  /\ Living(w)
  /\ life' = [life EXCEPT ![w] = "dead"] /\ inbox' = [inbox EXCEPT ![w] = {}]
  /\ UNCHANGED <<at, after, service, spawned, closed, outbox, reader, pipe, watchdog, calls>>

----------------------------------------------------------------------------

StopStep(t) == StopBegins(t) \/ StopReaps(t) \/ StopDrains(t)

Proceeds(c) ==
  \/ StopStep(c) \/ StartBegins(c) \/ StartSpawns(c) \/ StartRuns(c)
  \/ StartFails(c) \/ StartEnds(c) \/ StartTimesOut(c)
  \/ Register(c) \/ Write(c) \/ Returns(c) \/ TimesOut(c)

WorkerStep(w) ==
  \/ ReaderOpens(w) \/ ReaderEnds(w)
  \/ WatchdogWakes(w) \/ WatchdogSpawns(w) \/ WatchdogFails(w) \/ WorkerDies(w)
  \/ \E line \in {"ready", "not_ready"} : WorkerBoots(w, line) \/ ReadReadiness(w, line)
  \/ \E c \in Callers : WorkerAnswers(w, c) \/ \E outcome \in {"ok", "error"} : ReadAnswer(w, c, outcome)

ServiceNext ==
  \/ \E c \in Callers : Predict(c) \/ Proceeds(c)
  \/ \E o \in Operators : OperatorStops(o) \/ StopStep(o)
  \/ \E w \in Workers : WorkerStep(w)

ServiceSpec == ServiceInit /\ [][ServiceNext]_serviceVars

----------------------------------------------------------------------------
(* Properties *)

(* Only processes that were spawned are anything, and a reader that reads  *)
(* has its own process or one that was spawned later.                      *)
ServiceTypeOK ==
  /\ at \in [Threads -> Returned \cup {"idle", "stop", "reap", "drain", "start", "spawn", "launch", "await",
                                       "register", "write", "wait"}]
  /\ current \in 0 .. spawned /\ spawned \in 0 .. MaxWorkers
  /\ \A w \in Workers :
       /\ (life[w] = "none") = (w > spawned) /\ (reader[w] = "none") = (w > spawned)
       /\ reader[w] \in {"reading"} \cup Ended => pipe[w] \in w .. spawned
  /\ slots \subseteq Callers /\ target \in [Callers -> 0 .. spawned]
  /\ result \in [Callers -> {"none", "ok", "error"}]

(* The end of a reader (_stdout_reader) fails every call registered by     *)
(* then, whatever process it waits for, however deaths, restarts, stops    *)
(* and crossed readers are interleaved: a call without a result was        *)
(* registered after each reader that has ended.  And it does not wait for  *)
(* a process of which a reader has seen the end.  What may wait in vain,   *)
(* until its timeout, is a call that wrote to a process whose reader had   *)
(* crashed before, or had taken another process.                           *)
DeathAnswers ==
  \A c \in Callers : at[c] = "wait" /\ result[c] = "none" =>
    \A r \in Workers : reader[r] \in Ended =>
      r \in missed[c] /\ (pipe[r] = target[c] => reader[r] = "crashed")

(* Each request that was counted (predict) is in flight, was answered, is  *)
(* counted as an error, or was lost: the pipe it wrote to had been closed  *)
(* by a stop, which raises an error that is not counted.  None is counted  *)
(* twice.                                                                  *)
CountedOnce ==
  LET In(places) == Cardinality({c \in Callers : at[c] \in places})
  IN requests = In({"write", "wait", "answered", "lost"}) + failures

(* A call is answered for once (predict, _stdout_reader): not left waiting *)
(* when a reader ends, and not counted twice.                              *)
CallsAccounted == DeathAnswers /\ CountedOnce
=============================================================================
