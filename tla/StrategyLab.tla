----------------------------- MODULE StrategyLab -----------------------------
(***************************************************************************)
(* The strategy lab (server/strategyLab/strategyLabEngine.js,              *)
(* strategyLabStore.js, savedStrategy.js, api/strategyLabRoutes.js).  A    *)
(* strategy is saved in MongoDB, or in the memory of the process when      *)
(* there is no connection or the operation fails.  Results are attached by *)
(* reading the strategy, awaiting it, and writing back the fields with the *)
(* result added: attachments of one strategy may overlap.                  *)
(*                                                                         *)
(* The two stores know a strategy by ids of different shapes: with a       *)
(* connection, an id of the memory store is not even looked for; without   *)
(* one, an id of MongoDB is looked for in memory and not found.            *)
(***************************************************************************)
EXTENDS Integers, Sequences

CONSTANTS
  MongoIds, MemoryIds,   \* ids are never used again
  Unused, Gone,
  Attachments,           \* requests to attach a result that may be under way at once
  MaxResults             \* bound: results attached

ASSUME ResultAssumption == MaxResults \in Nat

VARIABLES
  connected,    \* the connection to MongoDB is ready
  mongo,        \* the strategies in MongoDB
  memory,       \* the strategies in memory
  attaching,    \* each attachment under way, and the strategy it has read
  results,      \* how many results have been given a number
  kept,         \* results whose request was answered with the strategy
  raced         \* results written while another of their kind had read the strategy

labVars == <<connected, mongo, memory, attaching, results, kept, raced>>

ResultKinds == {"backtest", "validation"}

(* A validation says whether it met the criteria: an accepted status and a *)
(* score of 70 or more.                                                    *)
Result == [number : 1 .. MaxResults, met : BOOLEAN]

(* "draft" stands for research_only too. *)
Strategy == [status : {"draft", "needs_validation", "validated"},
             backtest : Seq(Result), validation : Seq(Result)]

ASSUME MarkAssumption == Unused # Gone /\ Unused \notin Strategy /\ Gone \notin Strategy

NoAttachment == [at |-> "idle"]

Living(store) == {id \in DOMAIN store : store[id] \notin {Unused, Gone}}

LabTypeOK ==
  /\ connected \in BOOLEAN
  /\ \A id \in Living(mongo) : mongo[id] \in Strategy
  /\ \A id \in Living(memory) : memory[id] \in Strategy
  /\ \A a \in Attachments : attaching[a].at # "idle" =>
       /\ attaching[a].at \in {"finding", "updating", "written", "lost"}
       /\ attaching[a].id \in MongoIds /\ attaching[a].kind \in ResultKinds
  /\ results \in 0 .. MaxResults
  /\ kept \subseteq MongoIds \X ResultKinds \X (1 .. MaxResults)
  /\ raced \subseteq 1 .. MaxResults

LabInit ==
  /\ connected \in BOOLEAN
  /\ mongo = [id \in MongoIds |-> Unused] /\ memory = [id \in MemoryIds |-> Unused]
  /\ attaching = [a \in Attachments |-> NoAttachment]
  /\ results = 0 /\ kept = {} /\ raced = {}

----------------------------------------------------------------------------
(* Saving and removing.  Nothing is under way between an operation of one  *)
(* step and its effect on the database.                                    *)

(* No strategy is saved as validated. *)
Saved(status) == [status |-> status, backtest |-> <<>>, validation |-> <<>>]

SavedStatuses == {"draft", "needs_validation"}

Put(store, status) == {[store EXCEPT ![id] = Saved(status)] : id \in {x \in DOMAIN store : store[x] = Unused}}

(* When the operation fails the strategy goes to memory; it may have       *)
(* reached MongoDB all the same, under another id.                         *)
Save(status) ==
  /\ \/ connected /\ mongo' \in Put(mongo, status) /\ UNCHANGED memory
     \/ ~connected /\ memory' \in Put(memory, status) /\ UNCHANGED mongo
     \/ connected /\ memory' \in Put(memory, status) /\ mongo' \in Put(mongo, status) \cup {mongo}
  /\ UNCHANGED <<connected, attaching, results, kept, raced>>

Removed(store, ids) == [id \in DOMAIN store |-> IF id \in ids \cap Living(store) THEN Gone ELSE store[id]]

Delete(id) ==
  /\ \/ connected /\ id \in Living(mongo) /\ mongo' = Removed(mongo, {id}) /\ UNCHANGED memory
     \/ ~connected /\ id \in Living(memory) /\ memory' = Removed(memory, {id}) /\ UNCHANGED mongo
  /\ UNCHANGED <<connected, attaching, results, kept, raced>>

(* All strategies of a symbol are removed.  A failure that may come after  *)
(* the effect is followed by the removal of those in memory.               *)
Clear ==
  /\ \/ connected /\ mongo' = Removed(mongo, MongoIds) /\ memory' \in {memory, Removed(memory, MemoryIds)}
     \/ mongo' = mongo /\ memory' = Removed(memory, MemoryIds)
  /\ UNCHANGED <<connected, attaching, results, kept, raced>>

----------------------------------------------------------------------------
(* Attaching a result.  Whether it met the criteria is asked of a          *)
(* validation only.                                                        *)

Criteria(kind) == IF kind = "validation" THEN BOOLEAN ELSE {FALSE}

(* The fields that an attachment writes: its list, and with a validation   *)
(* the status.  seen: the strategy that was read.                          *)
StatusAfter(seen, kind, met) ==
  IF kind = "backtest" THEN seen.status ELSE IF met THEN "validated" ELSE "needs_validation"

\* Mutant: the strategy is written back whole, as it was read.
AttachedWhole(now, seen, kind, result) ==
  IF kind = "backtest"
    THEN [seen EXCEPT !.backtest = Append(@, result)]
    ELSE [seen EXCEPT !.validation = Append(@, result),
                      !.status = StatusAfter(seen, kind, result.met)]

Attached(now, seen, kind, result) ==
  IF kind = "backtest"
    THEN [now EXCEPT !.backtest = Append(seen.backtest, result)]
    ELSE [now EXCEPT !.validation = Append(seen.validation, result),
                     !.status = StatusAfter(seen, kind, result.met)]

(* The memory store takes no strategy for validated. *)
Sanitized(strategy) == [strategy EXCEPT !.status = IF @ = "validated" THEN "needs_validation" ELSE @]

NextResult(met) == [number |-> results + 1, met |-> met]

CountResult == results < MaxResults /\ results' = results + 1

(* Without a connection nothing is awaited. *)
AttachInMemory(id, kind, met) ==
  /\ ~connected /\ id \in Living(memory) /\ CountResult
  /\ memory' = [memory EXCEPT ![id] = Sanitized(Attached(@, @, kind, NextResult(met)))]
  /\ UNCHANGED <<connected, mongo, attaching, kept, raced>>

StartAttach(a, id, kind, met) ==
  /\ connected /\ attaching[a].at = "idle" /\ id \in Living(mongo) /\ CountResult
  /\ attaching' = [attaching EXCEPT ![a] =
       [at |-> "finding", id |-> id, kind |-> kind, result |-> NextResult(met), seen |-> Unused]]
  /\ UNCHANGED <<connected, mongo, memory, kept, raced>>

(* The strategy has been read, or has gone, or the read has failed and     *)
(* memory does not know the id.  The write follows at once; without a      *)
(* connection by now it looks in memory, in vain.                          *)
Found(a) ==
  /\ attaching[a].at = "finding"
  /\ \/ /\ connected /\ attaching[a].id \in Living(mongo)
        /\ attaching' = [attaching EXCEPT ![a].at = "updating", ![a].seen = mongo[attaching[a].id]]
     \/ attaching' = [attaching EXCEPT ![a] = NoAttachment]
  /\ UNCHANGED <<connected, mongo, memory, results, kept, raced>>

(* Others that have read the strategy and will write the same field. *)
Rivals(a) ==
  {b \in Attachments \ {a} :
     /\ attaching[b].at \in {"updating", "lost"}
     /\ attaching[b].id = attaching[a].id /\ attaching[b].kind = attaching[a].kind}

(* MongoDB applies the write, if the strategy is still there. *)
Applied(a) ==
  LET x == attaching[a]
  IN IF x.id \in Living(mongo)
       THEN /\ mongo' = [mongo EXCEPT ![x.id] = Attached(@, x.seen, x.kind, x.result)]
            /\ raced' = IF Rivals(a) # {} THEN raced \cup {x.result.number} ELSE raced
       ELSE UNCHANGED <<mongo, raced>>

Update(a) ==
  /\ attaching[a].at = "updating" /\ connected
  /\ Applied(a)
  /\ attaching' = IF attaching[a].id \in Living(mongo)
                    THEN [attaching EXCEPT ![a].at = "written"]
                    ELSE [attaching EXCEPT ![a] = NoAttachment]
  /\ UNCHANGED <<connected, memory, results, kept>>

(* The request is answered with the strategy. *)
Answer(a) ==
  /\ attaching[a].at = "written"
  /\ kept' = kept \cup {<<attaching[a].id, attaching[a].kind, attaching[a].result.number>>}
  /\ attaching' = [attaching EXCEPT ![a] = NoAttachment]
  /\ UNCHANGED <<connected, mongo, memory, results, raced>>

(* The write fails, from here: memory does not know the id, and the        *)
(* request is answered that there is no such strategy.  A write that was   *)
(* sent may still be applied, later.                                       *)
UpdateFails(a) ==
  /\ attaching[a].at \in {"updating", "written"}
  /\ attaching' = [attaching EXCEPT ![a] =
       IF @.at = "updating" THEN [@ EXCEPT !.at = "lost"] ELSE NoAttachment]
  /\ UNCHANGED <<connected, mongo, memory, results, kept, raced>>

LateUpdate(a) ==
  /\ attaching[a].at = "lost"
  /\ Applied(a) \/ UNCHANGED <<mongo, raced>>
  /\ attaching' = [attaching EXCEPT ![a] = NoAttachment]
  /\ UNCHANGED <<connected, memory, results, kept>>

----------------------------------------------------------------------------
Connection ==
  /\ connected' = ~connected
  /\ UNCHANGED <<mongo, memory, attaching, results, kept, raced>>

(* What memory held is gone, and nobody waits for the writes on their way. *)
LabRestart ==
  /\ memory' = Removed(memory, MemoryIds)
  /\ attaching' = [a \in Attachments |->
       IF attaching[a].at \in {"updating", "lost"}
         THEN [attaching[a] EXCEPT !.at = "lost"] ELSE NoAttachment]
  /\ connected' = FALSE
  /\ UNCHANGED <<mongo, results, kept, raced>>

LabNext ==
  \/ \E status \in SavedStatuses : Save(status)
  \/ \E id \in MongoIds \cup MemoryIds : Delete(id)
  \/ Clear
  \/ \E id \in MemoryIds, kind \in ResultKinds : \E met \in Criteria(kind) : AttachInMemory(id, kind, met)
  \/ \E a \in Attachments :
       \/ \E id \in MongoIds, kind \in ResultKinds : \E met \in Criteria(kind) : StartAttach(a, id, kind, met)
       \/ Found(a) \/ Update(a) \/ Answer(a) \/ UpdateFails(a) \/ LateUpdate(a)
  \/ Connection
  \/ LabRestart

LabSpec == LabInit /\ [][LabNext]_labVars

----------------------------------------------------------------------------
(* A result whose attachment was answered with the strategy stays in it    *)
(* for as long as the strategy is there; it can be lost only to another    *)
(* attachment of its own kind that had read the strategy before the result *)
(* was written.  No attachment of the other kind, no lost connection and   *)
(* no restart takes it away (strategyLabEngine.js:35-80).                  *)
ResultsKept ==
  \A k \in kept :
    LET id == k[1]
    IN id \in Living(mongo) /\ k[3] \notin raced
         => \E i \in DOMAIN mongo[id][k[2]] : mongo[id][k[2]][i].number = k[3]

(* A strategy is validated exactly when the last validation in its list    *)
(* met the criteria, even when validations overlap, and the memory store   *)
(* never holds one as validated (strategyLabEngine.js:60-79,               *)
(* savedStrategy.js:5-12).                                                 *)
StatusTellsLastValidation ==
  /\ \A id \in Living(mongo) :
       LET list == mongo[id].validation
       IN mongo[id].status = "validated" <=> list # <<>> /\ list[Len(list)].met
  /\ \A id \in Living(memory) : memory[id].status # "validated"

(* What was attached is kept and says what it found                        *)
(* (strategyLabEngine.js:35-80).                                           *)
LabHonest == ResultsKept /\ StatusTellsLastValidation
=============================================================================
