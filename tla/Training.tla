------------------------------ MODULE Training ------------------------------
(***************************************************************************)
(* Training of models (server/ai/trainingService.js, modelRegistry.js, the *)
(* routes of api/mlRoutes.js, the process of ai/train_pipeline.py).  A     *)
(* request finds its dataset's file, awaits a probe of Python, awaits the  *)
(* training process and registers the model.  The process reads the file   *)
(* on its own: meanwhile the dataset may have been deleted or downloaded   *)
(* again.  A restart forgets the requests and leaves their processes       *)
(* running.                                                                *)
(***************************************************************************)
EXTENDS Datasets

CONSTANTS
  Trainings,     \* requests to train that may be under way at once
  ModelSymbols,
  NoModel,
  MaxModels      \* bound: trained models

ASSUME ModelAssumption == MaxModels \in Nat /\ NoModel \notin 1 .. MaxModels

VARIABLES
  training,    \* each request: where it is, and with what
  child,       \* its Python process: where it is, the content it read, the model it wrote
  artifacts,   \* what each model on the disk was trained on
  models       \* the registry of models, newest first

trainVars == <<training, child, artifacts, models>>
allTrainVars == <<dataVars, trainVars>>

NoTraining == [at |-> "idle", file |-> NoModel, symbol |-> NoModel, promote |-> FALSE]
NoChild    == [at |-> "none", file |-> NoModel, read |-> NoModel, model |-> NoModel]

Model(m, symbol, status, extent) == [modelId |-> m, symbol |-> symbol, status |-> status, dataset |-> extent]

ModelIds == 1 .. MaxModels

TrainTypeOK ==
  /\ \A t \in Trainings :
       /\ training[t].at \in {"idle", "probing", "running"}
       /\ training[t].at # "idle" => training[t].file \in DOMAIN files /\ training[t].symbol \in ModelSymbols
       /\ child[t].at \in {"none", "loading", "fitting", "wrote", "failed"}
       /\ child[t].at = "wrote" => child[t].model \in DOMAIN artifacts
  /\ DOMAIN artifacts \subseteq ModelIds
  /\ \A m \in DOMAIN artifacts : artifacts[m] \in Extents
  /\ \A i \in DOMAIN models :
       /\ models[i].modelId \in ModelIds /\ models[i].symbol \in ModelSymbols
       /\ models[i].status \in {"candidate", "champion", "archived"} /\ models[i].dataset \in Extents

TrainInit ==
  /\ DataInit
  /\ training = [t \in Trainings |-> NoTraining]
  /\ child = [t \in Trainings |-> NoChild]
  /\ artifacts = [m \in {} |-> NoModel]
  /\ models = <<>>

----------------------------------------------------------------------------
(* The registry of models: a file read and written whole in one step. *)

Register(ms, m) == <<m>> \o ms

(* The champion of every symbol is archived, not only that of the model's. *)
Promote(ms, m) ==
  [i \in DOMAIN ms |-> [ms[i] EXCEPT !.status =
      IF ms[i].modelId = m THEN "champion" ELSE IF @ = "champion" THEN "archived" ELSE @]]

PromoteModel(m) ==
  /\ \E i \in DOMAIN models : models[i].modelId = m
  /\ models' = Promote(models, m)
  /\ UNCHANGED <<dataVars, training, child, artifacts>>

----------------------------------------------------------------------------
(* A request.  The CSV is preferred.  One that names a path besides the    *)
(* dataset passes the route's check of the CSV, and is given the archive   *)
(* when the CSV is missing or empty.                                       *)

FileFor(id, named) ==
  LET csv  == File(id, rows[id], "csv")
      json == File(id, rows[id], "json")
  IN IF Filled(csv) THEN csv ELSE IF named /\ Filled(json) THEN json ELSE NoModel

StartTraining(t, id, named, symbol, promote) ==
  /\ training[t].at = "idle" /\ child[t].at = "none"
  /\ rows[id] # NoRow /\ FileFor(id, named) # NoModel
  /\ training' = [training EXCEPT ![t] =
       [at |-> "probing", file |-> FileFor(id, named), symbol |-> symbol, promote |-> promote]]
  /\ UNCHANGED <<dataVars, child, artifacts, models>>

(* The probe says that Python has what it needs, or it fails, or its time  *)
(* is over and it is killed.                                               *)
ProbeOk(t) ==
  /\ training[t].at = "probing"
  /\ training' = [training EXCEPT ![t].at = "running"]
  /\ child' = [child EXCEPT ![t] = [NoChild EXCEPT !.at = "loading", !.file = training[t].file]]
  /\ UNCHANGED <<dataVars, artifacts, models>>

ProbeFails(t) ==
  /\ training[t].at = "probing"
  /\ training' = [training EXCEPT ![t] = NoTraining]
  /\ UNCHANGED <<dataVars, child, artifacts, models>>

\* Mutant: the timer is disarmed once the process has begun to fit.
TimesOutWhileLoading(t) ==
  /\ training[t].at = "running" /\ child[t].at # "fitting"
  /\ training' = [training EXCEPT ![t] = NoTraining]
  /\ child' = IF child[t].at = "wrote" THEN child ELSE [child EXCEPT ![t].at = "failed"]
  /\ UNCHANGED <<dataVars, artifacts, models>>

(* The request is answered when its time is over, and the process killed;  *)
(* one that has just ended has left its artifact.                          *)
TrainingTimesOut(t) ==
  /\ training[t].at = "running"
  /\ training' = [training EXCEPT ![t] = NoTraining]
  /\ child' = IF child[t].at = "wrote" THEN child ELSE [child EXCEPT ![t].at = "failed"]
  /\ UNCHANGED <<dataVars, artifacts, models>>

----------------------------------------------------------------------------
(* The process. *)

\* Mutant: a file cut short is fitted too.
ChildLoadsAny(t) ==
  /\ child[t].at = "loading"
  /\ child' = [child EXCEPT ![t] =
       IF Exists(child[t].file)
         THEN [@ EXCEPT !.at = "fitting", !.read = files[child[t].file]]
         ELSE [@ EXCEPT !.at = "failed"]]
  /\ UNCHANGED <<dataVars, training, artifacts, models>>

(* It reads a CSV only, and fails on a file that is gone or empty. *)
ChildLoads(t) ==
  /\ child[t].at = "loading"
  /\ child' = [child EXCEPT ![t] =
       IF child[t].file[3] = "csv" /\ Filled(child[t].file)
         THEN [@ EXCEPT !.at = "fitting", !.read = files[child[t].file]]
         ELSE [@ EXCEPT !.at = "failed"]]
  /\ UNCHANGED <<dataVars, training, artifacts, models>>

(* The model's id is drawn at random; here ids are counted. *)
ChildWrites(t) ==
  /\ child[t].at = "fitting"
  /\ LET m == Cardinality(DOMAIN artifacts) + 1
     IN /\ m \in ModelIds
        /\ artifacts' = [x \in DOMAIN artifacts \cup {m} |-> IF x = m THEN child[t].read ELSE artifacts[x]]
        /\ child' = [child EXCEPT ![t].at = "wrote", ![t].model = m]
  /\ UNCHANGED <<dataVars, training, models>>

(* No model could be fitted, an exception was thrown, or something killed  *)
(* the process, perhaps before its answer was out.                         *)
ChildFails(t) ==
  /\ child[t].at \in {"loading", "fitting", "wrote"}
  /\ child' = [child EXCEPT ![t].at = "failed"]
  /\ UNCHANGED <<dataVars, training, artifacts, models>>

\* Mutant: the hash of what the file holds now, where it holds anything.
DatasetHashNow(t) ==
  IF Filled(child[t].file) THEN files[child[t].file] ELSE child[t].read

(* What the process says its data was: what it read, not what the file     *)
(* holds now.  The hash is over the number of rows and the first and last  *)
(* days.                                                                   *)
DatasetHash(t) == child[t].read

(* The process has closed.  A request that still waits is answered; the    *)
(* model is registered and, if the request asks for it, promoted.          *)
ChildCloses(t) ==
  /\ child[t].at \in {"wrote", "failed"}
  /\ IF training[t].at = "running" /\ child[t].at = "wrote"
       THEN LET m == child[t].model
                registered == Register(models, Model(m, training[t].symbol, "candidate", DatasetHash(t)))
            IN models' = IF training[t].promote THEN Promote(registered, m) ELSE registered
       ELSE UNCHANGED models
  /\ training' = IF training[t].at = "running" THEN [training EXCEPT ![t] = NoTraining] ELSE training
  /\ child' = [child EXCEPT ![t] = NoChild]
  /\ UNCHANGED <<dataVars, artifacts>>

(* A restart: the processes run on, and nobody waits for them. *)
TrainRestart ==
  /\ DataRestart
  /\ training' = [t \in Trainings |-> NoTraining]
  /\ UNCHANGED <<child, artifacts, models>>

TrainNext ==
  \/ DataStep /\ UNCHANGED trainVars
  \/ \E t \in Trainings :
       \/ \E id \in DatasetIds, named \in BOOLEAN, symbol \in ModelSymbols, promote \in BOOLEAN :
            StartTraining(t, id, named, symbol, promote)
       \/ ProbeOk(t) \/ ProbeFails(t) \/ TrainingTimesOut(t)
       \/ ChildLoads(t) \/ ChildWrites(t) \/ ChildFails(t) \/ ChildCloses(t)
  \/ \E m \in ModelIds : PromoteModel(m)
  \/ TrainRestart

(* The probe is spawned with a time limit and ends in any case; so does    *)
(* the wait for the training process.                                      *)
TrainFairness ==
  \A t \in Trainings :
    /\ WF_allTrainVars(ProbeOk(t) \/ ProbeFails(t))
    /\ WF_allTrainVars(TrainingTimesOut(t))

TrainSpec == TrainInit /\ [][TrainNext]_allTrainVars /\ TrainFairness

----------------------------------------------------------------------------
(* A model in the registry tells the extent of the very data it was        *)
(* trained on, although its dataset may have been downloaded again or      *)
(* deleted between the check of the request, the reading of the file and   *)
(* the registration; and no more than one model is the champion            *)
(* (trainingService.js:434-448, modelRegistry.js:92-108).                  *)
ModelTellsItsData ==
  /\ \A i \in DOMAIN models :
       /\ models[i].modelId \in DOMAIN artifacts
       /\ models[i].dataset = artifacts[models[i].modelId]
  /\ \A i, j \in DOMAIN models :
       models[i].status = "champion" /\ models[j].status = "champion" => i = j

(* Every request to train is answered, whatever Python does                *)
(* (trainingService.js:170-215 and :259-314).                              *)
TrainingsEnd == \A t \in Trainings : training[t].at # "idle" ~> training[t].at = "idle"
=============================================================================
