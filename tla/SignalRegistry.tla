--------------------------- MODULE SignalRegistry ---------------------------
(***************************************************************************)
(* The Python side's models (server/ai/training/train_pipeline.py and      *)
(* dataset_utils.py, server/ai/registry/): a training process writes its   *)
(* files one after the other into one directory, then registers and        *)
(* promotes its model in SQLite.  Nothing keeps two processes, or a        *)
(* process and a worker that boots, apart; a process may die anywhere.     *)
(* A training stands for what it produced: metrics, hashes and the like    *)
(* are left out.                                                           *)
(***************************************************************************)
EXTENDS Naturals, Sequences

CONSTANTS
  Pipelines,      \* training processes that may be under way at once
  SignalSymbols,
  Loaders,        \* workers that boot
  Recorders,      \* processes that record a dataset
  MaxTrainings    \* bound: trainings that reach the point of writing

ASSUME TrainingsAssumption == MaxTrainings \in Nat

VARIABLES
  trainings,   \* what was trained: the symbol, the best kind, whether calibration helped
  process,     \* each process: its training and the next of its steps
  disk,        \* each file: the training that wrote it, 0 when there is none
  versions,    \* MODEL_VERSION, in the order of insertion
  loader,      \* each worker: the trainings its metadata and its model come from
  dataset,     \* DATASET_VERSION: the ids of the rows that hold the one hash in question
  recorder     \* each recording: where it is, and the id it was given

signalVars == <<trainings, process, disk, versions, loader, dataset, recorder>>

Kinds == {"logistic", "xgb", "lgb"}

(* The files in the order in which they are written; the reports are the   *)
(* schema, the metrics, a second manifest and the model's card.            *)
Files == <<"logistic", "xgb", "lgb", "metadata", "calibrated", "reports">>
FileNames == {Files[i] : i \in DOMAIN Files}

Registering == Len(Files) + 1
Promoting   == Len(Files) + 2

NoProcess == [training |-> 0, step |-> 0]
NoLoader  == [at |-> "down", metadata |-> 0, model |-> 0]

SignalTypeOK ==
  /\ trainings \in Seq([symbol : SignalSymbols, best : Kinds, calibrated : {"yes", "no"}])
  /\ process \in [Pipelines -> [training : 0 .. Len(trainings), step : 0 .. Promoting]]
  /\ disk \in [FileNames -> 0 .. Len(trainings)]
  /\ versions \in Seq([training : 1 .. Len(trainings), status : {"registered", "champion", "challenger"}])
  /\ loader \in [Loaders -> [at : {"down", "read", "up"}, metadata : 0 .. Len(trainings), model : 0 .. Len(trainings)]]
  /\ dataset \subseteq Recorders
  /\ recorder \in [Recorders -> [at : {"idle", "missed", "failed", "answered"}, id : Recorders]]

SignalInit ==
  /\ trainings = <<>>
  /\ process = [p \in Pipelines |-> NoProcess]
  /\ disk = [f \in FileNames |-> 0]
  /\ versions = <<>>
  /\ loader = [w \in Loaders |-> NoLoader]
  /\ dataset = {}
  /\ recorder = [r \in Recorders |-> [at |-> "idle", id |-> r]]

----------------------------------------------------------------------------
(* A process. *)

Under(p) == trainings[process[p].training]

(* The best on validation is chosen among the three, and calibrated: the   *)
(* calibrated model counts when it is better, and calibration may fail.    *)
Trains(p, s, best, calibrated) ==
  /\ process[p] = NoProcess
  /\ trainings' = Append(trainings, [symbol |-> s, best |-> best, calibrated |-> calibrated])
  /\ process' = [process EXCEPT ![p] = [training |-> Len(trainings) + 1, step |-> 1]]
  /\ UNCHANGED <<disk, versions, loader, dataset, recorder>>

(* The calibrated model is written only when it counts: one of an earlier  *)
(* training stays.                                                         *)
WritesFile(p) ==
  /\ process[p].step \in DOMAIN Files
  /\ LET file == Files[process[p].step] IN
       disk' = IF file = "calibrated" /\ Under(p).calibrated = "no"
               THEN disk ELSE [disk EXCEPT ![file] = process[p].training]
  /\ process' = [process EXCEPT ![p].step = @ + 1]
  /\ UNCHANGED <<trainings, versions, loader, dataset, recorder>>

Registers(p) ==
  /\ process[p].step = Registering
  /\ versions' = Append(versions, [training |-> process[p].training, status |-> "registered"])
  /\ process' = [process EXCEPT ![p].step = Promoting]
  /\ UNCHANGED <<trainings, disk, loader, dataset, recorder>>

SymbolOf(v) == trainings[v.training].symbol

\* Mutant: the champion is demoted for the same kind of model only.
PromotedSameKind(rows, t) ==
  [i \in DOMAIN rows |->
    IF rows[i].training = t THEN [rows[i] EXCEPT !.status = "champion"]
    ELSE IF /\ rows[i].status = "champion" /\ SymbolOf(rows[i]) = trainings[t].symbol
            /\ trainings[rows[i].training].best = trainings[t].best
    THEN [rows[i] EXCEPT !.status = "challenger"] ELSE rows[i]]

(* The champions of the symbol are demoted and the model is promoted, in   *)
(* one transaction.                                                        *)
Promoted(rows, t) ==
  [i \in DOMAIN rows |->
    IF rows[i].training = t THEN [rows[i] EXCEPT !.status = "champion"]
    ELSE IF rows[i].status = "champion" /\ SymbolOf(rows[i]) = trainings[t].symbol
    THEN [rows[i] EXCEPT !.status = "challenger"] ELSE rows[i]]

Promotes(p) ==
  /\ process[p].step = Promoting
  /\ versions' = Promoted(versions, process[p].training)
  /\ process' = [process EXCEPT ![p] = NoProcess]
  /\ UNCHANGED <<trainings, disk, loader, dataset, recorder>>

(* The registry fails, as when the database stays locked: the process ends *)
(* as if all were well.                                                    *)
RegistryFails(p) ==
  /\ process[p].step \in {Registering, Promoting}
  /\ process' = [process EXCEPT ![p] = NoProcess]
  /\ UNCHANGED <<trainings, disk, versions, loader, dataset, recorder>>

(* The process is killed, or a write fails. *)
ProcessDies(p) ==
  /\ process[p].step \in DOMAIN Files
  /\ process' = [process EXCEPT ![p] = NoProcess]
  /\ UNCHANGED <<trainings, disk, versions, loader, dataset, recorder>>

----------------------------------------------------------------------------
(* A worker boots from the directory: the registry is not asked. *)

ReadsMetadata(w) ==
  /\ loader[w].at = "down" /\ disk["metadata"] # 0
  /\ loader' = [loader EXCEPT ![w] = [at |-> "read", metadata |-> disk["metadata"], model |-> 0]]
  /\ UNCHANGED <<trainings, process, disk, versions, dataset, recorder>>

\* Mutant: the calibrated model is taken for the champion.
LoadsCalibrated(w) ==
  /\ loader[w].at = "read"
  /\ loader' = [loader EXCEPT ![w].at = "up", ![w].model = disk["calibrated"]]
  /\ UNCHANGED <<trainings, process, disk, versions, dataset, recorder>>

LoadsModel(w) ==
  /\ loader[w].at = "read"
  /\ LET model == disk[trainings[loader[w].metadata].best] IN
       loader' = [loader EXCEPT ![w] = IF model = 0 THEN NoLoader ELSE [@ EXCEPT !.at = "up", !.model = model]]
  /\ UNCHANGED <<trainings, process, disk, versions, dataset, recorder>>

WorkerStops(w) ==
  /\ loader[w].at # "down"
  /\ loader' = [loader EXCEPT ![w] = NoLoader]
  /\ UNCHANGED <<trainings, process, disk, versions, dataset, recorder>>

----------------------------------------------------------------------------
(* A dataset is recorded in two transactions: its hash is looked for, and  *)
(* inserted under a fresh id, here the recorder's, when it was not found.  *)

LooksUp(r) ==
  /\ recorder[r].at = "idle"
  /\ \/ /\ dataset = {}
        /\ recorder' = [recorder EXCEPT ![r].at = "missed"]
     \/ \E id \in dataset : recorder' = [recorder EXCEPT ![r] = [at |-> "answered", id |-> id]]
  /\ UNCHANGED <<trainings, process, disk, versions, loader, dataset>>

(* The hash is UNIQUE: who comes second gets an IntegrityError. *)
Inserts(r) ==
  /\ recorder[r].at = "missed"
  /\ \/ /\ dataset = {}
        /\ dataset' = {r}
        /\ recorder' = [recorder EXCEPT ![r] = [at |-> "answered", id |-> r]]
     \/ /\ dataset # {}
        /\ dataset' = dataset
        /\ recorder' = [recorder EXCEPT ![r].at = "failed"]
  /\ UNCHANGED <<trainings, process, disk, versions, loader>>

----------------------------------------------------------------------------
ProcessStep(p) ==
  \/ \E s \in SignalSymbols, best \in Kinds, calibrated \in {"yes", "no"} : Trains(p, s, best, calibrated)
  \/ WritesFile(p) \/ Registers(p) \/ Promotes(p) \/ RegistryFails(p) \/ ProcessDies(p)

TrainingNext ==
  \/ \E p \in Pipelines : ProcessStep(p)
  \/ \E w \in Loaders : ReadsMetadata(w) \/ LoadsModel(w) \/ WorkerStops(w)

RecordingNext == \E r \in Recorders : LooksUp(r) \/ Inserts(r)

SignalNext == TrainingNext \/ RecordingNext

SignalBound == Len(trainings') <= MaxTrainings

SignalSpec == SignalInit /\ [][SignalNext]_signalVars

----------------------------------------------------------------------------
(* A symbol has one champion at most, however the trainings of several     *)
(* processes interleave and wherever they die (registry.py:385).           *)
OneChampion ==
  \A i, j \in DOMAIN versions :
    (/\ versions[i].status = "champion" /\ versions[j].status = "champion"
     /\ SymbolOf(versions[i]) = SymbolOf(versions[j])) => i = j

(* Whenever a worker boots, the model its metadata names is there, and it  *)
(* is a model of the kind that was chosen; so is the model of every row of *)
(* the registry (the order of the writes in train_pipeline.py:396).        *)
NamedModelsAreThere ==
  /\ disk["metadata"] # 0 => disk[trainings[disk["metadata"]].best] # 0
  /\ \A i \in DOMAIN versions : disk[trainings[versions[i].training].best] # 0
  /\ \A w \in Loaders : loader[w].at = "up" => loader[w].model # 0

(* A dataset that two processes record at once has one id, which all that  *)
(* were answered were told (registry.py:568).                              *)
RecordedOnce ==
  \A r, q \in Recorders :
    recorder[r].at = "answered" /\ recorder[q].at = "answered" => recorder[r].id = recorder[q].id

(* Files, rows and answers name what is there, and champions and datasets    *)
(* are one (train_pipeline.py, registry.py).                                 *)
RegistryAgrees == OneChampion /\ NamedModelsAreThere /\ RecordedOnce
=============================================================================
