------------------------------ MODULE MCResearch ------------------------------
(***************************************************************************)
(* Datasets, training, the strategy lab and the inference process in one   *)
(* run.  They share no state besides the datasets that training reads, so  *)
(* that a behaviour follows one of them, the focus, and the others rest:   *)
(* their interleavings with each other would show nothing.                 *)
(***************************************************************************)
EXTENDS Training, StrategyLab, InferenceWorker

CONSTANTS d1, ml, raw, e1, e2, q1, q2, r1, r2

VARIABLE focus

(* Without training: two downloads and two deletes over two directories,   *)
(* and one extent, since FilesBehindRows does not tell extents apart.      *)
DataBound == \A f \in DOMAIN files : files'[f] # e2

(* With training: one download, one delete, one directory and two fetches. *)
TrainBound ==
  /\ download'[q2] = NoDownload /\ removal'[r2] = NoRemoval
  /\ download'[q1].dir # raw /\ fetches' <= 2

vars == <<allTrainVars, labVars, inferenceVars, focus>>

Init ==
  /\ focus \in {"datasets", "training", "lab", "inference"}
  /\ TrainInit /\ LabInit /\ InferenceInit

Next ==
  /\ UNCHANGED focus
  /\ \/ focus = "datasets" /\ DataNext /\ DataBound /\ UNCHANGED <<trainVars, labVars, inferenceVars>>
     \/ focus = "training" /\ TrainNext /\ TrainBound /\ UNCHANGED <<labVars, inferenceVars>>
     \/ focus = "lab" /\ LabNext /\ UNCHANGED <<allTrainVars, inferenceVars>>
     \/ focus = "inference" /\ InferenceNext /\ UNCHANGED <<allTrainVars, labVars>>

Spec == Init /\ [][Next]_vars /\ TrainFairness /\ InferenceFairness

(* Every variable of the four keeps to its type: rows, files and requests  *)
(* of the datasets, trainings and models, strategies and attachments, and  *)
(* the calls, timers and processes of inference.                           *)
TypeOK == DataTypeOK /\ TrainTypeOK /\ LabTypeOK /\ InferenceTypeOK
=============================================================================
