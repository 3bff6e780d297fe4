----------------------------- MODULE AiServices -----------------------------
(***************************************************************************)
(* The AI services of one symbol (server/api/aiRoutes.js): feature records *)
(* and their outcome labels, training jobs that make a dataset of both and *)
(* hand it to ml/train.py, the registry of models, and inference by        *)
(* ml/infer.py.  Time is counted in candles.  Records and labels stand in  *)
(* MongoDB, or in memory and are lost on a restart.  The cache of          *)
(* inference, filled by answered calls only, never is, and is left out.    *)
(***************************************************************************)
EXTENDS Integers, Sequences, FiniteSets

CONSTANTS
  FeatureRecords,   \* records that may ever be saved
  AiJobs,           \* training jobs
  LabelHorizon,     \* candles to an outcome
  FewestRows,       \* rows for which no part of a split is empty (7 by default)
  MaxClock          \* bound: candles

ASSUME LabelAssumption == LabelHorizon \in Nat /\ FewestRows \in Nat \ {0} /\ MaxClock \in Nat

VARIABLES
  clock,       \* candles there have been
  record,      \* each feature record: the clock when it was saved
  labels,      \* the outcome labels, newest first
  job,         \* each job: where it is, the records it read, its dataset's labels
  aiModels,    \* the registry, newest first
  inference    \* how the last inference went

aiVars == <<clock, record, labels, job, aiModels, inference>>

Unsaved == MaxClock + 1
Cleared == MaxClock + 2

Live == {r \in FeatureRecords : record[r] <= MaxClock}

NoJob == [at |-> "none", read |-> {}, rows |-> {}]

AiTypeOK ==
  /\ clock \in 0 .. MaxClock /\ record \in [FeatureRecords -> 0 .. Cleared]
  /\ labels \in Seq([record : FeatureRecords, label : {"unknown", "outcome"}])
  /\ \A j \in AiJobs :
       /\ job[j].at \in {"none", "reading", "training", "completed", "failed"}
       /\ job[j].read \subseteq FeatureRecords
       /\ job[j].rows \subseteq [record : FeatureRecords, label : {"unknown", "outcome"}]
  /\ \A i \in DOMAIN aiModels :
       /\ aiModels[i].status \in {"trained", "champion", "archived"} /\ aiModels[i].job \in AiJobs
       /\ aiModels[i].artifact \in {"saved", "lost"}
  /\ inference \in {"none", "unavailable", "refused", "answered"}

AiInit ==
  /\ clock = 0 /\ record = [r \in FeatureRecords |-> Unsaved] /\ labels = <<>>
  /\ job = [j \in AiJobs |-> NoJob] /\ aiModels = <<>> /\ inference = "none"

----------------------------------------------------------------------------
(* Records and labels. *)

CandleCloses ==
  /\ clock < MaxClock
  /\ clock' = clock + 1
  /\ UNCHANGED <<record, labels, job, aiModels, inference>>

SaveRecord(r) ==
  /\ record[r] = Unsaved
  /\ record' = [record EXCEPT ![r] = clock]
  /\ UNCHANGED <<clock, labels, job, aiModels, inference>>

ClearRecords ==
  /\ Live # {}
  /\ record' = [r \in FeatureRecords |-> IF r \in Live THEN Cleared ELSE record[r]]
  /\ UNCHANGED <<clock, labels, job, aiModels, inference>>

(* The outcome is counted from the first candle after the record. *)
LabelNow(r) == IF clock > record[r] + LabelHorizon THEN "outcome" ELSE "unknown"

(* A record may be labelled again: the older labels stay. *)
LabelRecord(r) ==
  /\ r \in Live /\ Len(labels) <= Cardinality(FeatureRecords)
  /\ labels' = <<[record |-> r, label |-> LabelNow(r)]>> \o labels
  /\ UNCHANGED <<clock, record, job, aiModels, inference>>

ClearLabels ==
  /\ labels # <<>>
  /\ labels' = <<>>
  /\ UNCHANGED <<clock, record, job, aiModels, inference>>

(* The label that counts is the oldest one of the record. *)
Counted(r) == LET of == {i \in DOMAIN labels : labels[i].record = r} IN
  labels[CHOOSE i \in of : \A k \in of : k <= i]

Dataset(read) == {Counted(r) : r \in {q \in read : \E i \in DOMAIN labels : labels[i].record = q}}

----------------------------------------------------------------------------
(* A job.  It is answered for at once and goes on by itself. *)

StartJob(j) ==
  /\ job[j] = NoJob
  /\ job' = [job EXCEPT ![j] = [at |-> "reading", read |-> Live, rows |-> {}]]
  /\ UNCHANGED <<clock, record, labels, aiModels, inference>>

(* The labels are read after the records; a single row cannot be split. *)
JobBuilds(j) ==
  /\ job[j].at = "reading"
  /\ LET rows == Dataset(job[j].read) IN
       job' = [job EXCEPT ![j].at = IF Cardinality(rows) < 2 THEN "failed" ELSE "training", ![j].rows = rows]
  /\ UNCHANGED <<clock, record, labels, aiModels, inference>>

\* Mutant: what is unknown is trained as neutral.
TrainableAll(rows) == Cardinality(rows) >= FewestRows

(* train.py knows three labels, and scores the parts of the split. *)
Trainable(rows) == Cardinality(rows) >= FewestRows /\ \A row \in rows : row.label = "outcome"

Champions == {i \in DOMAIN aiModels : aiModels[i].status = "champion"}

(* Without a champion the new model is promoted. *)
StatusOnRegister == IF Champions = {} THEN "champion" ELSE "trained"

(* The artifact may fail to be written: the job does not look. *)
JobTrained(j, artifact) ==
  /\ job[j].at = "training" /\ Trainable(job[j].rows)
  /\ job' = [job EXCEPT ![j].at = "completed"]
  /\ aiModels' = <<[job |-> j, rows |-> job[j].rows, artifact |-> artifact, status |-> StatusOnRegister]>> \o aiModels
  /\ UNCHANGED <<clock, record, labels, inference>>

(* The script fails, ends without JSON, or is killed after its time. *)
JobFails(j) ==
  /\ job[j].at \in {"reading", "training"}
  /\ job' = [job EXCEPT ![j].at = "failed"]
  /\ UNCHANGED <<clock, record, labels, aiModels, inference>>

PromoteAi(i) ==
  /\ i \in DOMAIN aiModels
  /\ aiModels' = [k \in DOMAIN aiModels |-> [aiModels[k] EXCEPT !.status =
                   IF k = i THEN "champion" ELSE IF @ = "champion" THEN "archived" ELSE @]]
  /\ UNCHANGED <<clock, record, labels, job, inference>>

----------------------------------------------------------------------------
(* Inference. *)

Sent     == {"model_b64", "features", "feature_names", "label_map", "inv_label_map"}
Required == {"model_path", "features"}

Available == Live # {} /\ \E i \in Champions : aiModels[i].artifact = "saved"

Infer ==
  /\ inference' = IF ~Available THEN "unavailable"
                  ELSE IF Required \subseteq Sent THEN "answered" ELSE "refused"
  /\ UNCHANGED <<clock, record, labels, job, aiModels>>

(* Jobs are forgotten, and with the memory store records and labels. *)
AiRestart ==
  /\ job' = [j \in AiJobs |-> IF job[j] = NoJob THEN NoJob ELSE [NoJob EXCEPT !.at = "failed"]]
  /\ inference' = "none"
  /\ \/ UNCHANGED <<record, labels>>
     \/ /\ record' = [r \in FeatureRecords |-> IF r \in Live THEN Cleared ELSE record[r]]
        /\ labels' = <<>>
  /\ UNCHANGED <<clock, aiModels>>

AiNext ==
  \/ CandleCloses \/ ClearRecords \/ ClearLabels \/ Infer \/ AiRestart
  \/ \E r \in FeatureRecords : SaveRecord(r) \/ LabelRecord(r)
  \/ \E j \in AiJobs : \/ StartJob(j) \/ JobBuilds(j) \/ JobFails(j)
                       \/ \E artifact \in {"saved", "lost"} : JobTrained(j, artifact)
  \/ \E i \in DOMAIN aiModels : PromoteAi(i)

AiSpec == AiInit /\ [][AiNext]_aiVars

----------------------------------------------------------------------------
(* A model was trained on outcomes that had happened, although records are *)
(* labelled at any time and again, and the first label counts              *)
(* (outcomeLabeler.js:9, datasetBuilderService.js:14, train.py:94).        *)
TrainedOnOutcomes ==
  \A i \in DOMAIN aiModels : \A row \in aiModels[i].rows :
    /\ row.label = "outcome"
    /\ record[row.record] < Unsaved => record[row.record] + LabelHorizon < clock

(* Jobs that overlap never depose a champion, nor leave two of them: it    *)
(* changes only when one is promoted (trainingPipelineService.js:142).     *)
JobsNeverDepose ==
  /\ Cardinality(Champions) <= 1
  /\ aiModels # <<>> => Champions # {}

(* A job leaves a model that learnt from outcomes, and the champion in its *)
(* place (trainingPipelineService.js).                                     *)
JobsHonest == TrainedOnOutcomes /\ JobsNeverDepose
=============================================================================
