--------------------------- MODULE AnalysisProofs ---------------------------
(***************************************************************************)
(* What the analysis of signals keeps, for any number of processes,        *)
(* workers, trainings, callers and jobs: one champion per symbol, models   *)
(* where manifests and rows name them, one id per dataset                  *)
(* (SignalRegistry); each call of the Python service accounted for         *)
(* (PredictionService); jobs that learn from outcomes and leave one        *)
(* champion (AiServices); a preparation that reads each row once           *)
(* (SignalData); backtests that do not look ahead (Backtest); a toolkit    *)
(* whose scenarios have their row in the audit log, whose reports          *)
(* reproduce and whose amounts keep to their bounds (Institutional).       *)
(***************************************************************************)
EXTENDS SignalRegistry, PredictionService, AiServices, SignalData, Backtest, Institutional, ListProofs,
        SequenceTheorems, TLAPS

----------------------------------------------------------------------------
(* SignalRegistry                                                          *)

(* The six files by name. *)
LEMMA FilesAre ==
  /\ Len(Files) = 6 /\ DOMAIN Files = 1 .. 6 /\ Registering = 7 /\ Promoting = 8
  /\ Files[1] = "logistic" /\ Files[2] = "xgb" /\ Files[3] = "lgb"
  /\ Files[4] = "metadata" /\ Files[5] = "calibrated" /\ Files[6] = "reports"
  /\ FileNames = {"logistic", "xgb", "lgb", "metadata", "calibrated", "reports"}
<1>1. /\ Len(Files) = 6 /\ DOMAIN Files = 1 .. 6
      /\ Files[1] = "logistic" /\ Files[2] = "xgb" /\ Files[3] = "lgb"
      /\ Files[4] = "metadata" /\ Files[5] = "calibrated" /\ Files[6] = "reports"
  BY DEF Files
<1>2. FileNames = {Files[i] : i \in 1 .. 6}
  BY <1>1 DEF FileNames
<1>3. 1 .. 6 = {1, 2, 3, 4, 5, 6}
  OBVIOUS
<1>4. FileNames = {"logistic", "xgb", "lgb", "metadata", "calibrated", "reports"}
  BY <1>1, <1>2, <1>3
<1>. QED
  BY <1>1, <1>4 DEF Registering, Promoting

LEMMA SeqGrows ==
  ASSUME NEW S, NEW T, S \subseteq T, NEW q \in Seq(S)
  PROVE  q \in Seq(T)
<1>1. \A i \in 1 .. Len(q) : q[i] \in T
  OBVIOUS
<1>2. q = [i \in 1 .. Len(q) |-> q[i]] /\ Len(q) \in Nat
  OBVIOUS
<1>. QED
  BY <1>1, <1>2

LEMMA SeqElement ==
  ASSUME NEW S, NEW q \in Seq(S), NEW i \in DOMAIN q
  PROVE  q[i] \in S
OBVIOUS

(* Every log is a sequence of what is in it.                               *)
Logged(log) == log \in Seq(Range(log))

(* What Append does to a log.                                              *)
LEMMA LogGrows ==
  ASSUME NEW log, Logged(log), NEW row
  PROVE  /\ Logged(Append(log, row))
         /\ Len(log) \in Nat /\ DOMAIN log = 1 .. Len(log)
         /\ Len(Append(log, row)) = Len(log) + 1
         /\ DOMAIN Append(log, row) = 1 .. Len(log) + 1
         /\ \A i \in 1 .. Len(log) : Append(log, row)[i] = log[i]
         /\ Append(log, row)[Len(log) + 1] = row
<1>. DEFINE S == Range(log) \cup {row}
            grown == Append(log, row)
<1>1. log \in Seq(S) /\ row \in S
  <2>1. log \in Seq(Range(log))
    BY DEF Logged
  <2>. QED
    BY <2>1
<1>2. /\ grown \in Seq(S) /\ Len(grown) = Len(log) + 1 /\ Len(log) \in Nat
      /\ \A i \in 1 .. Len(log) : grown[i] = log[i]
      /\ grown[Len(log) + 1] = row
  BY <1>1
<1>3. DOMAIN log = 1 .. Len(log) /\ DOMAIN grown = 1 .. Len(log) + 1
  BY <1>1, <1>2
<1>4. Logged(grown)
  <2>. PICK g : g = grown
    OBVIOUS
  <2>1. g \in Seq(S) /\ Len(g) \in Nat /\ DOMAIN g = 1 .. Len(g)
    BY <1>2, <1>3
  <2>2. \A i \in 1 .. Len(g) : g[i] \in Range(g)
    BY <2>1 DEF Range
  <2>3. g \in [1 .. Len(g) -> S]
    BY <2>1, LenProperties
  <2>4. g \in [1 .. Len(g) -> Range(g)]
    BY <2>2, <2>3
  <2>. PICK R : R = Range(g)
    OBVIOUS
  <2>5. g \in UNION {[1 .. n -> R] : n \in Nat}
    BY <2>1, <2>4
  <2>6. Seq(R) = UNION {[1 .. n -> R] : n \in Nat}
    BY SeqDef, Zenon
  <2>. QED
    BY <2>5, <2>6 DEF Logged
<1>. QED
  BY <1>2, <1>3, <1>4

Trained == [symbol : SignalSymbols, best : Kinds, calibrated : {"yes", "no"}]
Statuses == {"registered", "champion", "challenger"}

(* The types that the proofs use, with the lengths written out. *)
LEMMA TypesUnfold ==
  ASSUME SignalTypeOK
  PROVE  /\ trainings \in Seq(Trained) /\ Len(trainings) \in Nat
         /\ process \in [Pipelines -> [training : 0 .. Len(trainings), step : 0 .. 8]]
         /\ disk \in [FileNames -> 0 .. Len(trainings)]
         /\ versions \in Seq([training : 1 .. Len(trainings), status : Statuses])
         /\ loader \in [Loaders -> [at : {"down", "read", "up"}, metadata : 0 .. Len(trainings), model : 0 .. Len(trainings)]]
  BY FilesAre DEF SignalTypeOK, Trained, Statuses

(* A process under way has a training, and a worker that boots a manifest. *)
Busy == \A p \in Pipelines : process[p].training = 0 => process[p].step = 0
Booting == \A w \in Loaders : loader[w].at = "read" => loader[w].metadata # 0

----------------------------------------------------------------------------
(* Types *)

LEMMA TypeInit == SignalInit => SignalTypeOK
<1>. SUFFICES ASSUME SignalInit PROVE SignalTypeOK
  OBVIOUS
<1>1. trainings = <<>> /\ versions = <<>> /\ Len(trainings) = 0
  BY DEF SignalInit
<1>. QED
  BY <1>1, FilesAre DEF SignalInit, SignalTypeOK, NoProcess, NoLoader

LEMMA TrainsTypes ==
  ASSUME SignalTypeOK, NEW p \in Pipelines, NEW s \in SignalSymbols, NEW best \in Kinds,
         NEW calibrated \in {"yes", "no"}, Trains(p, s, best, calibrated)
  PROVE  SignalTypeOK'
<1>. DEFINE new == [symbol |-> s, best |-> best, calibrated |-> calibrated]
            n == Len(trainings)
<1>1. new \in Trained
  BY DEF Trained
<1>2. trainings' \in Seq(Trained) /\ Len(trainings') = n + 1 /\ n \in Nat
  BY <1>1, TypesUnfold DEF Trains
<1>3. 0 .. n \subseteq 0 .. n + 1 /\ 1 .. n \subseteq 1 .. n + 1
  BY <1>2
<1>4. process' \in [Pipelines -> [training : 0 .. n + 1, step : 0 .. 8]]
  BY <1>2, <1>3, TypesUnfold DEF Trains
<1>5. disk' \in [FileNames -> 0 .. n + 1]
  BY <1>3, TypesUnfold DEF Trains
<1>6. versions' \in Seq([training : 1 .. n + 1, status : Statuses])
  <2>1. [training : 1 .. n, status : Statuses] \subseteq [training : 1 .. n + 1, status : Statuses]
    BY <1>3
  <2>2. versions \in Seq([training : 1 .. n, status : Statuses])
    BY TypesUnfold
  <2>3. versions \in Seq([training : 1 .. n + 1, status : Statuses])
    BY <2>1, <2>2, SeqGrows
  <2>. QED
    BY <2>3 DEF Trains
<1>7. loader' \in [Loaders -> [at : {"down", "read", "up"}, metadata : 0 .. n + 1, model : 0 .. n + 1]]
  BY <1>3, TypesUnfold DEF Trains
<1>8. dataset' = dataset /\ recorder' = recorder
  BY DEF Trains
<1>. HIDE DEF new, n
<1>. QED
  BY <1>2, <1>4, <1>5, <1>6, <1>7, <1>8, FilesAre DEF SignalTypeOK, Trained, Statuses, n

LEMMA PromotedTypes ==
  ASSUME SignalTypeOK, NEW t
  PROVE  /\ DOMAIN Promoted(versions, t) = DOMAIN versions
         /\ Promoted(versions, t) \in Seq([training : 1 .. Len(trainings), status : Statuses])
         /\ \A i \in DOMAIN versions :
              /\ Promoted(versions, t)[i].training = versions[i].training
              /\ Promoted(versions, t)[i].status =
                   IF versions[i].training = t THEN "champion"
                   ELSE IF versions[i].status = "champion" /\ SymbolOf(versions[i]) = trainings[t].symbol
                   THEN "challenger" ELSE versions[i].status
<1>. DEFINE VersionRow == [training : 1 .. Len(trainings), status : Statuses]
            new == Promoted(versions, t)
<1>1. versions \in Seq(VersionRow) /\ Len(versions) \in Nat /\ DOMAIN versions = 1 .. Len(versions)
  BY TypesUnfold
<1>2. new = [i \in DOMAIN versions |->
               IF versions[i].training = t THEN [versions[i] EXCEPT !.status = "champion"]
               ELSE IF versions[i].status = "champion" /\ SymbolOf(versions[i]) = trainings[t].symbol
               THEN [versions[i] EXCEPT !.status = "challenger"] ELSE versions[i]]
  BY DEF Promoted
<1>. HIDE DEF new
<1>3. DOMAIN new = DOMAIN versions
  BY <1>2
<1>4. ASSUME NEW i \in DOMAIN versions
      PROVE  /\ new[i] \in VersionRow
             /\ new[i].training = versions[i].training
             /\ new[i].status = IF versions[i].training = t THEN "champion"
                               ELSE IF versions[i].status = "champion" /\ SymbolOf(versions[i]) = trainings[t].symbol
                               THEN "challenger" ELSE versions[i].status
  <2>. HIDE DEF VersionRow
  <2>1. versions[i] \in VersionRow
    BY <1>1, SeqElement
  <2>. USE DEF VersionRow
  <2>2. new[i] = IF versions[i].training = t THEN [versions[i] EXCEPT !.status = "champion"]
                 ELSE IF versions[i].status = "champion" /\ SymbolOf(versions[i]) = trainings[t].symbol
                 THEN [versions[i] EXCEPT !.status = "challenger"] ELSE versions[i]
    BY <1>2
  <2>. QED
    BY <2>1, <2>2 DEF Statuses
<1>5. new = [i \in 1 .. Len(versions) |-> new[i]]
  BY <1>1, <1>2
<1>6. new \in Seq(VersionRow)
  BY <1>1, <1>4, <1>5
<1>. QED
  BY <1>3, <1>4, <1>6 DEF new

LEMMA StepTypes ==
  ASSUME SignalTypeOK, Busy, Booting, [SignalNext]_signalVars
  PROVE  SignalTypeOK'
<1>1. CASE UNCHANGED signalVars
  BY <1>1 DEF signalVars, SignalTypeOK
<1>2. ASSUME NEW p \in Pipelines, NEW s \in SignalSymbols, NEW best \in Kinds, NEW calibrated \in {"yes", "no"},
             Trains(p, s, best, calibrated)
      PROVE  SignalTypeOK'
  BY <1>2, TrainsTypes
<1>3. ASSUME NEW p \in Pipelines, WritesFile(p) PROVE SignalTypeOK'
  <2>1. process[p].step \in 1 .. 6 /\ Files[process[p].step] \in FileNames /\ process[p].training \in 0 .. Len(trainings)
    BY <1>3, FilesAre, TypesUnfold DEF WritesFile, FileNames
  <2>2. process' \in [Pipelines -> [training : 0 .. Len(trainings), step : 0 .. 8]]
    BY <1>3, <2>1, TypesUnfold DEF WritesFile
  <2>3. disk' \in [FileNames -> 0 .. Len(trainings)]
    BY <1>3, <2>1, TypesUnfold DEF WritesFile
  <2>. QED
    BY <1>3, <2>2, <2>3, FilesAre DEF WritesFile, SignalTypeOK
<1>4. ASSUME NEW p \in Pipelines, Registers(p) PROVE SignalTypeOK'
  <2>1. process[p].training \in 1 .. Len(trainings) /\ process[p] \in [training : 0 .. Len(trainings), step : 0 .. 8]
    BY <1>4, FilesAre, TypesUnfold DEF Registers, Busy
  <2>2. versions' \in Seq([training : 1 .. Len(trainings), status : Statuses])
    BY <1>4, <2>1, TypesUnfold DEF Registers, Statuses
  <2>3. process' = [process EXCEPT ![p] = [process[p] EXCEPT !.step = 8]]
    BY <1>4, FilesAre DEF Registers
  <2>4. [process[p] EXCEPT !.step = 8] \in [training : 0 .. Len(trainings), step : 0 .. 8]
    BY <2>1
  <2>5. process' \in [Pipelines -> [training : 0 .. Len(trainings), step : 0 .. 8]]
    BY <2>3, <2>4, TypesUnfold
  <2>. QED
    BY <1>4, <2>2, <2>5, FilesAre DEF Registers, SignalTypeOK, Statuses
<1>5. ASSUME NEW p \in Pipelines, Promotes(p) PROVE SignalTypeOK'
  <2>1. versions' \in Seq([training : 1 .. Len(trainings), status : Statuses])
    BY <1>5, PromotedTypes DEF Promotes
  <2>2. process' \in [Pipelines -> [training : 0 .. Len(trainings), step : 0 .. 8]]
    BY <1>5, TypesUnfold DEF Promotes, NoProcess
  <2>. QED
    BY <1>5, <2>1, <2>2, FilesAre DEF Promotes, SignalTypeOK, Statuses
<1>6. ASSUME NEW p \in Pipelines, RegistryFails(p) \/ ProcessDies(p) PROVE SignalTypeOK'
  <2>1. process' \in [Pipelines -> [training : 0 .. Len(trainings), step : 0 .. 8]]
    <3>1. process' = [process EXCEPT ![p] = [training |-> 0, step |-> 0]]
      BY <1>6 DEF RegistryFails, ProcessDies, NoProcess
    <3>2. [training |-> 0, step |-> 0] \in [training : 0 .. Len(trainings), step : 0 .. 8]
      BY TypesUnfold
    <3>. QED
      BY <3>1, <3>2, TypesUnfold
  <2>2. UNCHANGED <<trainings, disk, versions, loader, dataset, recorder>>
    BY <1>6 DEF RegistryFails, ProcessDies
  <2>. QED
    BY <2>1, <2>2, FilesAre DEF SignalTypeOK
<1>7. ASSUME NEW w \in Loaders, ReadsMetadata(w) PROVE SignalTypeOK'
  <2>1. disk["metadata"] \in 0 .. Len(trainings)
    BY FilesAre, TypesUnfold
  <2>. QED
    BY <1>7, <2>1 DEF ReadsMetadata, SignalTypeOK
<1>8. ASSUME NEW w \in Loaders, LoadsModel(w) PROVE SignalTypeOK'
  <2>1. trainings[loader[w].metadata].best \in FileNames
    <3>1. loader[w].metadata \in DOMAIN trainings
      BY <1>8, TypesUnfold DEF LoadsModel, Booting
    <3>2. trainings[loader[w].metadata] \in Trained
      BY <3>1, TypesUnfold, SeqElement
    <3>. QED
      BY <3>2, FilesAre DEF Trained, Kinds
  <2>2. disk[trainings[loader[w].metadata].best] \in 0 .. Len(trainings)
    BY <2>1, TypesUnfold
  <2>3. loader' \in [Loaders -> [at : {"down", "read", "up"}, metadata : 0 .. Len(trainings), model : 0 .. Len(trainings)]]
    BY <1>8, <2>2, TypesUnfold DEF LoadsModel, NoLoader
  <2>. QED
    BY <1>8, <2>3 DEF LoadsModel, SignalTypeOK
<1>9. ASSUME NEW w \in Loaders, WorkerStops(w) PROVE SignalTypeOK'
  BY <1>9 DEF WorkerStops, SignalTypeOK, NoLoader
<1>10. ASSUME NEW r \in Recorders, LooksUp(r) \/ Inserts(r) PROVE SignalTypeOK'
  <2>1. dataset' \subseteq Recorders
    BY <1>10 DEF LooksUp, Inserts, SignalTypeOK
  <2>2. recorder' \in [Recorders -> [at : {"idle", "missed", "failed", "answered"}, id : Recorders]]
    <3>. DEFINE Recording == [at : {"idle", "missed", "failed", "answered"}, id : Recorders]
    <3>1. recorder \in [Recorders -> Recording] /\ dataset \subseteq Recorders
      BY DEF SignalTypeOK
    <3>2. [recorder[r] EXCEPT !.at = "missed"] \in Recording /\ [recorder[r] EXCEPT !.at = "failed"] \in Recording
      BY <3>1
    <3>3. \A id \in Recorders : [at |-> "answered", id |-> id] \in Recording
      OBVIOUS
    <3>. HIDE DEF Recording
    <3>4. \E new \in Recording : recorder' = [recorder EXCEPT ![r] = new]
      BY <1>10, <3>1, <3>2, <3>3 DEF LooksUp, Inserts
    <3>5. recorder' \in [Recorders -> Recording]
      BY <3>1, <3>4
    <3>. QED
      BY <3>5 DEF Recording
  <2>3. UNCHANGED <<trainings, process, disk, versions, loader>>
    BY <1>10 DEF LooksUp, Inserts
  <2>. QED
    BY <2>1, <2>2, <2>3 DEF SignalTypeOK
<1>. QED
  BY <1>1, <1>2, <1>3, <1>4, <1>5, <1>6, <1>7, <1>8, <1>9, <1>10
  DEF SignalNext, TrainingNext, RecordingNext, ProcessStep

----------------------------------------------------------------------------
(* Champions *)

(* A training belongs to one process, which registers it once. *)
Own ==
  /\ \A p, q \in Pipelines : process[p].training = process[q].training /\ process[p].training # 0 => p = q
  /\ \A p \in Pipelines, i \in DOMAIN versions :
       process[p].training = versions[i].training => process[p].step = 8
  /\ \A i, j \in DOMAIN versions : versions[i].training = versions[j].training => i = j

ProcessInv == SignalTypeOK /\ Busy /\ Own /\ OneChampion

(* What a step that leaves the rows and the trainings alone has to keep. *)
LEMMA RowsStay ==
  ASSUME ProcessInv, UNCHANGED <<trainings, versions>>,
         \A p \in Pipelines :
           \/ process'[p].training = 0 /\ process'[p].step = 0
           \/ process'[p].training = process[p].training /\ process[p].training # 0
              /\ (process[p].step = 8 => process'[p].step = 8)
           \/ process'[p] = process[p]
  PROVE  Busy' /\ Own' /\ OneChampion'
<1>1. \A i \in DOMAIN versions : versions[i].training # 0
  <2>1. TAKE i \in DOMAIN versions
  <2>2. versions[i] \in [training : 1 .. Len(trainings), status : Statuses]
    BY TypesUnfold, SeqElement DEF ProcessInv
  <2>. QED
    BY <2>2
<1>2. Busy'
  BY DEF ProcessInv, Busy
<1>3. Own'
  BY <1>1 DEF ProcessInv, Own
<1>4. OneChampion'
  BY DEF ProcessInv, OneChampion, SymbolOf
<1>. QED
  BY <1>2, <1>3, <1>4

LEMMA TrainsKeeps ==
  ASSUME ProcessInv, NEW p \in Pipelines, NEW s \in SignalSymbols, NEW best \in Kinds,
         NEW calibrated \in {"yes", "no"}, Trains(p, s, best, calibrated)
  PROVE  Busy' /\ Own' /\ OneChampion'
<1>. DEFINE n == Len(trainings)
<1>1. /\ n \in Nat /\ UNCHANGED versions
      /\ process' = [process EXCEPT ![p] = [training |-> n + 1, step |-> 1]]
      /\ \A k \in 1 .. n : trainings'[k] = trainings[k]
  BY TypesUnfold DEF ProcessInv, Trains
<1>2. \A q \in Pipelines : process[q].training \in 0 .. n
  BY TypesUnfold DEF ProcessInv
<1>3. ASSUME NEW i \in DOMAIN versions PROVE versions[i].training \in 1 .. n
  <2>1. versions[i] \in [training : 1 .. n, status : Statuses]
    BY TypesUnfold, SeqElement DEF ProcessInv
  <2>. QED
    BY <2>1
<1>4. \A q \in Pipelines : process'[q] = IF q = p THEN [training |-> n + 1, step |-> 1] ELSE process[q]
  BY <1>1, TypesUnfold DEF ProcessInv
<1>. HIDE DEF n
<1>5. Busy'
  BY <1>1, <1>4 DEF ProcessInv, Busy
<1>6. Own'
  <2>1. ASSUME NEW q \in Pipelines, NEW k \in Pipelines,
               process'[q].training = process'[k].training, process'[q].training # 0
        PROVE  q = k
    BY <2>1, <1>1, <1>2, <1>4 DEF ProcessInv, Own
  <2>2. ASSUME NEW q \in Pipelines, NEW i \in DOMAIN versions, process'[q].training = versions[i].training
        PROVE  process'[q].step = 8
    BY <2>2, <1>1, <1>3, <1>4 DEF ProcessInv, Own
  <2>. QED
    BY <2>1, <2>2, <1>1 DEF ProcessInv, Own
<1>7. OneChampion'
  BY <1>1, <1>3 DEF ProcessInv, OneChampion, SymbolOf
<1>. QED
  BY <1>5, <1>6, <1>7

LEMMA RegistersKeeps ==
  ASSUME ProcessInv, NEW p \in Pipelines, Registers(p)
  PROVE  Busy' /\ Own' /\ OneChampion'
<1>. DEFINE n == Len(versions)
            t == process[p].training
<1>1. /\ n \in Nat /\ DOMAIN versions = 1 .. n /\ DOMAIN versions' = 1 .. n + 1
      /\ versions'[n + 1] = [training |-> t, status |-> "registered"]
      /\ \A i \in 1 .. n : versions'[i] = versions[i]
      /\ UNCHANGED trainings
  BY TypesUnfold DEF ProcessInv, Registers
<1>2. process[p].step = 7 /\ t # 0
  BY FilesAre, TypesUnfold DEF ProcessInv, Registers, Busy
<1>3. \A q \in Pipelines : /\ process'[q].training = process[q].training
                           /\ process'[q].step = IF q = p THEN 8 ELSE process[q].step
  BY FilesAre, TypesUnfold DEF ProcessInv, Registers
<1>4. \A i \in 1 .. n : versions[i].training # t
  BY <1>1, <1>2 DEF ProcessInv, Own
<1>. HIDE DEF n, t
<1>5. Busy'
  BY <1>2, <1>3 DEF ProcessInv, Busy, t
<1>6. Own'
  <2>1. ASSUME NEW q \in Pipelines, NEW i \in 1 .. n + 1, process'[q].training = versions'[i].training
        PROVE  process'[q].step = 8
    <3>1. CASE i = n + 1
      <4>1. process[q].training = process[p].training
        BY <2>1, <3>1, <1>1, <1>3 DEF t
      <4>2. q = p
        BY <4>1, <1>2 DEF ProcessInv, Own, t
      <4>. QED
        BY <4>2, <1>3
    <3>2. CASE i # n + 1
      <4>1. i \in 1 .. n
        BY <3>2, <1>1
      <4>. QED
        BY <2>1, <4>1, <1>1, <1>3 DEF ProcessInv, Own
    <3>. QED
      BY <3>1, <3>2
  <2>2. ASSUME NEW i \in 1 .. n + 1, NEW j \in 1 .. n + 1, versions'[i].training = versions'[j].training
        PROVE  i = j
    BY <2>2, <1>1, <1>4 DEF ProcessInv, Own
  <2>. QED
    BY <2>1, <2>2, <1>1, <1>3 DEF ProcessInv, Own
<1>7. OneChampion'
  BY <1>1 DEF ProcessInv, OneChampion, SymbolOf
<1>. QED
  BY <1>5, <1>6, <1>7

LEMMA PromotesKeeps ==
  ASSUME ProcessInv, NEW p \in Pipelines, Promotes(p)
  PROVE  Busy' /\ Own' /\ OneChampion'
<1>. DEFINE t == process[p].training
<1>1. /\ DOMAIN versions' = DOMAIN versions /\ UNCHANGED trainings
      /\ \A i \in DOMAIN versions :
           /\ versions'[i].training = versions[i].training
           /\ versions'[i].status =
                IF versions[i].training = t THEN "champion"
                ELSE IF versions[i].status = "champion" /\ SymbolOf(versions[i]) = trainings[t].symbol
                THEN "challenger" ELSE versions[i].status
  BY PromotedTypes DEF ProcessInv, Promotes
<1>2. \A q \in Pipelines : process'[q] = IF q = p THEN NoProcess ELSE process[q]
  BY TypesUnfold DEF ProcessInv, Promotes
<1>3. \A i \in DOMAIN versions : versions[i].training # 0
  <2>1. TAKE i \in DOMAIN versions
  <2>2. versions[i] \in [training : 1 .. Len(trainings), status : Statuses]
    BY TypesUnfold, SeqElement DEF ProcessInv
  <2>. QED
    BY <2>2
<1>. HIDE DEF t
<1>4. Busy'
  BY <1>2 DEF ProcessInv, Busy, NoProcess
<1>5. Own'
  BY <1>1, <1>2, <1>3 DEF ProcessInv, Own, NoProcess
<1>6. OneChampion'
  <2>1. ASSUME NEW i \in DOMAIN versions, NEW j \in DOMAIN versions,
               versions'[i].status = "champion", versions'[j].status = "champion",
               trainings[versions[i].training].symbol = trainings[versions[j].training].symbol
        PROVE  i = j
    <3>1. CASE versions[i].training = t /\ versions[j].training = t
      BY <3>1 DEF ProcessInv, Own
    <3>2. CASE versions[i].training = t /\ versions[j].training # t
      BY <2>1, <3>2, <1>1 DEF SymbolOf
    <3>3. CASE versions[i].training # t /\ versions[j].training = t
      BY <2>1, <3>3, <1>1 DEF SymbolOf
    <3>4. CASE versions[i].training # t /\ versions[j].training # t
      BY <2>1, <3>4, <1>1 DEF ProcessInv, OneChampion, SymbolOf
    <3>. QED
      BY <3>1, <3>2, <3>3, <3>4
  <2>. QED
    BY <2>1, <1>1 DEF OneChampion, SymbolOf
<1>. QED
  BY <1>4, <1>5, <1>6

LEMMA ProcessStepKeeps ==
  ASSUME ProcessInv, [SignalNext]_signalVars
  PROVE  Busy' /\ Own' /\ OneChampion'
<1>1. CASE UNCHANGED <<trainings, versions, process>>
  BY <1>1 DEF ProcessInv, Busy, Own, OneChampion, SymbolOf
<1>2. ASSUME NEW p \in Pipelines, ProcessStep(p) PROVE Busy' /\ Own' /\ OneChampion'
  <2>1. CASE \E s \in SignalSymbols, best \in Kinds, calibrated \in {"yes", "no"} : Trains(p, s, best, calibrated)
    BY <2>1, TrainsKeeps
  <2>2. CASE WritesFile(p)
    <3>1. /\ UNCHANGED <<trainings, versions>> /\ process[p].training # 0 /\ process[p].step # 8
          /\ \A q \in Pipelines \ {p} : process'[q] = process[q]
          /\ process'[p].training = process[p].training
      BY <2>2, FilesAre, TypesUnfold DEF ProcessInv, WritesFile, Busy
    <3>. QED
      BY <3>1, RowsStay
  <2>3. CASE Registers(p)
    BY <2>3, RegistersKeeps
  <2>4. CASE Promotes(p)
    BY <2>4, PromotesKeeps
  <2>5. CASE RegistryFails(p) \/ ProcessDies(p)
    <3>1. /\ UNCHANGED <<trainings, versions>>
          /\ \A q \in Pipelines \ {p} : process'[q] = process[q]
          /\ process'[p] = [training |-> 0, step |-> 0]
      BY <2>5, TypesUnfold DEF ProcessInv, RegistryFails, ProcessDies, NoProcess
    <3>. QED
      BY <3>1, RowsStay
  <2>. QED
    BY <1>2, <2>1, <2>2, <2>3, <2>4, <2>5 DEF ProcessStep
<1>3. ASSUME NEW w \in Loaders, ReadsMetadata(w) \/ LoadsModel(w) \/ WorkerStops(w)
      PROVE  UNCHANGED <<trainings, versions, process>>
  BY <1>3 DEF ReadsMetadata, LoadsModel, WorkerStops
<1>4. ASSUME NEW r \in Recorders, LooksUp(r) \/ Inserts(r)
      PROVE  UNCHANGED <<trainings, versions, process>>
  BY <1>4 DEF LooksUp, Inserts
<1>5. UNCHANGED signalVars => UNCHANGED <<trainings, versions, process>>
  BY DEF signalVars
<1>. QED
  BY <1>1, <1>2, <1>3, <1>4, <1>5 DEF SignalNext, TrainingNext, RecordingNext

----------------------------------------------------------------------------
(* Files *)

(* The kinds are written in order, before the manifest, and never removed. *)
Written ==
  /\ \A p \in Pipelines : /\ process[p].step \in 2 .. 8 => disk["logistic"] # 0
                          /\ process[p].step \in 3 .. 8 => disk["xgb"] # 0
                          /\ process[p].step \in 4 .. 8 => disk["lgb"] # 0
  /\ disk["metadata"] # 0 => \A k \in Kinds : disk[k] # 0
  /\ DOMAIN versions # {} => \A k \in Kinds : disk[k] # 0
  /\ \A w \in Loaders : loader[w].at = "up" => loader[w].model # 0

FileInv == SignalTypeOK /\ Busy /\ Booting /\ Written

LEMMA WritesFileKeeps ==
  ASSUME FileInv, NEW p \in Pipelines, WritesFile(p)
  PROVE  Written'
<1>. DEFINE now == process[p].step
            t == process[p].training
<1>1. now \in 1 .. 6 /\ t # 0 /\ process[p] \in [training : 0 .. Len(trainings), step : 0 .. 8]
  BY FilesAre, TypesUnfold DEF FileInv, WritesFile, Busy
<1>2. /\ UNCHANGED <<trainings, versions, loader>>
      /\ \A q \in Pipelines : process'[q].step = IF q = p THEN now + 1 ELSE process[q].step
  BY TypesUnfold DEF FileInv, WritesFile
<1>3. \A f \in FileNames : disk'[f] = disk[f] \/ disk'[f] = t
  BY <1>1, FilesAre, TypesUnfold DEF FileInv, WritesFile
<1>4. \A f \in FileNames \ {Files[now]} : disk'[f] = disk[f]
  BY <1>1, FilesAre, TypesUnfold DEF FileInv, WritesFile
<1>5. Files[now] # "calibrated" => disk'[Files[now]] = t
  BY <1>1, FilesAre, TypesUnfold DEF FileInv, WritesFile
<1>6. \A q \in Pipelines : /\ process[q].step \in 0 .. 8
                           /\ process[q].step \in 2 .. 8 => disk["logistic"] # 0
                           /\ process[q].step \in 3 .. 8 => disk["xgb"] # 0
                           /\ process[q].step \in 4 .. 8 => disk["lgb"] # 0
  BY TypesUnfold DEF FileInv, Written
<1>. HIDE DEF now, t
<1>7. \A f \in FileNames : disk[f] # 0 => disk'[f] # 0
  BY <1>1, <1>3
<1>8. /\ now = 1 => disk'["logistic"] # 0
      /\ now = 2 => disk'["xgb"] # 0
      /\ now = 3 => disk'["lgb"] # 0
      /\ now # 4 => disk'["metadata"] = disk["metadata"]
  BY <1>1, <1>4, <1>5, FilesAre
<1>9. ASSUME NEW q \in Pipelines
      PROVE  /\ process'[q].step \in 2 .. 8 => disk'["logistic"] # 0
             /\ process'[q].step \in 3 .. 8 => disk'["xgb"] # 0
             /\ process'[q].step \in 4 .. 8 => disk'["lgb"] # 0
  <2>1. CASE q = p
    <3>1. process'[q].step = now + 1 /\ now = process[p].step
      BY <2>1, <1>2 DEF now
    <3>2. /\ now \in 2 .. 8 => disk["logistic"] # 0
          /\ now \in 3 .. 8 => disk["xgb"] # 0
          /\ now \in 4 .. 8 => disk["lgb"] # 0
      BY <3>1, <1>6
    <3>3. /\ disk["logistic"] # 0 => disk'["logistic"] # 0
          /\ disk["xgb"] # 0 => disk'["xgb"] # 0
          /\ disk["lgb"] # 0 => disk'["lgb"] # 0
      BY <1>7, FilesAre
    <3>. QED
      BY <3>1, <3>2, <3>3, <1>1, <1>8
  <2>2. CASE q # p
    <3>1. process'[q].step = process[q].step
      BY <2>2, <1>2
    <3>2. /\ disk["logistic"] # 0 => disk'["logistic"] # 0
          /\ disk["xgb"] # 0 => disk'["xgb"] # 0
          /\ disk["lgb"] # 0 => disk'["lgb"] # 0
      BY <1>7, FilesAre
    <3>. QED
      BY <3>1, <3>2, <1>6
  <2>. QED
    BY <2>1, <2>2
<1>10. now = 4 => \A k \in Kinds : disk'[k] # 0
  <2>1. now = 4 => disk["logistic"] # 0 /\ disk["xgb"] # 0 /\ disk["lgb"] # 0
    BY <1>6 DEF now
  <2>. QED
    BY <2>1, <1>7, FilesAre DEF Kinds
<1>11. disk'["metadata"] # 0 => \A k \in Kinds : disk'[k] # 0
  BY <1>7, <1>8, <1>10, FilesAre DEF FileInv, Written, Kinds
<1>12. DOMAIN versions # {} => \A k \in Kinds : disk'[k] # 0
  BY <1>7, FilesAre DEF FileInv, Written, Kinds
<1>. QED
  BY <1>2, <1>9, <1>11, <1>12 DEF FileInv, Written

LEMMA FilesKeep ==
  ASSUME FileInv, [SignalNext]_signalVars
  PROVE  Booting' /\ Written'
<1>1. ASSUME UNCHANGED <<disk, loader>>, DOMAIN versions' = DOMAIN versions,
             \A q \in Pipelines : process'[q].step \in {0, 1, process[q].step}
      PROVE  Booting' /\ Written'
  BY <1>1 DEF FileInv, Booting, Written
<1>2. ASSUME NEW p \in Pipelines, ProcessStep(p) PROVE Booting' /\ Written'
  <2>1. ASSUME NEW s \in SignalSymbols, NEW best \in Kinds, NEW calibrated \in {"yes", "no"},
               Trains(p, s, best, calibrated)
        PROVE  Booting' /\ Written'
    BY <2>1, <1>1, TypesUnfold DEF FileInv, Trains
  <2>2. CASE WritesFile(p)
    BY <2>2, WritesFileKeeps DEF FileInv, Booting, WritesFile
  <2>3. CASE Registers(p)
    <3>1. /\ UNCHANGED <<disk, loader>> /\ process[p].step = 7
          /\ \A q \in Pipelines : process'[q].step = IF q = p THEN 8 ELSE process[q].step
      BY <2>3, FilesAre, TypesUnfold DEF FileInv, Registers
    <3>2. \A k \in Kinds : disk[k] # 0
      <4>1. process[p].step \in 2 .. 8 /\ process[p].step \in 3 .. 8 /\ process[p].step \in 4 .. 8
        BY <3>1
      <4>2. disk["logistic"] # 0 /\ disk["xgb"] # 0 /\ disk["lgb"] # 0
        BY <4>1 DEF FileInv, Written
      <4>. QED
        BY <4>2 DEF Kinds
    <3>. QED
      BY <3>1, <3>2 DEF FileInv, Booting, Written, Kinds
  <2>4. CASE Promotes(p)
    <3>1. /\ DOMAIN versions' = DOMAIN versions /\ UNCHANGED <<disk, loader>>
          /\ \A q \in Pipelines : process'[q].step \in {0, process[q].step}
      BY <2>4, PromotedTypes, TypesUnfold DEF FileInv, Promotes, NoProcess
    <3>. QED
      BY <3>1, <1>1
  <2>5. CASE RegistryFails(p) \/ ProcessDies(p)
    <3>1. /\ UNCHANGED <<versions, disk, loader>>
          /\ \A q \in Pipelines : process'[q].step \in {0, process[q].step}
      BY <2>5, TypesUnfold DEF FileInv, RegistryFails, ProcessDies, NoProcess
    <3>. QED
      BY <3>1, <1>1
  <2>. QED
    BY <1>2, <2>1, <2>2, <2>3, <2>4, <2>5 DEF ProcessStep
<1>3. ASSUME NEW w \in Loaders, ReadsMetadata(w) \/ LoadsModel(w) \/ WorkerStops(w)
      PROVE  Booting' /\ Written'
  <2>1. UNCHANGED <<process, disk, versions>>
    BY <1>3 DEF ReadsMetadata, LoadsModel, WorkerStops
  <2>2. \A v \in Loaders \ {w} : loader'[v] = loader[v]
    BY <1>3, TypesUnfold DEF FileInv, ReadsMetadata, LoadsModel, WorkerStops
  <2>3. /\ loader'[w].at = "read" => loader'[w].metadata # 0
        /\ loader'[w].at = "up" => loader'[w].model # 0
    <3>1. CASE ReadsMetadata(w)
      BY <3>1, TypesUnfold DEF FileInv, ReadsMetadata
    <3>2. CASE LoadsModel(w)
      <4>. DEFINE model == disk[trainings[loader[w].metadata].best]
      <4>1. loader' = [loader EXCEPT ![w] = IF model = 0 THEN NoLoader ELSE [loader[w] EXCEPT !.at = "up", !.model = model]]
        BY <3>2 DEF LoadsModel
      <4>2. loader'[w] = IF model = 0 THEN NoLoader ELSE [loader[w] EXCEPT !.at = "up", !.model = model]
        BY <4>1, TypesUnfold DEF FileInv
      <4>. HIDE DEF model
      <4>3. CASE model = 0
        BY <4>2, <4>3 DEF NoLoader
      <4>4. CASE model # 0
        <5>1. loader[w] \in [at : {"down", "read", "up"}, metadata : 0 .. Len(trainings), model : 0 .. Len(trainings)]
          BY TypesUnfold DEF FileInv
        <5>. QED
          BY <4>2, <4>4, <5>1
      <4>. QED
        BY <4>3, <4>4
    <3>3. CASE WorkerStops(w)
      BY <3>3, TypesUnfold DEF FileInv, WorkerStops, NoLoader
    <3>. QED
      BY <1>3, <3>1, <3>2, <3>3
  <2>. QED
    BY <2>1, <2>2, <2>3 DEF FileInv, Booting, Written
<1>4. ASSUME NEW r \in Recorders, LooksUp(r) \/ Inserts(r) PROVE Booting' /\ Written'
  <2>1. UNCHANGED <<process, disk, versions, loader>>
    BY <1>4 DEF LooksUp, Inserts
  <2>. QED
    BY <2>1 DEF FileInv, Booting, Written
<1>5. CASE UNCHANGED signalVars
  BY <1>5 DEF FileInv, Booting, Written, signalVars
<1>. QED
  BY <1>2, <1>3, <1>4, <1>5 DEF SignalNext, TrainingNext, RecordingNext

(* The best kind of a training is one of the three. *)
LEMMA NamedAreWritten ==
  ASSUME FileInv
  PROVE  NamedModelsAreThere
<1>1. ASSUME NEW t \in 1 .. Len(trainings) PROVE trainings[t].best \in Kinds
  <2>1. trainings[t] \in Trained
    BY TypesUnfold, SeqElement DEF FileInv
  <2>. QED
    BY <2>1 DEF Trained
<1>2. disk["metadata"] # 0 => disk["metadata"] \in 1 .. Len(trainings)
  BY FilesAre, TypesUnfold DEF FileInv
<1>3. \A i \in DOMAIN versions : versions[i].training \in 1 .. Len(trainings)
  <2>1. TAKE i \in DOMAIN versions
  <2>2. versions[i] \in [training : 1 .. Len(trainings), status : Statuses]
    BY TypesUnfold, SeqElement DEF FileInv
  <2>. QED
    BY <2>2
<1>. QED
  BY <1>1, <1>2, <1>3 DEF FileInv, Written, NamedModelsAreThere

----------------------------------------------------------------------------
(* Recorded datasets *)

RecordInv ==
  /\ SignalTypeOK
  /\ \A r \in Recorders : recorder[r].at = "answered" => recorder[r].id \in dataset
  /\ \A a, b \in dataset : a = b

LEMMA RecordsKeep ==
  ASSUME RecordInv, [SignalNext]_signalVars, SignalTypeOK'
  PROVE  RecordInv'
<1>1. CASE UNCHANGED <<dataset, recorder>>
  BY <1>1 DEF RecordInv
<1>2. ASSUME NEW r \in Recorders, LooksUp(r) PROVE RecordInv'
  <2>1. UNCHANGED dataset /\ \A q \in Recorders \ {r} : recorder'[q] = recorder[q]
    BY <1>2 DEF LooksUp, RecordInv, SignalTypeOK
  <2>2. recorder'[r].at = "answered" => recorder'[r].id \in dataset
    BY <1>2 DEF LooksUp, RecordInv, SignalTypeOK
  <2>. QED
    BY <2>1, <2>2 DEF RecordInv
<1>3. ASSUME NEW r \in Recorders, Inserts(r) PROVE RecordInv'
  <2>1. CASE dataset = {}
    <3>1. dataset' = {r} /\ recorder' = [recorder EXCEPT ![r] = [at |-> "answered", id |-> r]]
      BY <1>3, <2>1 DEF Inserts
    <3>2. \A q \in Recorders : recorder'[q].at = "answered" => q = r \/ recorder[q].at = "answered"
      BY <3>1 DEF RecordInv, SignalTypeOK
    <3>3. \A q \in Recorders : recorder[q].at # "answered"
      BY <2>1 DEF RecordInv
    <3>4. recorder'[r].id = r
      BY <3>1 DEF RecordInv, SignalTypeOK
    <3>. QED
      BY <3>1, <3>2, <3>3, <3>4 DEF RecordInv
  <2>2. CASE dataset # {}
    <3>1. UNCHANGED dataset /\ recorder'[r].at = "failed" /\ \A q \in Recorders \ {r} : recorder'[q] = recorder[q]
      BY <1>3, <2>2 DEF Inserts, RecordInv, SignalTypeOK
    <3>. QED
      BY <3>1 DEF RecordInv
  <2>. QED
    BY <2>1, <2>2
<1>4. ASSUME TrainingNext PROVE UNCHANGED <<dataset, recorder>>
  <2>1. ASSUME NEW p \in Pipelines, NEW s \in SignalSymbols, NEW best \in Kinds, NEW calibrated \in {"yes", "no"},
               Trains(p, s, best, calibrated)
        PROVE  UNCHANGED <<dataset, recorder>>
    BY <2>1 DEF Trains
  <2>2. ASSUME NEW p \in Pipelines, ProcessStep(p)
        PROVE  UNCHANGED <<dataset, recorder>>
    BY <2>1, <2>2 DEF ProcessStep, WritesFile, Registers, Promotes, RegistryFails, ProcessDies
  <2>3. ASSUME NEW w \in Loaders, ReadsMetadata(w) \/ LoadsModel(w) \/ WorkerStops(w)
        PROVE  UNCHANGED <<dataset, recorder>>
    BY <2>3 DEF ReadsMetadata, LoadsModel, WorkerStops
  <2>. QED
    BY <1>4, <2>1, <2>2, <2>3 DEF TrainingNext
<1>5. UNCHANGED signalVars => UNCHANGED <<dataset, recorder>>
  BY DEF signalVars
<1>. QED
  BY <1>1, <1>2, <1>3, <1>4, <1>5 DEF SignalNext, RecordingNext

----------------------------------------------------------------------------
(* Theorems *)

RegistryInv == ProcessInv /\ FileInv /\ RecordInv

LEMMA RegistryInit == SignalInit => RegistryInv
<1>. SUFFICES ASSUME SignalInit PROVE RegistryInv
  OBVIOUS
<1>1. SignalTypeOK
  BY TypeInit
<1>2. DOMAIN versions = {}
  BY DEF SignalInit
<1>3. \A p \in Pipelines : process[p].training = 0 /\ process[p].step = 0
  <2>. SUFFICES ASSUME NEW p \in Pipelines PROVE process[p].training = 0 /\ process[p].step = 0
    BY Zenon
  <2>1. process[p] = NoProcess
    BY Zenon DEF SignalInit
  <2>2. NoProcess.training = 0 /\ NoProcess.step = 0
    BY DEF NoProcess
  <2>. QED
    BY <2>1, <2>2, Zenon
<1>4. /\ \A w \in Loaders : loader[w].at = "down"
      /\ \A f \in FileNames : disk[f] = 0
      /\ dataset = {} /\ \A r \in Recorders : recorder[r].at = "idle"
  BY DEF SignalInit, NoLoader
<1>5. disk["metadata"] = 0
  BY <1>4, FilesAre
<1>. QED
  BY <1>1, <1>2, <1>3, <1>4, <1>5
  DEF RegistryInv, ProcessInv, FileInv, RecordInv, Busy, Own, OneChampion, Booting, Written

LEMMA RegistryStep == RegistryInv /\ [SignalNext]_signalVars => RegistryInv'
<1>. SUFFICES ASSUME RegistryInv, [SignalNext]_signalVars PROVE RegistryInv'
  OBVIOUS
<1>1. SignalTypeOK'
  BY StepTypes DEF RegistryInv, ProcessInv, FileInv
<1>2. Busy' /\ Own' /\ OneChampion'
  BY ProcessStepKeeps DEF RegistryInv
<1>3. Booting' /\ Written'
  BY FilesKeep DEF RegistryInv
<1>4. RecordInv'
  BY <1>1, RecordsKeep DEF RegistryInv
<1>. QED
  BY <1>1, <1>2, <1>3, <1>4 DEF RegistryInv, ProcessInv, FileInv

(* What holds of rows, processes, files and workers at every moment. *)
THEOREM RegistryInvariant == SignalSpec => []RegistryInv
<1>. QED
  BY RegistryInit, RegistryStep, PTL DEF SignalSpec

(* However many processes train a symbol, and wherever they die, it has    *)
(* one champion (promote_model): the row that was promoted last.           *)
THEOREM ChampionsAreSingle == SignalSpec => []OneChampion
<1>1. RegistryInv => OneChampion
  BY DEF RegistryInv, ProcessInv
<1>. QED
  BY <1>1, RegistryInvariant, PTL

(* A manifest or a row names a model that is on disk, a worker that booted *)
(* has one, and a dataset recorded by many at once was answered with one   *)
(* id (train_pipeline, record_dataset_version).                            *)
THEOREM RegistryIsCoherent == SignalSpec => []RegistryAgrees
<1>0. RegistryInv => OneChampion
  BY DEF RegistryInv, ProcessInv
<1>1. RegistryInv => NamedModelsAreThere
  BY NamedAreWritten DEF RegistryInv
<1>2. RegistryInv => RecordedOnce
  BY DEF RegistryInv, RecordInv, RecordedOnce
<1>3. RegistryInv => RegistryAgrees
  BY <1>0, <1>1, <1>2 DEF RegistryAgrees
<1>. QED
  BY <1>3, RegistryInvariant, PTL

LEMMA RegistryTypes == RegistryInv => SignalTypeOK
  BY DEF RegistryInv, ProcessInv

(* Every variable keeps to its type. *)
THEOREM RegistryTyped == SignalSpec => []SignalTypeOK
<1>. QED
  BY RegistryTypes, RegistryInvariant, PTL

----------------------------------------------------------------------------
(* PredictionService: the calls of the Python wrapper                      *)

(* A caller in stop goes on with start or raises.                          *)
ThreadsTyped ==
  /\ at \in [Threads -> Returned \cup {"idle", "stop", "reap", "drain", "start", "spawn", "launch", "await",
                                       "register", "write", "wait"}]
  /\ after \in [Threads -> {"start", "raised", "answered"}]
  /\ \A c \in Callers : after[c] # "answered"

WorkersTyped ==
  /\ current = spawned /\ spawned \in 0 .. MaxWorkers
  /\ life \in [Workers -> {"none", "booting", "up", "dead"}]
  /\ reader \in [Workers -> {"none", "starting", "reading", "done", "crashed"}]
  /\ pipe \in [Workers -> 0 .. spawned]
  /\ \A w \in Workers : /\ (life[w] = "none") = (w > spawned) /\ (reader[w] = "none") = (w > spawned)
                        /\ reader[w] \in {"reading", "done", "crashed"} => pipe[w] >= w

CallsTyped ==
  /\ slots \subseteq Callers /\ target \in [Callers -> 0 .. spawned]
  /\ result \in [Callers -> {"none", "ok", "error"}] /\ missed \in [Callers -> SUBSET Workers]
  /\ requests \in Nat /\ failures \in Nat

(* The readers that have ended did so before the call was registered, and  *)
(* none of them saw the end of the process that the call awaits.           *)
NoneSince(c) ==
  \A r \in Workers : reader[r] \in Ended =>
    r \in missed[c] /\ (at[c] = "wait" /\ pipe[r] = target[c] => reader[r] = "crashed")

(* A call that awaits a process wrote to one that was spawned, and has its *)
(* slot until its result is there.                                         *)
WaitersKnown ==
  \A c \in Callers :
    /\ at[c] = "wait" => target[c] \in Workers
    /\ at[c] \in {"write", "wait"} /\ result[c] = "none" => c \in slots /\ NoneSince(c)

(* A reader sees the end of its pipe only after that of the process.       *)
ReadersOutlive == \A r \in Workers : reader[r] = "done" => life[pipe[r]] = "dead"

ServiceInv == ThreadsTyped /\ WorkersTyped /\ CallsTyped /\ WaitersKnown /\ ReadersOutlive /\ CountedOnce

CountedCalls == {c \in Callers : at[c] \in {"write", "wait", "answered", "lost"}}

LEMMA CallerSetsFinite ==
  ASSUME NEW S \in SUBSET Callers
  PROVE  IsFiniteSet(S) /\ Cardinality(S) \in Nat
BY CallerAssumption, FS_Subset, FS_CardinalityType

(* A thread that goes to another place is counted there or not; the others *)
(* are counted as before.                                                  *)
LEMMA GoesCounts ==
  ASSUME ThreadsTyped, NEW t \in Threads, NEW place, Goes(t, place)
  PROVE  LET counts == place \in {"write", "wait", "answered", "lost"}
         IN /\ t \notin Callers \/ (t \in CountedCalls <=> counts) => Cardinality(CountedCalls') = Cardinality(CountedCalls)
            /\ t \in Callers /\ t \notin CountedCalls /\ counts => Cardinality(CountedCalls') = Cardinality(CountedCalls) + 1
            /\ t \in CountedCalls /\ ~counts => Cardinality(CountedCalls') = Cardinality(CountedCalls) - 1
<1>. DEFINE counts == place \in {"write", "wait", "answered", "lost"}
<1>1. /\ CountedCalls \in SUBSET Callers
      /\ IsFiniteSet(CountedCalls) /\ Cardinality(CountedCalls) \in Nat
  BY CallerSetsFinite DEF CountedCalls
<1>2. at'[t] = place /\ \A c \in Callers : c # t => at'[c] = at[c]
  BY DEF Goes, ThreadsTyped, Threads
<1>3. ASSUME t \notin Callers \/ (t \in CountedCalls <=> counts)
      PROVE  CountedCalls' = CountedCalls
  BY <1>2, <1>3 DEF CountedCalls
<1>4. ASSUME t \in Callers, t \notin CountedCalls, counts
      PROVE  Cardinality(CountedCalls') = Cardinality(CountedCalls) + 1
  <2>1. CountedCalls' = CountedCalls \cup {t}
    BY <1>2, <1>4 DEF CountedCalls
  <2>. QED
    BY <2>1, <1>1, <1>4, FS_AddElement
<1>5. ASSUME t \in CountedCalls, ~counts
      PROVE  Cardinality(CountedCalls') = Cardinality(CountedCalls) - 1
  <2>1. CountedCalls' = CountedCalls \ {t}
    BY <1>2, <1>5 DEF CountedCalls
  <2>. QED
    BY <2>1, <1>1, <1>5, FS_RemoveElement
<1>. QED
  BY <1>3, <1>4, <1>5

(* A reader that has begun reads its own process or a later one. *)
LEMMA PipeIs ==
  ASSUME WorkersTyped, NEW r \in Workers, reader[r] \in {"reading", "done", "crashed"}
  PROVE  pipe[r] \in Workers /\ pipe[r] \in r .. spawned
BY WorkerAssumption DEF WorkersTyped, Workers

(* What is dead remains so, and so the readers outlive the processes. *)
LEMMA DeadRemain ==
  ASSUME WorkersTyped, ReadersOutlive, UNCHANGED <<reader, pipe>>,
         \A w \in Workers : life[w] = "dead" => life'[w] = "dead"
  PROVE  ReadersOutlive'
BY PipeIs DEF ReadersOutlive

Uncounted(place) == place \notin {"write", "wait", "answered", "lost"}

(* A thread moves about without touching calls or processes.               *)
LEMMA ElsewhereKeeps ==
  ASSUME ServiceInv, NEW t \in Threads, NEW place, Goes(t, place), ThreadsTyped',
         t \in Callers => Uncounted(at[t]) /\ Uncounted(place),
         UNCHANGED <<current, spawned, life, reader, pipe, calls>>
  PROVE  ServiceInv'
<1>1. ThreadsTyped /\ WorkersTyped /\ CallsTyped /\ WaitersKnown /\ ReadersOutlive /\ CountedOnce
  BY DEF ServiceInv
<1>2. \A c \in Callers : at'[c] \in {"write", "wait"} => at'[c] = at[c]
  BY <1>1 DEF Goes, ThreadsTyped, Threads, Uncounted
<1>3. WorkersTyped' /\ CallsTyped' /\ ReadersOutlive'
  BY <1>1 DEF WorkersTyped, CallsTyped, ReadersOutlive, calls
<1>4. WaitersKnown'
  BY <1>1, <1>2 DEF WaitersKnown, NoneSince, calls
<1>5. Cardinality(CountedCalls') = Cardinality(CountedCalls)
  BY <1>1, GoesCounts DEF CountedCalls, Uncounted
<1>6. CountedOnce'
  BY <1>1, <1>5 DEF CountedOnce, CountedCalls, calls
<1>. QED
  BY <1>3, <1>4, <1>6 DEF ServiceInv

LEMMA StopStepKeeps ==
  ASSUME ServiceInv, NEW t \in Threads, StopStep(t)
  PROVE  ServiceInv'
<1>1. ThreadsTyped /\ WorkersTyped /\ CallsTyped /\ WaitersKnown /\ ReadersOutlive /\ CountedOnce
  BY DEF ServiceInv
<1>2. CASE StopBegins(t)
  <2>1. PICK place \in {"reap", "drain"} : Goes(t, place)
    BY <1>2 DEF StopBegins
  <2>2. ThreadsTyped'
    BY <1>1, <1>2, <2>1 DEF StopBegins, ThreadsTyped, Goes
  <2>. QED
    BY <1>2, <2>1, <2>2, ElsewhereKeeps DEF StopBegins, Uncounted
<1>3. CASE StopReaps(t)
  <2>1. Goes(t, "drain") /\ at[t] = "reap" /\ UNCHANGED <<after, current, spawned, reader, pipe, calls>>
    BY <1>3 DEF StopReaps, service
  <2>2. ThreadsTyped'
    BY <1>1, <2>1 DEF ThreadsTyped, Goes
  <2>3. \A w \in Workers : life'[w] = life[w] \/ (life'[w] = "dead" /\ life[w] # "none")
    BY <1>1, <1>3 DEF StopReaps, WorkersTyped, Workers
  <2>4. life' \in [Workers -> {"none", "booting", "up", "dead"}]
    BY <1>1, <1>3 DEF StopReaps, WorkersTyped
  <2>5. WorkersTyped' /\ CallsTyped' /\ ReadersOutlive'
    <3>1. WorkersTyped'
      BY <1>1, <2>1, <2>3, <2>4 DEF WorkersTyped
    <3>2. CallsTyped'
      BY <1>1, <2>1 DEF CallsTyped, calls
    <3>3. \A w \in Workers : life[w] = "dead" => life'[w] = "dead"
      BY <2>3
    <3>. QED
      BY <1>1, <2>1, <3>1, <3>2, <3>3, DeadRemain
  <2>6. \A c \in Callers : at'[c] \in {"write", "wait"} => at'[c] = at[c]
    BY <1>1, <2>1 DEF Goes, ThreadsTyped, Threads
  <2>7. WaitersKnown'
    BY <1>1, <2>1, <2>6 DEF WaitersKnown, NoneSince, calls
  <2>8. Cardinality(CountedCalls') = Cardinality(CountedCalls)
    BY <1>1, <2>1, GoesCounts DEF CountedCalls
  <2>9. CountedOnce'
    BY <1>1, <2>1, <2>8 DEF CountedOnce, CountedCalls, calls
  <2>. QED
    BY <2>2, <2>5, <2>7, <2>9 DEF ServiceInv
<1>4. CASE StopDrains(t)
  <2>1. Goes(t, after[t]) /\ at[t] = "drain"
        /\ UNCHANGED <<after, current, spawned, life, reader, pipe, target, missed, requests, failures>>
    BY <1>4 DEF StopDrains, service, workers
  <2>2. ThreadsTyped'
    BY <1>1, <2>1 DEF ThreadsTyped, Goes, Returned
  <2>3. \A c \in Callers : result'[c] = "none" => result[c] = "none" /\ c \notin slots
    BY <1>1, <1>4 DEF StopDrains, CallsTyped
  <2>4. slots' = {} /\ result' \in [Callers -> {"none", "ok", "error"}]
    BY <1>1, <1>4 DEF StopDrains, CallsTyped
  <2>5. WorkersTyped' /\ CallsTyped' /\ ReadersOutlive'
    BY <1>1, <2>1, <2>4 DEF WorkersTyped, CallsTyped, ReadersOutlive
  <2>6. \A c \in Callers : at'[c] \in {"write", "wait"} => at'[c] = at[c]
    BY <1>1, <2>1 DEF Goes, ThreadsTyped, Threads
  <2>7. WaitersKnown'
    BY <1>1, <2>1, <2>3, <2>6 DEF WaitersKnown, NoneSince
  <2>8. Cardinality(CountedCalls') = Cardinality(CountedCalls)
    BY <1>1, <2>1, GoesCounts DEF CountedCalls, ThreadsTyped
  <2>9. CountedOnce'
    BY <1>1, <2>1, <2>8 DEF CountedOnce, CountedCalls
  <2>. QED
    BY <2>2, <2>5, <2>7, <2>9 DEF ServiceInv
<1>. QED
  BY <1>2, <1>3, <1>4 DEF StopStep

(* A new process has a reader that has still to run.                       *)
LEMMA SpawnTypes ==
  ASSUME WorkersTyped, CallsTyped, ReadersOutlive, SpawnWorker
  PROVE  /\ WorkersTyped' /\ CallsTyped' /\ ReadersOutlive' /\ pipe' = pipe
         /\ \A w \in Workers : reader'[w] \in Ended => reader'[w] = reader[w]
<1>1. /\ spawned' = spawned + 1 /\ spawned' \in Workers /\ current' = spawned'
      /\ life' = [life EXCEPT ![spawned'] = "booting"]
      /\ reader' = [reader EXCEPT ![spawned'] = "starting"]
      /\ UNCHANGED <<pipe, calls>>
  BY DEF SpawnWorker
<1>2. \A w \in Workers : /\ reader'[w] = IF w = spawned' THEN "starting" ELSE reader[w]
                         /\ life'[w] = IF w = spawned' THEN "booting" ELSE life[w]
  BY <1>1 DEF WorkersTyped
<1>3. WorkersTyped'
  <2>1. spawned \in Nat /\ pipe' \in [Workers -> 0 .. spawned']
    BY <1>1 DEF WorkersTyped
  <2>. QED
    BY <1>1, <1>2, <2>1, WorkerAssumption DEF WorkersTyped, Workers
<1>4. CallsTyped'
  BY <1>1 DEF CallsTyped, calls, WorkersTyped
<1>5. ReadersOutlive'
  <2>. SUFFICES ASSUME NEW r \in Workers, reader'[r] = "done" PROVE life'[pipe'[r]] = "dead"
    BY DEF ReadersOutlive
  <2>1. reader[r] = "done" /\ life[pipe[r]] = "dead"
    BY <1>2 DEF ReadersOutlive
  <2>2. pipe[r] \in 0 .. spawned /\ pipe[r] >= r
    BY <2>1 DEF WorkersTyped
  <2>3. pipe[r] \in Workers /\ pipe[r] # spawned'
    BY <1>1, <2>2, WorkerAssumption DEF Workers, WorkersTyped
  <2>. QED
    BY <1>1, <1>2, <2>1, <2>3
<1>. QED
  BY <1>1, <1>2, <1>3, <1>4, <1>5 DEF Ended

LEMMA StartStepKeeps ==
  ASSUME ServiceInv, NEW c \in Callers,
         \/ StartBegins(c) \/ StartSpawns(c) \/ StartRuns(c) \/ StartFails(c)
         \/ StartEnds(c) \/ StartTimesOut(c) \/ Predict(c)
  PROVE  ServiceInv'
<1>1. ThreadsTyped /\ WorkersTyped /\ CallsTyped /\ WaitersKnown /\ ReadersOutlive /\ CountedOnce
  BY DEF ServiceInv
<1>2. c \in Threads
  BY DEF Threads
<1>3. CASE StartBegins(c) \/ StartRuns(c) \/ StartFails(c) \/ StartEnds(c) \/ StartTimesOut(c) \/ Predict(c)
  <2>1. PICK place \in {"register", "spawn", "await", "raised", "stop"} : Goes(c, place)
    BY <1>3 DEF StartBegins, StartRuns, StartFails, StartEnds, StartTimesOut, Predict
  <2>2. UNCHANGED <<current, spawned, life, reader, pipe, calls>> /\ at[c] \in {"start", "spawn", "launch", "await", "idle"}
    BY <1>3 DEF StartBegins, StartRuns, StartFails, StartEnds, StartTimesOut, Predict, service, workers
  <2>3. after' = after \/ after' = [after EXCEPT ![c] = "raised"]
    BY <1>3 DEF StartBegins, StartRuns, StartFails, StartEnds, StartTimesOut, Predict
  <2>4. ThreadsTyped'
    BY <1>1, <1>2, <2>1, <2>3 DEF ThreadsTyped, Goes, Returned, Threads
  <2>. QED
    BY <1>2, <2>1, <2>2, <2>4, ElsewhereKeeps DEF Uncounted
<1>4. CASE StartSpawns(c)
  <2>1. Goes(c, "launch") /\ at[c] = "spawn" /\ SpawnWorker /\ UNCHANGED <<after, calls>>
    BY <1>4 DEF StartSpawns, SpawnWorker
  <2>2. ThreadsTyped'
    BY <1>1, <1>2, <2>1 DEF ThreadsTyped, Goes
  <2>3. \A x \in Callers : at'[x] \in {"write", "wait"} => at'[x] = at[x]
    BY <1>1, <1>2, <2>1 DEF Goes, ThreadsTyped, Threads
  <2>4. WaitersKnown'
    BY <1>1, <2>1, <2>3, SpawnTypes DEF WaitersKnown, NoneSince, calls
  <2>5. Cardinality(CountedCalls') = Cardinality(CountedCalls)
    BY <1>1, <1>2, <2>1, GoesCounts DEF CountedCalls
  <2>6. CountedOnce'
    BY <1>1, <2>1, <2>5 DEF CountedOnce, CountedCalls, calls
  <2>. QED
    BY <1>1, <2>1, <2>2, <2>4, <2>6, SpawnTypes DEF ServiceInv
<1>. QED
  BY <1>3, <1>4

LEMMA CallingKeeps ==
  ASSUME ServiceInv, NEW c \in Callers, Register(c) \/ Write(c) \/ Returns(c) \/ TimesOut(c)
  PROVE  ServiceInv'
<1>1. ThreadsTyped /\ WorkersTyped /\ CallsTyped /\ WaitersKnown /\ ReadersOutlive /\ CountedOnce
  BY DEF ServiceInv
<1>2. c \in Threads /\ requests = Cardinality(CountedCalls) + failures
      /\ Cardinality(CountedCalls) \in Nat /\ requests \in Nat /\ failures \in Nat
  BY <1>1, CallerSetsFinite DEF Threads, CountedOnce, CountedCalls, CallsTyped
<1>3. PICK place \in {"write", "wait", "failed", "lost", "answered"} : Goes(c, place)
  BY DEF Register, Write, Returns, TimesOut
<1>4. UNCHANGED <<after, current, spawned, life, reader, pipe>>
  BY DEF Register, Write, Returns, TimesOut, service, workers
<1>5. ThreadsTyped' /\ WorkersTyped' /\ ReadersOutlive'
  BY <1>1, <1>2, <1>3, <1>4 DEF ThreadsTyped, Goes, Returned, WorkersTyped, ReadersOutlive
<1>6. at'[c] = place /\ \A x \in Callers : x # c => at'[x] = at[x]
  BY <1>1, <1>2, <1>3 DEF Goes, ThreadsTyped, Threads
<1>7. CASE Register(c)
  <2>1. at[c] = "register" /\ Goes(c, "write") /\ slots' = slots \cup {c} /\ requests' = requests + 1
        /\ missed' = [missed EXCEPT ![c] = {r \in Workers : reader[r] \in Ended}]
        /\ UNCHANGED <<result, target, failures>>
    BY <1>7 DEF Register
  <2>2. at'[c] = "write"
    BY <1>1, <1>2, <2>1 DEF Goes, ThreadsTyped
  <2>3. CallsTyped'
    BY <1>1, <1>4, <2>1 DEF CallsTyped
  <2>4. \A x \in Callers : missed'[x] = IF x = c THEN {r \in Workers : reader[r] \in Ended} ELSE missed[x]
    BY <1>1, <2>1 DEF CallsTyped
  <2>5. c \in slots' /\ NoneSince(c)' /\ target'[c] = target[c]
    <3>1. missed'[c] = {r \in Workers : reader[r] \in Ended} /\ reader' = reader
      BY <1>4, <2>4
    <3>2. \A r \in Workers : reader'[r] \in Ended => r \in missed'[c]
      BY <3>1
    <3>3. NoneSince(c)'
      BY <2>2, <3>2 DEF NoneSince
    <3>. QED
      BY <2>1, <3>3
  <2>6. ASSUME NEW x \in Callers, x # c, at[x] \in {"write", "wait"}, result[x] = "none"
        PROVE  x \in slots' /\ NoneSince(x)'
    <3>1. x \in slots /\ NoneSince(x)
      BY <1>1, <2>6 DEF WaitersKnown
    <3>2. at'[x] = at[x] /\ missed'[x] = missed[x] /\ target' = target /\ reader' = reader /\ pipe' = pipe
      BY <1>4, <1>6, <2>1, <2>4, <2>6
    <3>. QED
      BY <2>1, <3>1, <3>2 DEF NoneSince
  <2>7. WaitersKnown'
    BY <1>1, <1>6, <2>1, <2>2, <2>5, <2>6 DEF WaitersKnown
  <2>8. Cardinality(CountedCalls') = Cardinality(CountedCalls) + 1
    BY <1>1, <1>2, <2>1, GoesCounts DEF CountedCalls
  <2>9. CountedOnce'
    BY <1>2, <2>1, <2>8 DEF CountedOnce, CountedCalls
  <2>. QED
    BY <1>5, <2>3, <2>7, <2>9 DEF ServiceInv
<1>8. CASE Write(c) /\ Living(current) /\ current \notin closed /\ target' = [target EXCEPT ![c] = current]
           /\ Goes(c, "wait") /\ UNCHANGED <<slots, failures>>
  <2>1. at[c] = "write" /\ UNCHANGED <<result, missed, requests>>
    BY <1>8 DEF Write
  <2>2. at'[c] = "wait" /\ current \in Workers /\ life[current] # "dead"
    BY <1>1, <1>2, <1>8 DEF Goes, ThreadsTyped, Living
  <2>3. \A x \in Callers : target'[x] = IF x = c THEN current ELSE target[x]
    BY <1>1, <1>8 DEF CallsTyped
  <2>4. CallsTyped' /\ WaitersKnown'
    <3>1. \A r \in Workers : reader[r] \in Ended /\ pipe[r] = current => reader[r] = "crashed"
      BY <1>1, <2>2 DEF ReadersOutlive, Ended
    <3>2. CallsTyped'
      BY <1>1, <1>4, <1>8, <2>1 DEF CallsTyped, WorkersTyped
    <3>3. ASSUME NEW x \in Callers, at'[x] \in {"write", "wait"}, result'[x] = "none" PROVE x \in slots' /\ NoneSince(x)'
      <4>1. at[x] \in {"write", "wait"} /\ result[x] = "none"
        BY <1>6, <2>1, <3>3
      <4>2. x \in slots /\ NoneSince(x)
        BY <1>1, <4>1 DEF WaitersKnown
      <4>. QED
        BY <1>4, <1>6, <1>8, <2>1, <2>3, <3>1, <4>2 DEF NoneSince
    <3>4. \A x \in Callers : at'[x] = "wait" => target'[x] \in Workers
      BY <1>1, <1>6, <2>2, <2>3 DEF WaitersKnown
    <3>. QED
      BY <3>2, <3>3, <3>4 DEF WaitersKnown
  <2>5. Cardinality(CountedCalls') = Cardinality(CountedCalls)
    BY <1>1, <1>2, <1>8, <2>1, GoesCounts DEF CountedCalls
  <2>6. CountedOnce'
    BY <1>2, <1>8, <2>1, <2>5 DEF CountedOnce, CountedCalls
  <2>. QED
    BY <1>5, <2>4, <2>6 DEF ServiceInv
<1>9. CASE Write(c) /\ current \in closed /\ Goes(c, "lost") /\ UNCHANGED <<inbox, target, slots, failures>>
  <2>1. at[c] = "write" /\ UNCHANGED <<result, missed, requests>>
    BY <1>9 DEF Write
  <2>2. at'[c] = "lost"
    BY <1>1, <1>2, <1>9 DEF Goes, ThreadsTyped
  <2>3. CallsTyped' /\ WaitersKnown'
    BY <1>1, <1>4, <1>6, <1>9, <2>1, <2>2 DEF CallsTyped, WaitersKnown, NoneSince
  <2>4. Cardinality(CountedCalls') = Cardinality(CountedCalls)
    BY <1>1, <1>2, <1>9, <2>1, GoesCounts DEF CountedCalls
  <2>5. CountedOnce'
    BY <1>2, <1>9, <2>1, <2>4 DEF CountedOnce, CountedCalls
  <2>. QED
    BY <1>5, <2>3, <2>5 DEF ServiceInv
<1>10. ASSUME at[c] \in {"write", "wait"}, Goes(c, "failed"), failures' = failures + 1,
              slots \ {c} \subseteq slots', slots' \subseteq slots,
              target' = target \/ target' = [target EXCEPT ![c] = 0], UNCHANGED <<result, missed, requests>>
       PROVE  ServiceInv'
  <2>1. at'[c] = "failed" /\ \A x \in Callers : x # c => target'[x] = target[x]
    BY <1>1, <1>2, <1>10 DEF Goes, ThreadsTyped, CallsTyped
  <2>2. target' \in [Callers -> 0 .. spawned]
    BY <1>1, <1>10 DEF CallsTyped, WorkersTyped
  <2>3. CallsTyped' /\ WaitersKnown'
    BY <1>1, <1>4, <1>6, <1>10, <2>1, <2>2 DEF CallsTyped, WaitersKnown, NoneSince
  <2>4. Cardinality(CountedCalls') = Cardinality(CountedCalls) - 1
    BY <1>1, <1>2, <1>10, GoesCounts DEF CountedCalls
  <2>5. CountedOnce'
    BY <1>2, <1>10, <2>4 DEF CountedOnce, CountedCalls
  <2>. QED
    BY <1>5, <2>3, <2>5 DEF ServiceInv
<1>11. CASE Returns(c) /\ result[c] = "ok"
  <2>1. at[c] = "wait" /\ Goes(c, "answered") /\ target' = [target EXCEPT ![c] = 0]
        /\ UNCHANGED <<slots, result, missed, requests, failures>>
    BY <1>11 DEF Returns
  <2>2. at'[c] = "answered" /\ \A x \in Callers : x # c => target'[x] = target[x]
    BY <1>1, <1>2, <2>1 DEF Goes, ThreadsTyped, CallsTyped
  <2>3. CallsTyped' /\ WaitersKnown'
    BY <1>1, <1>4, <1>6, <2>1, <2>2 DEF CallsTyped, WaitersKnown, NoneSince, WorkersTyped
  <2>4. Cardinality(CountedCalls') = Cardinality(CountedCalls)
    BY <1>1, <1>2, <2>1, GoesCounts DEF CountedCalls
  <2>5. CountedOnce'
    BY <1>2, <2>1, <2>4 DEF CountedOnce, CountedCalls
  <2>. QED
    BY <1>5, <2>3, <2>5 DEF ServiceInv
<1>. QED
  BY <1>7, <1>8, <1>9, <1>10, <1>11 DEF Write, Returns, TimesOut

(* Where neither threads nor counters move, results only come, and a slot  *)
(* goes only with its result.                                              *)
LEMMA ProcessSideKeeps ==
  ASSUME ServiceInv, UNCHANGED <<at, after, target, missed, requests, failures>>,
         WorkersTyped', ReadersOutlive', slots' \subseteq slots, spawned' \in {spawned, spawned + 1},
         result' \in [Callers -> {"none", "ok", "error"}],
         \A c \in Callers : result'[c] = "none" => result[c] = "none" /\ (c \in slots => c \in slots'),
         \A c \in Callers : at[c] \in {"write", "wait"} /\ result'[c] = "none" => NoneSince(c)'
  PROVE  ServiceInv'
<1>1. ThreadsTyped /\ WorkersTyped /\ CallsTyped /\ WaitersKnown /\ ReadersOutlive /\ CountedOnce
  BY DEF ServiceInv
<1>2. ThreadsTyped' /\ CountedOnce'
  BY <1>1 DEF ThreadsTyped, CountedOnce
<1>3. CallsTyped'
  BY <1>1 DEF CallsTyped, WorkersTyped
<1>4. WaitersKnown'
  BY <1>1 DEF WaitersKnown, NoneSince
<1>. QED
  BY <1>2, <1>3, <1>4 DEF ServiceInv

LEMMA WorkerStepKeeps ==
  ASSUME ServiceInv, NEW w \in Workers, WorkerStep(w)
  PROVE  ServiceInv'
<1>1. ThreadsTyped /\ WorkersTyped /\ CallsTyped /\ WaitersKnown /\ ReadersOutlive /\ CountedOnce
  BY DEF ServiceInv
<1>2. \A c \in Callers : at[c] \in {"write", "wait"} /\ result[c] = "none" => NoneSince(c)
  BY <1>1 DEF WaitersKnown
<1>3. CASE ReaderEnds(w)
  <2>1. /\ reader[w] = "reading"
        /\ \/ ~Living(pipe[w]) /\ reader' = [reader EXCEPT ![w] = "done"]
           \/ reader' = [reader EXCEPT ![w] = "crashed"]
        /\ result' = [c \in Callers |-> IF c \in slots /\ result[c] = "none" THEN "error" ELSE result[c]]
        /\ UNCHANGED <<at, after, target, missed, requests, failures, current, spawned, life, slots, pipe>>
    BY <1>3 DEF ReaderEnds, ReaderStops, service
  <2>2. pipe[w] \in 1 .. spawned /\ pipe[w] \in Workers
    BY <1>1, <2>1, WorkerAssumption DEF WorkersTyped, Workers
  <2>3. ~Living(pipe[w]) => life[pipe[w]] = "dead"
    BY <1>1, <2>2 DEF WorkersTyped, Living
  <2>4. WorkersTyped'
    BY <1>1, <2>1 DEF WorkersTyped
  <2>5. ReadersOutlive'
    BY <1>1, <2>1, <2>3 DEF WorkersTyped, ReadersOutlive
  <2>6. result' \in [Callers -> {"none", "ok", "error"}]
    BY <1>1, <2>1 DEF CallsTyped
  <2>7. \A c \in Callers : result'[c] = "none" => result[c] = "none" /\ c \notin slots
    BY <1>1, <2>1 DEF CallsTyped
  <2>8. \A c \in Callers : at[c] \in {"write", "wait"} /\ result'[c] = "none" => NoneSince(c)'
    BY <1>1, <2>7 DEF WaitersKnown
  <2>. QED
    BY <2>1, <2>4, <2>5, <2>6, <2>7, <2>8, ProcessSideKeeps
<1>4. ASSUME NEW c \in Callers, NEW outcome \in {"ok", "error"}, ReadAnswer(w, c, outcome)
      PROVE  ServiceInv'
  <2>1. /\ slots' = slots \ {c} /\ result' = IF c \in slots THEN [result EXCEPT ![c] = outcome] ELSE result
        /\ UNCHANGED <<at, after, target, missed, requests, failures, current, spawned, life, reader, pipe>>
    BY <1>4 DEF ReadAnswer, service
  <2>2. WorkersTyped' /\ ReadersOutlive'
    BY <1>1, <2>1 DEF WorkersTyped, ReadersOutlive
  <2>3. result' \in [Callers -> {"none", "ok", "error"}]
    BY <1>1, <2>1 DEF CallsTyped
  <2>4. \A x \in Callers : result'[x] = "none" => result[x] = "none" /\ (x \in slots => x \in slots')
    BY <1>1, <2>1 DEF CallsTyped
  <2>5. \A x \in Callers : at[x] \in {"write", "wait"} /\ result'[x] = "none" => NoneSince(x)'
    BY <1>2, <2>1, <2>4 DEF NoneSince
  <2>. QED
    BY <2>1, <2>2, <2>3, <2>4, <2>5, ProcessSideKeeps
<1>5. CASE WatchdogSpawns(w)
  <2>1. SpawnWorker /\ UNCHANGED <<at, after>>
    BY <1>5 DEF WatchdogSpawns
  <2>2. /\ WorkersTyped' /\ ReadersOutlive' /\ UNCHANGED <<calls, pipe>> /\ spawned' = spawned + 1
        /\ \A r \in Workers : reader'[r] \in Ended => reader'[r] = reader[r]
    BY <1>1, <2>1, SpawnTypes DEF SpawnWorker
  <2>3. \A c \in Callers : at[c] \in {"write", "wait"} /\ result'[c] = "none" => NoneSince(c)'
    BY <1>2, <2>1, <2>2 DEF NoneSince, calls
  <2>. QED
    BY <1>1, <2>1, <2>2, <2>3, ProcessSideKeeps DEF calls, CallsTyped
<1>6. ASSUME WorkersTyped', ReadersOutlive', UNCHANGED <<at, after, spawned, calls>>,
             \A r \in Workers : reader'[r] \in Ended => reader'[r] = reader[r] /\ pipe'[r] = pipe[r]
      PROVE  ServiceInv'
  <2>1. \A c \in Callers : at[c] \in {"write", "wait"} /\ result'[c] = "none" => NoneSince(c)'
    BY <1>2, <1>6 DEF NoneSince, calls
  <2>. QED
    BY <1>1, <1>6, <2>1, ProcessSideKeeps DEF calls, CallsTyped
<1>7. CASE ReaderOpens(w)
  <2>1. /\ reader[w] = "starting" /\ reader' = [reader EXCEPT ![w] = "reading"]
        /\ pipe' = [pipe EXCEPT ![w] = current]
        /\ UNCHANGED <<at, after, spawned, current, life, calls>>
    BY <1>7 DEF ReaderOpens, service
  <2>2. \A r \in Workers : /\ reader'[r] = IF r = w THEN "reading" ELSE reader[r]
                           /\ pipe'[r] = IF r = w THEN current ELSE pipe[r]
    BY <1>1, <2>1 DEF WorkersTyped
  <2>3. w <= spawned /\ spawned \in Nat
    BY <1>1, <2>1 DEF WorkersTyped, Workers
  <2>4. WorkersTyped'
    BY <1>1, <2>1, <2>2, <2>3 DEF WorkersTyped, Workers
  <2>5. ReadersOutlive'
    BY <1>1, <2>1, <2>2 DEF ReadersOutlive
  <2>. QED
    BY <1>6, <2>1, <2>2, <2>4, <2>5 DEF Ended
<1>8. CASE \/ WatchdogWakes(w) \/ WatchdogFails(w)
           \/ \E line \in {"ready", "not_ready"} : ReadReadiness(w, line)
           \/ \E c \in Callers : WorkerAnswers(w, c)
  <2>1. UNCHANGED <<at, after, spawned, reader, pipe, calls, current, life>>
    BY <1>8 DEF WatchdogWakes, WatchdogFails, ReadReadiness, WorkerAnswers, service
  <2>2. WorkersTyped' /\ ReadersOutlive'
    BY <1>1, <2>1 DEF WorkersTyped, ReadersOutlive
  <2>. QED
    BY <1>6, <2>1, <2>2
<1>9. CASE WorkerDies(w) \/ \E line \in {"ready", "not_ready"} : WorkerBoots(w, line)
  <2>1. /\ life[w] \in {"booting", "up"}
        /\ life' = [life EXCEPT ![w] = "up"] \/ life' = [life EXCEPT ![w] = "dead"]
    BY <1>9 DEF WorkerDies, WorkerBoots, Living
  <2>2. UNCHANGED <<at, after, spawned, reader, pipe, calls, current>>
    BY <1>9 DEF WorkerDies, WorkerBoots, service
  <2>3. \A v \in Workers : life[v] = "dead" => life'[v] = "dead"
    BY <1>1, <2>1 DEF WorkersTyped
  <2>4. WorkersTyped' /\ ReadersOutlive'
    BY <1>1, <2>1, <2>2, <2>3, DeadRemain DEF WorkersTyped
  <2>. QED
    BY <1>6, <2>2, <2>4
<1>. QED
  BY <1>3, <1>4, <1>5, <1>7, <1>8, <1>9 DEF WorkerStep

LEMMA OperatorStopsKeeps ==
  ASSUME ServiceInv, NEW o \in Operators, OperatorStops(o)
  PROVE  ServiceInv'
<1>1. o \in Threads /\ o \notin Callers
  BY CallerAssumption DEF Threads
<1>2. ThreadsTyped'
  BY <1>1 DEF ServiceInv, OperatorStops, ThreadsTyped, Goes
<1>. QED
  BY <1>1, <1>2, ElsewhereKeeps DEF OperatorStops, service, workers

LEMMA ServiceStarts == ServiceInit => ServiceInv
<1>. SUFFICES ASSUME ServiceInit PROVE ServiceInv
  OBVIOUS
<1>1. ThreadsTyped /\ WorkersTyped /\ CallsTyped /\ ReadersOutlive
  BY WorkerAssumption DEF ServiceInit, ThreadsTyped, WorkersTyped, CallsTyped, ReadersOutlive, Workers, Threads
<1>2. \A c \in Callers : at[c] = "idle"
  BY DEF ServiceInit, Threads
<1>3. WaitersKnown
  BY <1>2 DEF WaitersKnown, NoneSince
<1>4. {c \in Callers : at[c] \in {"write", "wait", "answered", "lost"}} = {}
  BY <1>2
<1>5. CountedOnce
  BY <1>4, FS_EmptySet DEF ServiceInit, CountedOnce
<1>. QED
  BY <1>1, <1>3, <1>5 DEF ServiceInv

LEMMA ServiceStepKeeps ==
  ASSUME ServiceInv, [ServiceNext]_serviceVars
  PROVE  ServiceInv'
<1>1. CASE UNCHANGED serviceVars
  BY <1>1 DEF serviceVars, service, workers, calls, ServiceInv, ThreadsTyped, WorkersTyped, CallsTyped, WaitersKnown,
              ReadersOutlive, NoneSince, CountedOnce
<1>2. ASSUME NEW c \in Callers, Predict(c) \/ Proceeds(c)
      PROVE  ServiceInv'
  BY <1>2, StopStepKeeps, StartStepKeeps, CallingKeeps DEF Proceeds, Threads
<1>3. ASSUME NEW o \in Operators, OperatorStops(o) \/ StopStep(o)
      PROVE  ServiceInv'
  BY <1>3, OperatorStopsKeeps, StopStepKeeps DEF Threads
<1>. QED
  BY <1>1, <1>2, <1>3, WorkerStepKeeps DEF ServiceNext

(* The inductive invariant of the Python service holds of every behaviour  *)
(* (server/ai/inference/prediction_service.py).                            *)
THEOREM ServiceInductive == ServiceSpec => []ServiceInv
<1>1. ServiceInv /\ [ServiceNext]_serviceVars => ServiceInv'
  BY ServiceStepKeeps
<1>. QED
  BY ServiceStarts, <1>1, PTL DEF ServiceSpec

LEMMA ServiceTypes == ServiceInv => ServiceTypeOK
<1>. SUFFICES ASSUME ServiceInv PROVE ServiceTypeOK
  OBVIOUS
<1>1. current \in 0 .. spawned /\ spawned \in 0 .. MaxWorkers
  BY DEF ServiceInv, WorkersTyped
<1>2. \A w \in Workers : reader[w] \in {"reading"} \cup Ended => pipe[w] \in w .. spawned
  BY PipeIs DEF ServiceInv, Ended
<1>. QED
  BY <1>1, <1>2 DEF ServiceInv, ServiceTypeOK, ThreadsTyped, WorkersTyped, CallsTyped

(* Every variable keeps to its type (prediction_service.py).               *)
THEOREM ServiceTyped == ServiceSpec => []ServiceTypeOK
<1>. QED
  BY ServiceInductive, ServiceTypes, PTL

(* However many callers, operators and processes, the end of a reader      *)
(* fails every call registered before, no call waits for a process of      *)
(* which a reader has seen the end, and each is counted once (predict,     *)
(* _stdout_reader, stop).                                                  *)
THEOREM CallsAreAccounted == ServiceSpec => []CallsAccounted
<1>1. ServiceInv => CallsAccounted
  <2>1. WaitersKnown => DeathAnswers
    BY DEF WaitersKnown, NoneSince, DeathAnswers
  <2>. QED
    BY <2>1 DEF ServiceInv, CallsAccounted
<1>. QED
  BY ServiceInductive, <1>1, PTL

----------------------------------------------------------------------------
(* AiServices                                                              *)

LabelRow == [record : FeatureRecords, label : {"unknown", "outcome"}]

AiModel == [job : AiJobs, rows : SUBSET LabelRow, artifact : {"saved", "lost"},
            status : {"trained", "champion", "archived"}]

AiTyped ==
  /\ clock \in 0 .. MaxClock /\ record \in [FeatureRecords -> 0 .. Cleared]
  /\ labels \in Seq(LabelRow)
  /\ job \in [AiJobs -> [at : {"none", "reading", "training", "completed", "failed"},
                         read : SUBSET FeatureRecords, rows : SUBSET LabelRow]]
  /\ aiModels \in Seq(AiModel)
  /\ inference \in {"none", "unavailable", "refused", "answered"}

(* A label that tells an outcome was given once the outcome had happened,  *)
(* to a record that had been saved.                                        *)
HappenedBy(saved, now, row) ==
  /\ saved[row.record] # Unsaved
  /\ row.label = "outcome" /\ saved[row.record] < Unsaved => saved[row.record] + LabelHorizon < now

Happened(row) == HappenedBy(record, clock, row)

AllHappened ==
  /\ \A i \in DOMAIN labels : Happened(labels[i])
  /\ \A j \in AiJobs : \A row \in job[j].rows : Happened(row)
  /\ \A i \in DOMAIN aiModels : \A row \in aiModels[i].rows : Happened(row) /\ row.label = "outcome"

OneChampionLeads ==
  /\ \A i, k \in Champions : i = k
  /\ aiModels # <<>> => Champions # {}

AiInv == AiTyped /\ AllHappened /\ OneChampionLeads

(* A set of positions in a list has a last one.                            *)
LEMMA LastPosition ==
  ASSUME NEW n \in Nat, NEW I \in SUBSET (1 .. n), I # {}
  PROVE  \E i \in I : \A k \in I : k <= i
<1>. DEFINE J == {m \in Nat : n - m \in I}
<1>1. PICK i0 \in I : TRUE
  OBVIOUS
<1>2. n - i0 \in Nat /\ n - (n - i0) = i0
  BY <1>1
<1>3. n - i0 \in J
  BY <1>1, <1>2
<1>4. J \in SUBSET Nat /\ J # {}
  BY <1>3
<1>5. \A m \in J : n - m \in I
  OBVIOUS
<1>6. \A i \in I : n - i \in J
  <2>. TAKE i \in I
  <2>1. n - i \in Nat /\ n - (n - i) = i
    OBVIOUS
  <2>. QED
    BY <2>1
<1>. HIDE DEF J
<1>7. PICK j \in J : \A k \in J : ~ (<<k, j>> \in OpToRel(<, Nat))
  BY <1>4, NatLessThanWellFounded, WFMin, Zenon
<1>8. \A k \in J : j <= k
  <2>. TAKE k \in J
  <2>1. j \in Nat /\ k \in Nat
    BY <1>4
  <2>2. ~ (k < j)
    BY <1>7, <2>1 DEF OpToRel
  <2>. QED
    BY <2>1, <2>2
<1>9. n - j \in I /\ j \in Nat
  BY <1>4, <1>5
<1>10. \A k \in I : k <= n - j
  <2>. TAKE k \in I
  <2>1. n - k \in J /\ k \in Int
    BY <1>6
  <2>2. j <= n - k
    BY <1>8, <2>1
  <2>. QED
    BY <1>9, <2>1, <2>2
<1>. QED
  BY <1>9, <1>10

(* The rows of a dataset are labels.                                       *)
LEMMA DatasetOfLabels ==
  ASSUME AiTyped, NEW read \in SUBSET FeatureRecords, NEW row \in Dataset(read)
  PROVE  \E i \in DOMAIN labels : row = labels[i]
<1>1. PICK r \in FeatureRecords : row = Counted(r) /\ \E i \in DOMAIN labels : labels[i].record = r
  BY DEF Dataset
<1>. DEFINE of == {i \in DOMAIN labels : labels[i].record = r}
<1>2. Len(labels) \in Nat /\ DOMAIN labels = 1 .. Len(labels) /\ of \in SUBSET (1 .. Len(labels)) /\ of # {}
  BY <1>1 DEF AiTyped
<1>3. \E i \in of : \A k \in of : k <= i
  BY <1>2, LastPosition
<1>4. (CHOOSE i \in of : \A k \in of : k <= i) \in of
  BY <1>3
<1>. QED
  BY <1>1, <1>4 DEF Counted

(* What has happened stays so while time goes on and records are saved,    *)
(* or removed.                                                             *)
LEMMA StaysHappened ==
  ASSUME AiTyped, AiTyped', clock <= clock',
         \A r \in FeatureRecords : record'[r] = record[r] \/ record[r] = Unsaved \/ record'[r] = Cleared,
         NEW row \in LabelRow, Happened(row)
  PROVE  Happened(row)'
<1>1. /\ row.record \in FeatureRecords /\ LabelHorizon \in Nat /\ MaxClock \in Nat
      /\ clock \in Nat /\ clock' \in Nat /\ record[row.record] \in Nat /\ record'[row.record] \in Nat
  BY LabelAssumption DEF LabelRow, AiTyped, Cleared
<1>2. /\ record[row.record] # Unsaved
      /\ row.label = "outcome" /\ record[row.record] < Unsaved => record[row.record] + LabelHorizon < clock
  BY DEF Happened, HappenedBy
<1>3. record'[row.record] = record[row.record] \/ record'[row.record] = Cleared
  BY <1>1, <1>2
<1>4. CASE record'[row.record] = Cleared
  BY <1>1, <1>4 DEF Happened, HappenedBy, Cleared, Unsaved
<1>5. CASE record'[row.record] = record[row.record]
  BY <1>1, <1>2, <1>5 DEF Happened, HappenedBy, Unsaved
<1>. QED
  BY <1>3, <1>4, <1>5

LEMMA RowsAreTyped ==
  ASSUME AiTyped
  PROVE  /\ \A i \in DOMAIN labels : labels[i] \in LabelRow
         /\ \A j \in AiJobs : job[j].rows \subseteq LabelRow /\ job[j].read \subseteq FeatureRecords
         /\ \A i \in DOMAIN aiModels : aiModels[i] \in AiModel /\ aiModels[i].rows \subseteq LabelRow
<1>1. labels \in Seq(LabelRow) /\ aiModels \in Seq(AiModel)
  BY DEF AiTyped
<1>2. \A i \in DOMAIN labels : labels[i] \in LabelRow
  BY <1>1
<1>3. \A i \in DOMAIN aiModels : aiModels[i] \in AiModel
  BY <1>1
<1>4. \A m \in AiModel : m.rows \subseteq LabelRow
  BY DEF AiModel
<1>5. \A j \in AiJobs : job[j].rows \subseteq LabelRow /\ job[j].read \subseteq FeatureRecords
  BY DEF AiTyped
<1>. QED
  BY <1>2, <1>3, <1>4, <1>5

(* Records and labels change; jobs and models rest.                        *)
LEMMA RecordStepKeeps ==
  ASSUME AiInv, AiTyped', UNCHANGED <<job, aiModels>>, clock <= clock',
         \A r \in FeatureRecords : record'[r] = record[r] \/ record[r] = Unsaved \/ record'[r] = Cleared,
         \A i \in DOMAIN labels' : \/ HappenedBy(record', clock', labels'[i])
                                   \/ \E k \in DOMAIN labels : labels'[i] = labels[k]
  PROVE  AiInv'
<1>1. AiTyped /\ AllHappened /\ OneChampionLeads
  BY DEF AiInv
<1>2. ASSUME NEW row \in LabelRow, Happened(row) PROVE HappenedBy(record', clock', row)
  <2>1. Happened(row)'
    BY <1>1, <1>2, StaysHappened
  <2>. QED
    BY <2>1 DEF Happened
<1>3. ASSUME NEW i \in DOMAIN labels' PROVE HappenedBy(record', clock', labels'[i])
  <2>1. CASE \E k \in DOMAIN labels : labels'[i] = labels[k]
    BY <1>1, <1>2, <2>1, RowsAreTyped DEF AllHappened
  <2>. QED
    BY <2>1
<1>4. \A j \in AiJobs : \A row \in job[j].rows : HappenedBy(record', clock', row)
  BY <1>1, <1>2, RowsAreTyped DEF AllHappened
<1>5. \A i \in DOMAIN aiModels : \A row \in aiModels[i].rows : HappenedBy(record', clock', row) /\ row.label = "outcome"
  BY <1>1, <1>2, RowsAreTyped DEF AllHappened
<1>6. AllHappened'
  BY <1>3, <1>4, <1>5 DEF AllHappened, Happened
<1>7. OneChampionLeads'
  BY <1>1 DEF OneChampionLeads, Champions
<1>. QED
  BY <1>6, <1>7 DEF AiInv

(* The lengths and the types of a list that grows at its head.             *)
LEMMA GrowsAtItsHead ==
  ASSUME NEW S, NEW s \in Seq(S), NEW e \in S
  PROVE  /\ <<e>> \o s \in Seq(S) /\ DOMAIN (<<e>> \o s) = 1 .. Len(s) + 1 /\ DOMAIN s = 1 .. Len(s)
         /\ (<<e>> \o s)[1] = e /\ \A i \in DOMAIN s : (<<e>> \o s)[i + 1] = s[i]
         /\ \A i \in DOMAIN (<<e>> \o s) : i = 1 \/ (i - 1 \in DOMAIN s /\ (<<e>> \o s)[i] = s[i - 1])
<1>1. <<e>> \in Seq(S) /\ Len(<<e>>) = 1 /\ <<e>>[1] = e
  OBVIOUS
<1>2. Len(<<e>> \o s) = 1 + Len(s) /\ Len(s) \in Nat /\ <<e>> \o s \in Seq(S)
  BY <1>1
<1>3. DOMAIN (<<e>> \o s) = 1 .. Len(s) + 1 /\ DOMAIN s = 1 .. Len(s)
  BY <1>2
<1>4. (<<e>> \o s)[1] = e
  BY <1>1, <1>2
<1>5. \A i \in 1 .. Len(s) : (<<e>> \o s)[i + 1] = s[i]
  BY <1>1, <1>2
<1>6. \A i \in 1 .. Len(s) + 1 : i = 1 \/ (i - 1 \in 1 .. Len(s) /\ (i - 1) + 1 = i)
  BY <1>2
<1>. QED
  BY <1>2, <1>3, <1>4, <1>5, <1>6

(* A candle closes.                                                        *)
LEMMA CandleKeeps == AiInv /\ CandleCloses => AiInv'
<1>. SUFFICES ASSUME AiInv, CandleCloses PROVE AiInv'
  OBVIOUS
<1>1. AiTyped' /\ clock <= clock' /\ UNCHANGED <<record, labels, job, aiModels>>
  BY LabelAssumption DEF AiInv, AiTyped, CandleCloses, Cleared
<1>. QED
  BY <1>1, RecordStepKeeps

(* A record is saved; no label may speak of it yet.                        *)
LEMMA SaveKeeps ==
  ASSUME AiInv, NEW r \in FeatureRecords, SaveRecord(r)
  PROVE  AiInv'
<1>1. AiTyped' /\ clock <= clock' /\ UNCHANGED <<labels, job, aiModels>>
  BY LabelAssumption DEF AiInv, AiTyped, SaveRecord, Cleared
<1>2. \A q \in FeatureRecords : record'[q] = record[q] \/ record[q] = Unsaved
  BY DEF SaveRecord, AiInv, AiTyped
<1>. QED
  BY <1>1, <1>2, RecordStepKeeps

(* The records are removed.                                                *)
LEMMA ClearKeeps == AiInv /\ ClearRecords => AiInv'
<1>. SUFFICES ASSUME AiInv, ClearRecords PROVE AiInv'
  OBVIOUS
<1>1. AiTyped' /\ clock <= clock' /\ UNCHANGED <<labels, job, aiModels>>
  BY LabelAssumption DEF AiInv, AiTyped, ClearRecords, Cleared
<1>2. \A q \in FeatureRecords : record'[q] = record[q] \/ record'[q] = Cleared
  BY DEF ClearRecords
<1>. QED
  BY <1>1, <1>2, RecordStepKeeps

(* A record is labelled with what is known of its outcome.                 *)
LEMMA LabelKeeps ==
  ASSUME AiInv, NEW r \in FeatureRecords, LabelRecord(r)
  PROVE  AiInv'
<1>. DEFINE row == [record |-> r, label |-> LabelNow(r)]
<1>1. row \in LabelRow /\ row.record = r /\ row.label = LabelNow(r)
  BY DEF LabelRow, LabelNow
<1>2. labels \in Seq(LabelRow) /\ record[r] \in Nat /\ clock \in Nat /\ record[r] <= MaxClock
  BY LabelAssumption DEF AiInv, AiTyped, LabelRecord, Live, Cleared
<1>3. labels' = <<row>> \o labels /\ UNCHANGED <<clock, record, job, aiModels, inference>>
  BY DEF LabelRecord
<1>4. HappenedBy(record, clock, row)
  BY <1>1, <1>2, LabelAssumption DEF HappenedBy, LabelNow, Unsaved
<1>. HIDE DEF row
<1>5. /\ labels' \in Seq(LabelRow)
      /\ \A i \in DOMAIN labels' : labels'[i] = row \/ \E k \in DOMAIN labels : labels'[i] = labels[k]
  BY <1>1, <1>2, <1>3, GrowsAtItsHead
<1>6. AiTyped'
  BY <1>3, <1>5 DEF AiInv, AiTyped
<1>7. clock <= clock'
  BY <1>2, <1>3
<1>8. \A i \in DOMAIN labels' : HappenedBy(record', clock', labels'[i]) \/ \E k \in DOMAIN labels : labels'[i] = labels[k]
  BY <1>3, <1>4, <1>5
<1>9. \A q \in FeatureRecords : record'[q] = record[q]
  BY <1>3
<1>. QED
  BY <1>3, <1>6, <1>7, <1>8, <1>9, RecordStepKeeps

(* The labels are removed.                                                 *)
LEMMA UnlabelKeeps == AiInv /\ ClearLabels => AiInv'
<1>. SUFFICES ASSUME AiInv, ClearLabels PROVE AiInv'
  OBVIOUS
<1>1. AiTyped' /\ clock <= clock' /\ UNCHANGED <<record, job, aiModels>> /\ DOMAIN labels' = {}
  BY LabelAssumption DEF AiInv, AiTyped, ClearLabels
<1>. QED
  BY <1>1, RecordStepKeeps

(* The jobs alone change: each keeps its rows, forgets them, or reads them *)
(* from the labels.                                                        *)
LEMMA JobStepKeeps ==
  ASSUME AiInv, AiTyped', UNCHANGED <<clock, record, labels, aiModels>>,
         \A j \in AiJobs : \A row \in job'[j].rows :
           row \in job[j].rows \/ \E i \in DOMAIN labels : row = labels[i]
  PROVE  AiInv'
<1>1. AllHappened /\ OneChampionLeads
  BY DEF AiInv
<1>2. \A j \in AiJobs : \A row \in job'[j].rows : HappenedBy(record, clock, row)
  BY <1>1 DEF AllHappened, Happened
<1>3. AllHappened'
  BY <1>1, <1>2 DEF AllHappened, Happened
<1>4. OneChampionLeads'
  BY <1>1 DEF OneChampionLeads, Champions
<1>. QED
  BY <1>3, <1>4 DEF AiInv

(* A job is started, or fails.                                             *)
LEMMA StartKeeps ==
  ASSUME AiInv, NEW j \in AiJobs, StartJob(j) \/ JobFails(j)
  PROVE  AiInv'
<1>1. AiTyped
  BY DEF AiInv
<1>2. \A k \in AiJobs : job'[k].rows \subseteq job[k].rows
  BY <1>1 DEF StartJob, JobFails, NoJob, AiTyped
<1>3. Live \subseteq FeatureRecords
  BY DEF Live
<1>4. CASE StartJob(j)
  <2>1. AiTyped'
    BY <1>1, <1>3, <1>4 DEF StartJob, AiTyped
  <2>2. UNCHANGED <<clock, record, labels, aiModels>>
    BY <1>4 DEF StartJob
  <2>. QED
    BY <1>2, <2>1, <2>2, JobStepKeeps
<1>5. CASE JobFails(j)
  <2>1. AiTyped'
    BY <1>1, <1>5 DEF JobFails, AiTyped
  <2>2. UNCHANGED <<clock, record, labels, aiModels>>
    BY <1>5 DEF JobFails
  <2>. QED
    BY <1>2, <2>1, <2>2, JobStepKeeps
<1>. QED
  BY <1>4, <1>5

(* A job makes its dataset of the records it read and of the labels there  *)
(* are now.                                                                *)
LEMMA BuildKeeps ==
  ASSUME AiInv, NEW j \in AiJobs, JobBuilds(j)
  PROVE  AiInv'
<1>1. AiTyped
  BY DEF AiInv
<1>2. job[j].read \in SUBSET FeatureRecords
  BY <1>1, RowsAreTyped
<1>3. \A row \in Dataset(job[j].read) : \E i \in DOMAIN labels : row = labels[i]
  BY <1>1, <1>2, DatasetOfLabels
<1>4. Dataset(job[j].read) \in SUBSET LabelRow
  BY <1>1, <1>3, RowsAreTyped
<1>5. PICK stop \in {"failed", "training"} :
        job' = [job EXCEPT ![j].at = stop, ![j].rows = Dataset(job[j].read)]
  BY DEF JobBuilds
<1>6. UNCHANGED <<clock, record, labels, aiModels, inference>>
  BY DEF JobBuilds
<1>7. AiTyped'
  BY <1>1, <1>4, <1>5, <1>6 DEF AiTyped
<1>8. \A k \in AiJobs : job'[k].rows = job[k].rows \/ job'[k].rows = Dataset(job[j].read)
  BY <1>1, <1>5 DEF AiTyped
<1>9. \A k \in AiJobs : \A row \in job'[k].rows :
        row \in job[k].rows \/ \E i \in DOMAIN labels : row = labels[i]
  BY <1>3, <1>8
<1>. QED
  BY <1>6, <1>7, <1>9, JobStepKeeps

(* A job leaves its model at the head of the registry, as the champion     *)
(* when there is none.                                                     *)
LEMMA TrainedKeeps ==
  ASSUME AiInv, NEW j \in AiJobs, NEW artifact \in {"saved", "lost"}, JobTrained(j, artifact)
  PROVE  AiInv'
<1>. DEFINE m == [job |-> j, rows |-> job[j].rows, artifact |-> artifact, status |-> StatusOnRegister]
<1>1. AiTyped /\ AllHappened /\ OneChampionLeads
  BY DEF AiInv
<1>2. /\ m \in AiModel /\ m.rows = job[j].rows /\ m.status = StatusOnRegister
      /\ StatusOnRegister \in {"champion", "trained"}
  BY <1>1, RowsAreTyped DEF AiModel, StatusOnRegister
<1>3. /\ aiModels' = <<m>> \o aiModels /\ job' = [job EXCEPT ![j].at = "completed"]
      /\ UNCHANGED <<clock, record, labels, inference>>
  BY DEF JobTrained
<1>4. \A row \in m.rows : row.label = "outcome"
  BY <1>2 DEF JobTrained, Trainable
<1>. HIDE DEF m
<1>5. aiModels \in Seq(AiModel) /\ Len(aiModels) \in Nat
  BY <1>1 DEF AiTyped
<1>6. /\ aiModels' \in Seq(AiModel) /\ DOMAIN aiModels' = 1 .. Len(aiModels) + 1
      /\ DOMAIN aiModels = 1 .. Len(aiModels) /\ aiModels'[1] = m
      /\ \A i \in DOMAIN aiModels : aiModels'[i + 1] = aiModels[i]
      /\ \A i \in DOMAIN aiModels' : i = 1 \/ (i - 1 \in DOMAIN aiModels /\ aiModels'[i] = aiModels[i - 1])
  BY <1>2, <1>3, <1>5, GrowsAtItsHead
<1>7. AiTyped'
  BY <1>1, <1>3, <1>6 DEF AiTyped
<1>8. \A k \in AiJobs : job'[k].rows = job[k].rows
  BY <1>1, <1>3 DEF AiTyped
<1>9. AllHappened'
  <2>1. \A k \in AiJobs : \A row \in job'[k].rows : HappenedBy(record, clock, row)
    BY <1>1, <1>8 DEF AllHappened, Happened
  <2>2. ASSUME NEW i \in DOMAIN aiModels', NEW row \in aiModels'[i].rows
        PROVE  HappenedBy(record, clock, row) /\ row.label = "outcome"
    <3>1. CASE i = 1
      BY <1>1, <1>2, <1>4, <1>6, <2>2, <3>1 DEF AllHappened, Happened
    <3>2. CASE i # 1
      BY <1>1, <1>6, <2>2, <3>2 DEF AllHappened, Happened
    <3>. QED
      BY <3>1, <3>2
  <2>3. \A i \in DOMAIN labels : HappenedBy(record, clock, labels[i])
    BY <1>1 DEF AllHappened, Happened
  <2>. QED
    BY <1>3, <2>1, <2>2, <2>3 DEF AllHappened, Happened
<1>10. OneChampionLeads'
  <2>1. CASE Champions = {}
    <3>1. m.status = "champion" /\ \A i \in DOMAIN aiModels : aiModels[i].status # "champion"
      BY <1>2, <2>1 DEF StatusOnRegister, Champions
    <3>2. \A i \in DOMAIN aiModels' : aiModels'[i].status = "champion" <=> i = 1
      BY <1>6, <3>1
    <3>3. 1 \in DOMAIN aiModels'
      BY <1>5, <1>6
    <3>. QED
      BY <3>2, <3>3 DEF OneChampionLeads, Champions
  <2>2. CASE Champions # {}
    <3>1. m.status # "champion"
      BY <1>2, <2>2 DEF StatusOnRegister
    <3>2. \A i \in DOMAIN aiModels' : aiModels'[i].status = "champion" => i - 1 \in Champions
      BY <1>6, <3>1 DEF Champions
    <3>3. \A i, k \in DOMAIN aiModels' : i - 1 = k - 1 => i = k
      BY <1>6
    <3>4. PICK i \in DOMAIN aiModels : aiModels[i].status = "champion"
      BY <2>2 DEF Champions
    <3>5. i + 1 \in DOMAIN aiModels' /\ aiModels'[i + 1].status = "champion"
      BY <1>5, <1>6, <3>4
    <3>. QED
      BY <1>1, <3>2, <3>3, <3>5 DEF OneChampionLeads, Champions
  <2>. QED
    BY <2>1, <2>2
<1>. QED
  BY <1>7, <1>9, <1>10 DEF AiInv

(* A promotion archives the champion there was.                            *)
LEMMA PromoteAiKeeps ==
  ASSUME AiInv, NEW i \in DOMAIN aiModels, PromoteAi(i)
  PROVE  AiInv'
<1>. DEFINE status(k) == IF k = i THEN "champion"
                         ELSE IF aiModels[k].status = "champion" THEN "archived" ELSE aiModels[k].status
<1>1. AiTyped /\ AllHappened
  BY DEF AiInv
<1>2. /\ aiModels' = [k \in DOMAIN aiModels |-> [aiModels[k] EXCEPT !.status = status(k)]]
      /\ UNCHANGED <<clock, record, labels, job, inference>>
  BY DEF PromoteAi
<1>3. aiModels \in Seq(AiModel) /\ Len(aiModels) \in Nat /\ DOMAIN aiModels = 1 .. Len(aiModels)
  BY <1>1 DEF AiTyped
<1>4. ASSUME NEW k \in DOMAIN aiModels
      PROVE  /\ aiModels'[k] \in AiModel /\ aiModels'[k].rows = aiModels[k].rows
             /\ aiModels'[k].status = "champion" <=> k = i
  <2>1. aiModels[k] \in AiModel
    BY <1>1, RowsAreTyped
  <2>2. status(k) \in {"trained", "champion", "archived"} /\ (status(k) = "champion" <=> k = i)
    BY <2>1 DEF AiModel
  <2>. HIDE DEF status
  <2>3. aiModels'[k] = [aiModels[k] EXCEPT !.status = status(k)]
    BY <1>2
  <2>. QED
    BY <2>1, <2>2, <2>3 DEF AiModel
<1>. HIDE DEF status
<1>5. DOMAIN aiModels' = DOMAIN aiModels /\ aiModels' \in Seq(AiModel)
  <2>1. aiModels' = [k \in 1 .. Len(aiModels) |-> aiModels'[k]]
    BY <1>2, <1>3
  <2>2. \A k \in 1 .. Len(aiModels) : aiModels'[k] \in AiModel
    BY <1>3, <1>4
  <2>. QED
    BY <1>3, <2>1, <2>2
<1>6. AiTyped'
  BY <1>1, <1>2, <1>5 DEF AiTyped
<1>7. AllHappened'
  BY <1>1, <1>2, <1>4, <1>5 DEF AllHappened, Happened
<1>8. OneChampionLeads'
  BY <1>4, <1>5 DEF OneChampionLeads, Champions
<1>. QED
  BY <1>6, <1>7, <1>8 DEF AiInv

(* A restart forgets the jobs, and with the memory store the rest but the  *)
(* models.                                                                 *)
LEMMA RestartAiKeeps == AiInv /\ AiRestart => AiInv'
<1>. SUFFICES ASSUME AiInv, AiRestart PROVE AiInv'
  OBVIOUS
<1>1. AiTyped /\ AllHappened /\ OneChampionLeads
  BY DEF AiInv
<1>2. /\ \A q \in FeatureRecords : record'[q] = record[q] \/ record'[q] = Cleared
      /\ record' \in [FeatureRecords -> 0 .. Cleared]
  BY <1>1, LabelAssumption DEF AiRestart, AiTyped, Cleared
<1>3. labels' = labels \/ labels' = <<>>
  BY DEF AiRestart
<1>4. job' \in [AiJobs -> [at : {"none", "failed"}, read : {{}}, rows : {{}}]]
  BY DEF AiRestart, NoJob
<1>5. UNCHANGED <<clock, aiModels>> /\ inference' = "none"
  BY DEF AiRestart
<1>6. AiTyped'
  <2>1. labels' \in Seq(LabelRow)
    <3>1. <<>> \in Seq(LabelRow) /\ labels \in Seq(LabelRow)
      BY <1>1 DEF AiTyped
    <3>. QED
      BY <1>3, <3>1, Zenon
  <2>2. job' \in [AiJobs -> [at : {"none", "reading", "training", "completed", "failed"},
                             read : SUBSET FeatureRecords, rows : SUBSET LabelRow]]
    BY <1>4
  <2>. QED
    BY <1>1, <1>2, <1>5, <2>1, <2>2 DEF AiTyped
<1>7. clock <= clock'
  BY <1>1, <1>5, LabelAssumption DEF AiTyped
<1>8. ASSUME NEW row \in LabelRow, Happened(row) PROVE HappenedBy(record', clock', row)
  <2>1. Happened(row)'
    BY <1>1, <1>2, <1>6, <1>7, <1>8, StaysHappened
  <2>. QED
    BY <2>1 DEF Happened
<1>9. \A i \in DOMAIN labels' : HappenedBy(record', clock', labels'[i])
  BY <1>1, <1>3, <1>8, RowsAreTyped DEF AllHappened
<1>10. \A j \in AiJobs : job'[j].rows = {}
  BY <1>4
<1>11. \A i \in DOMAIN aiModels : \A row \in aiModels[i].rows : HappenedBy(record', clock', row) /\ row.label = "outcome"
  BY <1>1, <1>8, RowsAreTyped DEF AllHappened
<1>12. AllHappened'
  BY <1>5, <1>9, <1>10, <1>11 DEF AllHappened, Happened
<1>13. OneChampionLeads'
  BY <1>1, <1>5 DEF OneChampionLeads, Champions
<1>. QED
  BY <1>6, <1>12, <1>13 DEF AiInv

LEMMA AiStarts == AiInit => AiInv
<1>. SUFFICES ASSUME AiInit PROVE AiInv
  OBVIOUS
<1>1. labels = <<>> /\ aiModels = <<>> /\ job = [j \in AiJobs |-> NoJob]
  BY DEF AiInit
<1>2. clock \in 0 .. MaxClock /\ record \in [FeatureRecords -> 0 .. Cleared]
  BY LabelAssumption DEF AiInit, Unsaved, Cleared
<1>3. job \in [AiJobs -> [at : {"none", "reading", "training", "completed", "failed"},
                         read : SUBSET FeatureRecords, rows : SUBSET LabelRow]]
  BY <1>1 DEF NoJob
<1>4. AiTyped
  BY <1>1, <1>2, <1>3 DEF AiInit, AiTyped
<1>5. AllHappened
  BY <1>1 DEF AllHappened, NoJob
<1>6. OneChampionLeads
  BY <1>1 DEF OneChampionLeads, Champions
<1>. QED
  BY <1>4, <1>5, <1>6 DEF AiInv

(* Every step of the services, one action at a time.                       *)
LEMMA AiStepKeeps == AiInv /\ [AiNext]_aiVars => AiInv'
<1>. SUFFICES ASSUME AiInv, [AiNext]_aiVars PROVE AiInv'
  OBVIOUS
<1>1. ASSUME NEW r \in FeatureRecords, SaveRecord(r) \/ LabelRecord(r) PROVE AiInv'
  BY <1>1, SaveKeeps, LabelKeeps
<1>2. ASSUME NEW j \in AiJobs, StartJob(j) \/ JobFails(j) PROVE AiInv'
  BY <1>2, StartKeeps
<1>3. ASSUME NEW j \in AiJobs, JobBuilds(j) PROVE AiInv'
  BY <1>3, BuildKeeps
<1>4. ASSUME NEW j \in AiJobs, NEW artifact \in {"saved", "lost"}, JobTrained(j, artifact) PROVE AiInv'
  BY <1>4, TrainedKeeps
<1>5. ASSUME NEW i \in DOMAIN aiModels, PromoteAi(i) PROVE AiInv'
  BY <1>5, PromoteAiKeeps
<1>6. CASE Infer
  <2>1. AiTyped' /\ UNCHANGED <<clock, record, labels, job, aiModels>>
    BY <1>6 DEF Infer, AiInv, AiTyped
  <2>. QED
    BY <2>1 DEF AiInv, AllHappened, Happened, OneChampionLeads, Champions
<1>7. CASE UNCHANGED aiVars
  BY <1>7 DEF aiVars, AiInv, AiTyped, AllHappened, Happened, OneChampionLeads, Champions
<1>8. CASE CandleCloses \/ ClearRecords \/ ClearLabels \/ AiRestart
  BY <1>8, CandleKeeps, ClearKeeps, UnlabelKeeps, RestartAiKeeps
<1>. QED
  BY <1>1, <1>2, <1>3, <1>4, <1>5, <1>6, <1>7, <1>8 DEF AiNext

(* The inductive invariant of the AI services holds of every behaviour     *)
(* (server/ai, aiRoutes.js).                                               *)
THEOREM AiInductive == AiSpec => []AiInv
<1>. QED
  BY AiStarts, AiStepKeeps, PTL DEF AiSpec

LEMMA AiTypes == AiInv => AiTypeOK
<1>. SUFFICES ASSUME AiInv PROVE AiTypeOK
  OBVIOUS
<1>1. AiTyped
  BY DEF AiInv
<1>2. \A i \in DOMAIN aiModels : /\ aiModels[i].status \in {"trained", "champion", "archived"}
                                 /\ aiModels[i].job \in AiJobs /\ aiModels[i].artifact \in {"saved", "lost"}
  BY <1>1, RowsAreTyped DEF AiModel
<1>3. labels \in Seq([record : FeatureRecords, label : {"unknown", "outcome"}])
  BY <1>1 DEF AiTyped, LabelRow
<1>4. \A j \in AiJobs : /\ job[j].at \in {"none", "reading", "training", "completed", "failed"}
                        /\ job[j].read \subseteq FeatureRecords
                        /\ job[j].rows \subseteq [record : FeatureRecords, label : {"unknown", "outcome"}]
  BY <1>1 DEF AiTyped, LabelRow
<1>. QED
  BY <1>1, <1>2, <1>3, <1>4 DEF AiTyped, AiTypeOK

(* Every variable keeps to its type (aiRoutes.js).                         *)
THEOREM AiTypeCorrect == AiSpec => []AiTypeOK
<1>. QED
  BY AiInductive, AiTypes, PTL

(* A model in the registry learnt from outcomes that had happened, and the *)
(* registry has one champion from its first model on, however jobs overlap *)
(* and records are labelled again or removed (outcomeLabeler.js,           *)
(* datasetBuilderService.js, trainingPipelineService.js).                  *)
THEOREM JobsAreHonest == AiSpec => []JobsHonest
<1>1. AiInv => TrainedOnOutcomes
  BY DEF AiInv, AllHappened, Happened, HappenedBy, TrainedOnOutcomes
<1>2. AiInv => JobsNeverDepose
  <2>. SUFFICES ASSUME AiInv PROVE JobsNeverDepose
    OBVIOUS
  <2>1. OneChampionLeads
    BY DEF AiInv
  <2>2. CASE Champions = {}
    BY <2>1, <2>2, FS_EmptySet DEF OneChampionLeads, JobsNeverDepose
  <2>3. CASE Champions # {}
    <3>1. PICK i \in Champions : Champions = {i}
      BY <2>1, <2>3 DEF OneChampionLeads
    <3>2. Cardinality(Champions) = 1
      BY <3>1, FS_Singleton
    <3>. QED
      BY <2>1, <3>2 DEF OneChampionLeads, JobsNeverDepose
  <2>. QED
    BY <2>2, <2>3
<1>. QED
  BY AiInductive, <1>1, <1>2, PTL DEF JobsHonest

----------------------------------------------------------------------------
(* SignalData                                                              *)

(* What a preparation leaves: rows of the file in order, each with its     *)
(* sale in the file, and their parts, cut in two places at most.           *)
CutInParts(parts, rows) ==
  \E a, b \in 0 .. Len(rows) :
    /\ a <= b
    /\ parts = [train |-> SubSeq(rows, 1, a), val |-> SubSeq(rows, a + 1, b), test |-> SubSeq(rows, b + 1, Len(rows))]

Prepared(p) ==
  p # NoPrepared =>
    /\ p.for \in {"training", "dataset"} /\ p.horizon \in Horizons
    /\ p.rows \in Seq(DOMAIN file) /\ CutInParts(p.parts, p.rows)
    /\ \A i \in 1 .. Len(p.rows) :
         /\ p.rows[i] + p.horizon \in DOMAIN file
         /\ i > 1 => p.rows[i - 1] < p.rows[i]

PrepInv == file \in BarFiles /\ Prepared(prepared)

LEMMA FileIsList ==
  ASSUME file \in BarFiles
  PROVE  \E n \in Nat : Len(file) = n /\ DOMAIN file = 1 .. n
BY BarAssumption

(* The bars that have a label are those whose sale is in the file, so that *)
(* the rows are, and the numbers of the bars are in order to begin with.   *)
LEMMA RowsInOrder ==
  ASSUME file \in BarFiles, NEW h \in Horizons, NEW label,
         \A t \in DOMAIN file : label[t] # NoLabel => t \in Labelled(file, h)
  PROVE  /\ Rows(file, label) \in Seq(DOMAIN file)
         /\ \A i \in 1 .. Len(Rows(file, label)) :
              /\ Rows(file, label)[i] + h \in DOMAIN file
              /\ i > 1 => Rows(file, label)[i - 1] < Rows(file, label)[i]
<1>1. PICK n \in Nat : Len(file) = n /\ DOMAIN file = 1 .. n
  BY FileIsList
<1>2. h \in Nat \ {0}
  BY HorizonAssumption
<1>. DEFINE S == {t \in DOMAIN file : label[t] # NoLabel /\ HasFeatures(file, t)}
<1>3. PICK bars : bars = [t \in DOMAIN file |-> t]
  OBVIOUS
<1>4. bars \in Seq(DOMAIN file) /\ Len(bars) = n /\ \A t \in 1 .. n : bars[t] = t
  BY <1>1, <1>3
<1>5. PICK rows : rows = Filtered(bars, S)
  OBVIOUS
<1>6. \A t \in S : t + h \in DOMAIN file
  BY <1>1, <1>2 DEF Labelled
<1>. HIDE DEF S
<1>7. PICK place : rows \in Seq(DOMAIN file) /\ Places(bars, S, n, rows, place)
  BY <1>4, <1>5, PlacesOf
<1>8. /\ place \in [1 .. Len(rows) -> 1 .. n]
      /\ \A k \in 1 .. Len(rows) : rows[k] = bars[place[k]] /\ bars[place[k]] \in S
      /\ \A j, k \in 1 .. Len(rows) : j < k => place[j] < place[k]
  BY <1>7 DEF Places
<1>9. \A k \in 1 .. Len(rows) : rows[k] = place[k] /\ rows[k] \in S
  BY <1>4, <1>8
<1>10. \A k \in 1 .. Len(rows) : rows[k] + h \in DOMAIN file
  BY <1>6, <1>9
<1>11. \A k \in 1 .. Len(rows) : k > 1 => rows[k - 1] < rows[k]
  <2>. TAKE k \in 1 .. Len(rows)
  <2>. HAVE k > 1
  <2>1. Len(rows) \in Nat /\ k - 1 \in 1 .. Len(rows) /\ k - 1 < k
    BY <1>7
  <2>. QED
    BY <1>8, <1>9, <2>1
<1>12. Rows(file, label) = rows
  BY <1>3, <1>5 DEF Rows, S
<1>. QED
  BY <1>7, <1>10, <1>11, <1>12

(* Whatever the ratios, the cuts of a split that is accepted are in the    *)
(* rows and in order; a dataset is one part.                               *)
LEMMA SplitCuts ==
  ASSUME NEW X, NEW rows \in Seq(X), NEW r \in Ratios, NEW h, SplitAccepted(rows, r, h)
  PROVE  CutInParts(Parts(rows, r), rows)
<1>1. PICK n \in Nat : n = Len(rows)
  OBVIOUS
<1>2. r.train \in Int /\ r.train + r.val \in Int
  BY RatioAssumption
<1>3. ASSUME NEW m \in Nat, NEW share \in Int
      PROVE  WholePart(m, share) \in Int
  <2>1. PICK x \in Int : x = m * share
    OBVIOUS
  <2>2. PICK y \in Int : y = m * (-share)
    OBVIOUS
  <2>3. -(y \div 100) \in Int /\ x \div 100 \in Int
    OBVIOUS
  <2>. QED
    BY <2>1, <2>2, <2>3 DEF WholePart
<1>4. PICK c \in Int : c = TrainEnd(n, r)
  BY <1>2, <1>3 DEF TrainEnd
<1>5. PICK d \in Int : d = ValEnd(n, r)
  BY <1>2, <1>3 DEF ValEnd
<1>6. CutsRows(n, c) /\ CutsRows(n, d) /\ Parts(rows, r).val # <<>>
  BY <1>1, <1>4, <1>5 DEF SplitAccepted
<1>7. ASSUME NEW k \in Int, CutsRows(n, k)
      PROVE  Place(n, k) \in 0 .. n
  BY <1>7 DEF CutsRows, Place
<1>8. PICK a \in 0 .. n : a = Place(n, c)
  BY <1>6, <1>7
<1>9. PICK b \in 0 .. n : b = Place(n, d)
  BY <1>6, <1>7
<1>10. Parts(rows, r) = [train |-> SubSeq(rows, 1, a), val |-> SubSeq(rows, a + 1, b), test |-> SubSeq(rows, b + 1, n)]
  BY <1>1, <1>4, <1>5, <1>8, <1>9 DEF Parts
<1>11. a <= b
  <2>1. SubSeq(rows, a + 1, b) # <<>>
    <3>1. PICK parts : parts = Parts(rows, r)
      OBVIOUS
    <3>2. parts.val # <<>>
      BY <1>6, <3>1
    <3>3. parts.val = SubSeq(rows, a + 1, b)
      BY <1>10, <3>1
    <3>. QED
      BY <3>2, <3>3
  <2>2. ASSUME ~(a <= b)
        PROVE  SubSeq(rows, a + 1, b) = <<>>
    <3>1. a + 1 > b /\ a + 1 \in Int /\ b \in Int
      BY <2>2
    <3>. QED
      BY <3>1, SubSeqEmpty
  <2>. QED
    BY <2>1, <2>2
<1>. QED
  BY <1>1, <1>10, <1>11 DEF CutInParts

LEMMA OnePart ==
  ASSUME NEW X, NEW rows \in Seq(X)
  PROVE  CutInParts([train |-> rows, val |-> <<>>, test |-> <<>>], rows)
<1>1. PICK n \in Nat : n = Len(rows)
  OBVIOUS
<1>2. SubSeq(rows, 1, n) = rows
  BY <1>1, SubSeqFull
<1>3. n + 1 > n /\ n + 1 \in Int /\ n \in Int
  OBVIOUS
<1>4. SubSeq(rows, n + 1, n) = <<>>
  BY <1>3, SubSeqEmpty
<1>5. n \in 0 .. n /\ n <= n
  OBVIOUS
<1>. QED
  BY <1>1, <1>2, <1>4, <1>5 DEF CutInParts

LEMMA PrepStepKeeps ==
  ASSUME PrepInv, PrepNext
  PROVE  PrepInv'
<1>1. ASSUME NEW h \in Horizons, NEW use \in {"training", "dataset"}, NEW label,
             \A t \in DOMAIN file : label[t] # NoLabel => t \in Labelled(file, h),
             UNCHANGED file, NEW parts, NEW rows, rows = Rows(file, label), CutInParts(parts, rows),
             prepared' = [for |-> use, horizon |-> h, rows |-> rows, parts |-> parts]
      PROVE  PrepInv'
  <2>1. /\ rows \in Seq(DOMAIN file)
        /\ \A i \in 1 .. Len(rows) :
             rows[i] + h \in DOMAIN file /\ (i > 1 => rows[i - 1] < rows[i])
    BY <1>1, RowsInOrder DEF PrepInv
  <2>2. prepared'.for = use /\ prepared'.horizon = h /\ prepared'.rows = rows /\ prepared'.parts = parts
    BY <1>1
  <2>. QED
    BY <1>1, <2>1, <2>2 DEF PrepInv, Prepared, CutInParts
<1>2. ASSUME NEW h \in Horizons, NEW r \in Ratios, PreparesTraining(h, r)
      PROVE  PrepInv'
  <2>1. PICK label : label = [u \in DOMAIN file |-> P1Label(file, u, h)]
    OBVIOUS
  <2>2. \A t \in DOMAIN file : label[t] # NoLabel => t \in Labelled(file, h)
    BY <2>1 DEF P1Label
  <2>3. PICK rows : rows = Rows(file, label)
    OBVIOUS
  <2>4. /\ UNCHANGED file
        /\ prepared' = IF SplitAccepted(rows, r, h)
                       THEN [for |-> "training", horizon |-> h, rows |-> rows, parts |-> Parts(rows, r)]
                       ELSE NoPrepared
    BY <1>2, <2>1, <2>3 DEF PreparesTraining
  <2>5. CASE SplitAccepted(rows, r, h)
    <3>1. rows \in Seq(DOMAIN file)
      BY <2>2, <2>3, RowsInOrder DEF PrepInv
    <3>2. CutInParts(Parts(rows, r), rows)
      BY <2>5, <3>1, SplitCuts
    <3>. QED
      BY <1>1, <2>2, <2>3, <2>4, <2>5, <3>2
  <2>6. CASE ~SplitAccepted(rows, r, h)
    BY <2>4, <2>6 DEF PrepInv, Prepared
  <2>. QED
    BY <2>5, <2>6
<1>3. ASSUME NEW h \in Horizons, BuildsDataset(h)
      PROVE  PrepInv'
  <2>1. PICK label : label = [u \in DOMAIN file |-> DatasetLabel(file, u, h)]
    OBVIOUS
  <2>2. \A t \in DOMAIN file : label[t] # NoLabel => t \in Labelled(file, h)
    BY <2>1 DEF DatasetLabel
  <2>3. PICK rows : rows = Rows(file, label)
    OBVIOUS
  <2>4. rows \in Seq(DOMAIN file)
    BY <2>2, <2>3, RowsInOrder DEF PrepInv
  <2>5. PICK parts : parts = [train |-> rows, val |-> <<>>, test |-> <<>>]
    OBVIOUS
  <2>6. CutInParts(parts, rows)
    BY <2>4, <2>5, OnePart
  <2>7. UNCHANGED file /\ prepared' = [for |-> "dataset", horizon |-> h, rows |-> rows, parts |-> parts]
    BY <1>3, <2>1, <2>3, <2>5 DEF BuildsDataset
  <2>. QED
    BY <1>1, <2>2, <2>3, <2>6, <2>7
<1>. QED
  BY <1>2, <1>3 DEF PrepNext

LEMMA PrepStarts == PrepInit => PrepInv
  BY DEF PrepInit, PrepInv, Prepared

LEMMA PrepKeeps == PrepInv /\ [PrepNext]_dataPrepVars => PrepInv'
<1>1. UNCHANGED dataPrepVars /\ PrepInv => PrepInv'
  BY DEF dataPrepVars, PrepInv, Prepared
<1>. QED
  BY <1>1, PrepStepKeeps

LEMMA PrepTypes == PrepInv => PrepTypeOK
  BY DEF PrepInv, Prepared, PrepTypeOK

(* What a preparation leaves are rows of the file in order, each with its  *)
(* sale in the file, and their parts (train_pipeline.py, build_dataset).   *)
THEOREM PrepInductive == PrepSpec => []PrepInv
<1>. QED
  BY PrepStarts, PrepKeeps, PTL DEF PrepSpec

(* The parts put together are the rows.                                    *)
LEMMA PartsAreAll ==
  ASSUME NEW X, NEW rows \in Seq(X), NEW parts, CutInParts(parts, rows)
  PROVE  parts.train \o parts.val \o parts.test = rows
<1>1. PICK n \in Nat : Len(rows) = n
  OBVIOUS
<1>2. PICK a \in 0 .. n, b \in 0 .. n :
        /\ a <= b
        /\ parts = [train |-> SubSeq(rows, 1, a), val |-> SubSeq(rows, a + 1, b), test |-> SubSeq(rows, b + 1, n)]
  BY <1>1 DEF CutInParts
<1>3. /\ parts.train = SubSeq(rows, 1, a) /\ parts.val = SubSeq(rows, a + 1, b)
      /\ parts.test = SubSeq(rows, b + 1, n)
  BY <1>2
<1>4. SubSeq(rows, 1, a) \o SubSeq(rows, a + 1, b) = SubSeq(rows, 1, b)
  <2>1. 1 \in 1 .. Len(rows) + 1 /\ a \in 1 - 1 .. Len(rows) /\ b \in a .. Len(rows)
    BY <1>1, <1>2
  <2>. QED
    BY <2>1, ConcatAdjacentSubSeq
<1>5. SubSeq(rows, 1, b) \o SubSeq(rows, b + 1, n) = SubSeq(rows, 1, n)
  <2>1. 1 \in 1 .. Len(rows) + 1 /\ b \in 1 - 1 .. Len(rows) /\ n \in b .. Len(rows)
    BY <1>1, <1>2
  <2>. QED
    BY <2>1, ConcatAdjacentSubSeq
<1>6. SubSeq(rows, 1, n) = rows
  BY <1>1, SubSeqFull
<1>. QED
  BY <1>3, <1>4, <1>5, <1>6

(* Numbers in order are as far apart as their places, at least.            *)
Ascending(nums) ==
  \A i \in 1 .. Len(nums) : nums[i] \in Int /\ (i > 1 => nums[i - 1] < nums[i])

LEMMA FarApart ==
  ASSUME NEW X, NEW nums \in Seq(X), Ascending(nums)
  PROVE  \A i \in 1 .. Len(nums) : nums[i] + (Len(nums) - i) <= nums[Len(nums)]
<1>1. PICK l \in Nat : l = Len(nums)
  OBVIOUS
<1>2. \A i \in 1 .. l : nums[i] \in Int /\ (i > 1 => nums[i - 1] < nums[i])
  BY <1>1 DEF Ascending
<1>. DEFINE T == {m \in Nat : m < l => nums[l - m] + m <= nums[l]}
<1>3. 0 \in T
  <2>1. ASSUME 0 < l
        PROVE  nums[l - 0] + 0 <= nums[l]
    <3>1. l \in 1 .. l /\ l - 0 = l
      BY <2>1
    <3>2. PICK v \in Int : v = nums[l]
      BY <1>2, <3>1
    <3>. QED
      BY <3>1, <3>2
  <2>. QED
    BY <2>1
<1>4. ASSUME NEW m \in Nat, m \in T
      PROVE  m + 1 \in T
  <2>1. ASSUME m + 1 < l
        PROVE  nums[l - (m + 1)] + (m + 1) <= nums[l]
    <3>1. m < l /\ l - m \in 1 .. l /\ l \in 1 .. l /\ l - (m + 1) \in 1 .. l /\ l - m > 1 /\ (l - m) - 1 = l - (m + 1)
      BY <2>1
    <3>2. PICK u \in Int : u = nums[l - (m + 1)]
      BY <1>2, <3>1
    <3>3. PICK v \in Int : v = nums[l - m]
      BY <1>2, <3>1
    <3>4. PICK w \in Int : w = nums[l]
      BY <1>2, <3>1
    <3>5. v + m <= w
      BY <1>4, <3>1, <3>3, <3>4
    <3>6. u < v
      BY <1>2, <3>1, <3>2, <3>3
    <3>7. u + (m + 1) <= w
      BY <3>5, <3>6
    <3>. QED
      BY <3>2, <3>4, <3>7
  <2>. QED
    BY <2>1
<1>. HIDE DEF T
<1>5. \A m \in Nat : m \in T
  BY <1>3, <1>4, AllNumbers
<1>6. ASSUME NEW i \in 1 .. l
      PROVE  nums[i] + (l - i) <= nums[l]
  <2>1. l - i \in Nat /\ l - i < l /\ l - (l - i) = i
    OBVIOUS
  <2>2. l - i \in T
    BY <1>5, <2>1
  <2>. QED
    BY <2>1, <2>2 DEF T
<1>. QED
  BY <1>1, <1>6

(* Within a part, what is sold by the end of its rows is sold in it.       *)
LEMMA SoldWithin ==
  ASSUME NEW X, NEW rows \in Seq(X), Ascending(rows), NEW a \in 0 .. Len(rows), NEW b \in 0 .. Len(rows),
         NEW part, part = SubSeq(rows, a + 1, b), NEW h \in Nat
  PROVE  \A i \in DOMAIN part : i + h <= Len(part) => part[i] + h <= Last(part)
<1>1. PICK l \in Nat : l = Len(rows)
  OBVIOUS
<1>2. PICK c \in Int : c = a + 1
  OBVIOUS
<1>3. \A i \in c .. b : i \in 1 .. l /\ rows[i] \in X
  BY <1>1, <1>2
<1>4. /\ part \in Seq(X) /\ Len(part) = IF c <= b THEN b - c + 1 ELSE 0
      /\ \A i \in 1 .. b - c + 1 : part[i] = rows[c + i - 1]
  BY <1>2, <1>3, SubSeqProperties
<1>5. PICK k \in Nat : k = Len(part) /\ DOMAIN part = 1 .. k
  BY <1>4
<1>6. \A i \in 1 .. k : i \in 1 .. b - c + 1 /\ c + i - 1 \in 1 .. l /\ (i > 1 => c + i - 1 > 1 /\ c + (i - 1) - 1 = (c + i - 1) - 1)
  BY <1>1, <1>2, <1>4, <1>5
<1>7. Ascending(part)
  <2>1. ASSUME NEW i \in 1 .. k
        PROVE  part[i] \in Int /\ (i > 1 => part[i - 1] < part[i])
    <3>1. part[i] = rows[c + i - 1] /\ rows[c + i - 1] \in Int
      BY <1>1, <1>4, <1>6 DEF Ascending
    <3>2. ASSUME i > 1
          PROVE  part[i - 1] < part[i]
      <4>1. i - 1 \in 1 .. k /\ i - 1 \in 1 .. b - c + 1
        BY <1>6, <3>2
      <4>2. part[i - 1] = rows[(c + i - 1) - 1]
        BY <1>4, <1>6, <3>2, <4>1
      <4>3. rows[(c + i - 1) - 1] < rows[c + i - 1]
        BY <1>1, <1>6, <3>2 DEF Ascending
      <4>. QED
        BY <3>1, <4>2, <4>3
    <3>. QED
      BY <3>1, <3>2
  <2>. QED
    BY <1>5, <2>1 DEF Ascending
<1>8. ASSUME NEW i \in 1 .. k, i + h <= k
      PROVE  part[i] + h <= Last(part)
  <2>1. part[i] + (k - i) <= part[k]
    BY <1>4, <1>5, <1>7, FarApart
  <2>2. Last(part) = part[k] /\ k \in 1 .. k
    BY <1>5 DEF Last
  <2>3. PICK u \in Int : u = part[i]
    BY <1>5, <1>7 DEF Ascending
  <2>4. PICK v \in Int : v = part[k]
    BY <1>5, <1>7, <2>2 DEF Ascending
  <2>5. u + (k - i) <= v
    BY <2>1, <2>3, <2>4
  <2>6. u + h <= v
    BY <1>8, <2>5
  <2>. QED
    BY <2>2, <2>3, <2>4, <2>6
<1>. QED
  BY <1>5, <1>8

(* A dataset and a training read rows of the file in order and once each,  *)
(* none of whose sales lies behind the file's end; no row is lost or used  *)
(* twice at the cuts of the split, whatever the ratios; and only the last  *)
(* rows of a part, as many as the horizon, may be labelled with prices of  *)
(* the next; for files of any length (train_pipeline.py:143-160).          *)
THEOREM RowsOnce == PrepSpec => []EveryRowOnce
<1>1. PrepInv => EveryRowOnce
  <2>. SUFFICES ASSUME PrepInv, prepared # NoPrepared
                PROVE  EveryRowOnce
    BY DEF EveryRowOnce
  <2>1. PICK rows : rows = prepared.rows
    OBVIOUS
  <2>2. PICK parts : parts = prepared.parts
    OBVIOUS
  <2>3. PICK h \in Nat : h = prepared.horizon
    <3>1. prepared.horizon \in Horizons
      BY DEF PrepInv, Prepared
    <3>. QED
      BY <3>1, HorizonAssumption
  <2>4. rows \in Seq(DOMAIN file) /\ CutInParts(parts, rows) /\ DOMAIN rows = 1 .. Len(rows)
    <3>1. rows \in Seq(DOMAIN file) /\ CutInParts(parts, rows)
      BY <2>1, <2>2 DEF PrepInv, Prepared
    <3>. QED
      BY <3>1
  <2>5. parts.train \o parts.val \o parts.test = rows
    BY <2>4, PartsAreAll
  <2>6. \A i \in 1 .. Len(rows) : rows[i] + h \in DOMAIN file /\ (i > 1 => rows[i - 1] < rows[i])
    BY <2>1, <2>3 DEF PrepInv, Prepared
  <2>7. Ascending(rows)
    <3>1. \A t \in DOMAIN file : t \in Int
      BY FileIsList DEF PrepInv
    <3>2. \A i \in 1 .. Len(rows) : rows[i] \in DOMAIN file
      BY <2>4
    <3>. QED
      BY <2>6, <3>1, <3>2 DEF Ascending
  <2>8. PICK a \in 0 .. Len(rows), b \in 0 .. Len(rows) :
          parts.train = SubSeq(rows, 0 + 1, a) /\ parts.val = SubSeq(rows, a + 1, b)
    <3>1. PICK a \in 0 .. Len(rows), b \in 0 .. Len(rows) :
            parts = [train |-> SubSeq(rows, 1, a), val |-> SubSeq(rows, a + 1, b), test |-> SubSeq(rows, b + 1, Len(rows))]
      BY <2>4 DEF CutInParts
    <3>2. parts.train = SubSeq(rows, 1, a) /\ parts.val = SubSeq(rows, a + 1, b)
      BY <3>1
    <3>3. 0 + 1 = 1
      OBVIOUS
    <3>. QED
      BY <3>2, <3>3
  <2>9. ASSUME NEW part \in {parts.train, parts.val}, NEW i \in DOMAIN part, i + h <= Len(part)
        PROVE  part[i] + h <= Last(part)
    <3>1. 0 \in 0 .. Len(rows)
      BY <2>4
    <3>2. CASE part = parts.train
      BY <2>4, <2>7, <2>8, <2>9, <3>1, <3>2, SoldWithin
    <3>3. CASE part = parts.val
      BY <2>4, <2>7, <2>8, <2>9, <3>3, SoldWithin
    <3>. QED
      BY <2>9, <3>2, <3>3
  <2>. QED
    BY <2>1, <2>2, <2>3, <2>4, <2>5, <2>6, <2>9 DEF EveryRowOnce
<1>. QED
  BY <1>1, PrepInductive, PTL

(* What was prepared is of a horizon, its rows numbers of the file's bars  *)
(* (train_pipeline.py).                                                    *)
THEOREM PrepTypeCorrect == PrepSpec => []PrepTypeOK
<1>. QED
  BY PrepTypes, PrepInductive, PTL

----------------------------------------------------------------------------
(* Backtest: a trade that was decided stays decided.  A saved run covers   *)
(* the first candles of the dataset, and what was simulated over them.     *)

OfPrefix(r) ==
  \E n \in 0 .. Len(series) : \E d :
    /\ r.candles = n /\ r.config \in Configs
    /\ r.trades = When(n >= 2, <<Simulate(SubSeq(series, 1, n), d, r.config)>>)

RunsInv ==
  /\ series \in Seq(Candles)
  /\ \A r \in runs : r.source = "dataset" => OfPrefix(r)

LEMMA LastHeldIs ==
  ASSUME NEW X, NEW cs \in Seq(X), NEW g \in Configs
  PROVE  LastHeld(cs, g) = IF Len(cs) <= 2 + g.holding THEN Len(cs) ELSE 2 + g.holding
BY ConfigAssumption, MinOfTwo DEF LastHeld

(* What follows a decision does not change it. *)
LEMMA DecisionStays ==
  ASSUME NEW cs \in Seq(Candles), NEW n \in 2 .. Len(cs), NEW g \in Configs, NEW d,
         \/ Simulate(SubSeq(cs, 1, n), d, g).reason # "max_holding_period"
         \/ n >= 2 + g.holding
  PROVE  Simulate(SubSeq(cs, 1, n), d, g) = Simulate(cs, d, g)
<1>1. PICK p : p = SubSeq(cs, 1, n)
  OBVIOUS
<1>2. p \in Seq(Candles) /\ Len(p) = n /\ \A i \in 1 .. n : p[i] = cs[i]
  BY <1>1
<1>3. p[2] = cs[2]
  BY <1>2
<1>4. /\ Entry(p, d, g) = Entry(cs, d, g) /\ StopAt(p, d, g) = StopAt(cs, d, g)
      /\ TargetAt(p, d, g) = TargetAt(cs, d, g)
  BY <1>3 DEF Entry, StopAt, TargetAt
<1>5. PICK h \in Nat : h = 2 + g.holding
  BY ConfigAssumption
<1>6. PICK a \in Nat : a = LastHeld(p, g) /\ a = IF n <= h THEN n ELSE h
  BY <1>2, <1>5, LastHeldIs
<1>7. PICK b \in Nat : b = LastHeld(cs, g) /\ b = IF Len(cs) <= h THEN Len(cs) ELSE h
  BY <1>5, LastHeldIs
<1>8. a <= b /\ a <= n /\ n <= Len(cs)
  BY <1>6, <1>7
<1>9. PICK few : few = Hits(p, d, g)
  OBVIOUS
<1>10. PICK many : many = Hits(cs, d, g)
  OBVIOUS
<1>11. few = {i \in many : i <= a}
  <2>1. \A i \in 3 .. a : i \in 3 .. b /\ p[i] = cs[i]
    BY <1>2, <1>8
  <2>2. \A i \in 3 .. b : i <= a <=> i \in 3 .. a
    BY <1>6, <1>7
  <2>. DEFINE Q(i) == \/ StopHit(cs[i], d, StopAt(cs, d, g))
                      \/ TargetHit(cs[i], d, TargetAt(cs, d, g))
  <2>3. many = {i \in 3 .. b : Q(i)}
    BY <1>7, <1>10 DEF Hits
  <2>4. few = {i \in 3 .. a : Q(i)}
    BY <1>4, <1>6, <1>9, <2>1 DEF Hits
  <2>. HIDE DEF Q
  <2>. QED
    BY <2>1, <2>2, <2>3, <2>4
<1>12. few \subseteq 3 .. a /\ many \subseteq 3 .. b
  BY <1>6, <1>7, <1>9, <1>10 DEF Hits
<1>13. few \in SUBSET Nat /\ many \in SUBSET Nat
  BY <1>12
<1>14. /\ few = {} <=> many = {}
       /\ few # {} => Min(few) = Min(many) /\ p[Min(few)] = cs[Min(many)]
       /\ few = {} => a = b /\ p[a] = cs[b]
  <2>1. CASE n >= h
    <3>1. a = h /\ b = h
      BY <1>6, <1>7, <1>8, <2>1
    <3>2. few = many
      <4>1. \A i \in many : i <= a
        BY <1>12, <3>1
      <4>. QED
        BY <1>11, <4>1
    <3>3. few # {} => Min(few) \in few
      <4>1. few # {} => \E m \in few : \A k \in few : m <= k
        BY <1>13, LeastOf
      <4>. QED
        BY <4>1 DEF Min
    <3>4. \A i \in few : i \in 1 .. n
      BY <1>8, <1>12
    <3>5. a \in 1 .. n
      BY <1>5, <1>8, <3>1, ConfigAssumption
    <3>. QED
      BY <1>2, <3>1, <3>2, <3>3, <3>4, <3>5
  <2>2. CASE n < h
    <3>1. few # {}
      <4>1. Simulate(p, d, g).reason # "max_holding_period"
        BY <1>1, <1>5, <2>2
      <4>2. ClosedOn(p, d, g, LastHeld(p, g), FALSE).reason = "max_holding_period"
        BY DEF ClosedOn
      <4>. QED
        BY <1>9, <4>1, <4>2 DEF Simulate
    <3>2. PICK m \in few : \A k \in few : m <= k
      BY <1>13, <3>1, LeastOf
    <3>3. m \in many /\ \A k \in many : m <= k
      BY <1>11, <1>13, <1>6, <3>2
    <3>4. Min(few) = m /\ Min(many) = m
      BY <1>13, <3>2, <3>3, MinIs
    <3>5. m \in 1 .. n
      BY <1>8, <1>12, <3>2
    <3>. QED
      BY <1>2, <3>1, <3>3, <3>4, <3>5
  <2>. QED
    BY <1>5, <2>1, <2>2
<1>15. \A i, j, reached : p[i] = cs[j] /\ i = j => ClosedOn(p, d, g, i, reached) = ClosedOn(cs, d, g, j, reached)
  BY <1>4 DEF ClosedOn
<1>16. Simulate(p, d, g) = Simulate(cs, d, g)
  <2>1. few # {} => ClosedOn(p, d, g, Min(few), TRUE) = ClosedOn(cs, d, g, Min(many), TRUE)
    BY <1>14, <1>15
  <2>2. few = {} => ClosedOn(p, d, g, a, FALSE) = ClosedOn(cs, d, g, b, FALSE)
    BY <1>14, <1>15
  <2>. QED
    BY <1>6, <1>7, <1>9, <1>10, <1>14, <2>1, <2>2 DEF Simulate
<1>. QED
  BY <1>1, <1>16

LEMMA SimulateKeepsDirection ==
  ASSUME NEW cs, NEW d, NEW g
  PROVE  Simulate(cs, d, g).direction = d
BY DEF Simulate, ClosedOn

(* A run over the first candles tells what the run over all of them does,  *)
(* once it is decided.                                                     *)
LEMMA RunsDecided == RunsInv => DecidedStays
<1>. SUFFICES ASSUME RunsInv, NEW r \in runs, NEW i \in DOMAIN r.trades, r.source = "dataset",
                     \/ r.trades[i].reason # "max_holding_period"
                     \/ r.candles >= 2 + r.config.holding
              PROVE  r.trades[i] = Simulate(series, r.trades[i].direction, r.config)
  BY DEF DecidedStays
<1>. PICK n \in 0 .. Len(series) : \E d :
        /\ r.candles = n /\ r.config \in Configs
        /\ r.trades = When(n >= 2, <<Simulate(SubSeq(series, 1, n), d, r.config)>>)
  BY DEF RunsInv, OfPrefix
<1>1. PICK d :
        /\ r.candles = n /\ r.config \in Configs
        /\ r.trades = When(n >= 2, <<Simulate(SubSeq(series, 1, n), d, r.config)>>)
  OBVIOUS
<1>2. series \in Seq(Candles)
  BY DEF RunsInv
<1>3. n >= 2 /\ r.trades = <<Simulate(SubSeq(series, 1, n), d, r.config)>>
  BY <1>1 DEF When
<1>4. i = 1 /\ r.trades[i] = Simulate(SubSeq(series, 1, n), d, r.config)
  BY <1>3
<1>5. n \in 2 .. Len(series)
  BY <1>1, <1>3
<1>6. r.trades[i] = Simulate(series, d, r.config)
  BY <1>1, <1>2, <1>4, <1>5, DecisionStays
<1>. QED
  BY <1>4, <1>6, SimulateKeepsDirection

LEMMA GrowKeepsRuns ==
  ASSUME RunsInv, NEW candle \in Candles, SeriesGrows(candle)
  PROVE  RunsInv'
<1>1. series' = Append(series, candle) /\ series \in Seq(Candles) /\ UNCHANGED runs
  BY DEF SeriesGrows, RunsInv, tables
<1>2. series' \in Seq(Candles) /\ Len(series') = Len(series) + 1 /\ Len(series) \in Nat
  BY <1>1
<1>3. \A n \in 0 .. Len(series) : SubSeq(series', 1, n) = SubSeq(series, 1, n)
  BY <1>1, <1>2
<1>4. ASSUME NEW r \in runs, OfPrefix(r)
      PROVE  OfPrefix(r)'
  <2>. PICK n \in 0 .. Len(series) : \E d :
          /\ r.candles = n /\ r.config \in Configs
          /\ r.trades = When(n >= 2, <<Simulate(SubSeq(series, 1, n), d, r.config)>>)
    BY <1>4 DEF OfPrefix
  <2>1. PICK d :
          /\ r.candles = n /\ r.config \in Configs
          /\ r.trades = When(n >= 2, <<Simulate(SubSeq(series, 1, n), d, r.config)>>)
    OBVIOUS
  <2>2. n \in 0 .. Len(series')
    BY <1>2
  <2>3. r.trades = When(n >= 2, <<Simulate(SubSeq(series', 1, n), d, r.config)>>)
    BY <1>3, <2>1
  <2>. QED
    BY <2>1, <2>2, <2>3 DEF OfPrefix
<1>. QED
  BY <1>1, <1>2, <1>4 DEF RunsInv

LEMMA SaveKeepsRuns ==
  ASSUME RunsInv, NEW c, NEW g \in Configs, NEW source \in {"dataset", "demo"}, NEW cs,
         source = "dataset" => cs = series, Save(Result(c, g, cs, source)), UNCHANGED series
  PROVE  RunsInv'
<1>1. PICK r : r = Result(c, g, cs, source)
  OBVIOUS
<1>2. /\ r.source = source /\ r.config = g /\ r.candles = Len(cs)
      /\ r.trades = When(Len(cs) >= 2, <<Simulate(cs, c.direction, g)>>)
  BY <1>1 DEF Result
<1>3. source = "dataset" => OfPrefix(r)
  <2>. HAVE source = "dataset"
  <2>1. PICK n : n = Len(series)
    OBVIOUS
  <2>2. PICK d : d = c.direction
    OBVIOUS
  <2>3. n \in 0 .. Len(series) /\ SubSeq(series, 1, n) = series
    BY <2>1, SubSeqFull DEF RunsInv
  <2>4. /\ r.candles = n /\ r.config \in Configs
        /\ r.trades = When(n >= 2, <<Simulate(SubSeq(series, 1, n), d, r.config)>>)
    BY <1>2, <2>1, <2>2, <2>3
  <2>5. \E e : r.candles = n /\ r.config \in Configs
               /\ r.trades = When(n >= 2, <<Simulate(SubSeq(series, 1, n), e, r.config)>>)
    BY <2>4
  <2>. QED
    BY <2>3, <2>5 DEF OfPrefix
<1>4. \A q \in runs' : q \in runs \/ q = r
  BY <1>1 DEF Save
<1>. QED
  BY <1>2, <1>3, <1>4 DEF RunsInv, OfPrefix

LEMMA RunsKept == RunsInv /\ [BacktestNext]_backtestVars => RunsInv'
<1>. SUFFICES ASSUME RunsInv, [BacktestNext]_backtestVars PROVE RunsInv'
  OBVIOUS
<1>1. CASE UNCHANGED <<series, runs>>
  BY <1>1 DEF RunsInv, OfPrefix
<1>2. ASSUME NEW g \in Configs, RunDataset(g) PROVE RunsInv'
  BY <1>2, SaveKeepsRuns DEF RunDataset
<1>3. ASSUME NEW c, NEW g \in Configs, NEW bonus, Validate(c, g, bonus) PROVE RunsInv'
  BY <1>1, <1>3, SaveKeepsRuns DEF Validate
<1>4. ASSUME NEW g, Generate(g[1], g[2]) PROVE UNCHANGED <<series, runs>>
  BY <1>4 DEF Generate, tables
<1>5. ClearCandidates \/ ClearResults \/ ClearVerdicts \/ ValidateMissing \/ BacktestRestart
      => UNCHANGED <<series, runs>>
  BY DEF ClearCandidates, ClearResults, ClearVerdicts, ValidateMissing, BacktestRestart, tables
<1>6. ASSUME NEW c, NEW s, NEW g, WalkForward(c, s, g) PROVE UNCHANGED <<series, runs>>
  BY <1>6 DEF WalkForward
<1>7. ASSUME NEW r, MonteCarlo(r) PROVE UNCHANGED <<series, runs>>
  BY <1>7 DEF MonteCarlo
<1>8. UNCHANGED backtestVars => UNCHANGED <<series, runs>>
  BY DEF backtestVars, tables
<1>. QED
  BY <1>1, <1>2, <1>3, <1>4, <1>5, <1>6, <1>7, <1>8, GrowKeepsRuns DEF BacktestNext

----------------------------------------------------------------------------
(* Backtest: the drawdown.  The running equity and the running state of    *)
(* the metrics both satisfy their equations, and by induction over the     *)
(* trades the state knows the peak and the deepest fall so far.            *)

EquityAlong(pnls, e) ==
  e = [k \in 0 .. Len(pnls) |-> IF k = 0 THEN 0 ELSE e[k - 1] + pnls[k]]

FallsAlong(pnls, f) ==
  f = [k \in 0 .. Len(pnls) |->
         IF k = 0 THEN [equity |-> 0, peak |-> 0, worst |-> 0] ELSE FallAfter(f[k - 1], pnls[k])]

LEMMA EquityExists ==
  ASSUME NEW pnls \in Seq(Int)
  PROVE  \E e : EquityAlong(pnls, e)
<1>1. PICK n \in Nat : n = Len(pnls)
  OBVIOUS
<1>2. PICK step : step = [p \in Int \X (1 .. n) |-> p[1] + pnls[p[2]]]
  OBVIOUS
<1>3. step \in [Int \X (1 .. n) -> Int]
  BY <1>1, <1>2
<1>4. PICK e \in [0 .. n -> Int] : Running(e, 0, n, step)
  <2>1. 0 \in Int
    OBVIOUS
  <2>. QED
    BY <1>3, <2>1, RunningExists, Zenon
<1>5. e[0] = 0 /\ \A k \in 1 .. n : e[k] = e[k - 1] + pnls[k]
  <2>1. e[0] = 0
    BY <1>4 DEF Running
  <2>2. ASSUME NEW k \in 1 .. n PROVE e[k] = e[k - 1] + pnls[k]
    <3>1. e[k] = step[<<e[k - 1], k>>] /\ e[k - 1] \in Int
      BY <1>4 DEF Running
    <3>. QED
      BY <1>2, <3>1
  <2>. QED
    BY <2>1, <2>2
<1>6. \A k \in 0 .. n : e[k] = IF k = 0 THEN 0 ELSE e[k - 1] + pnls[k]
  BY <1>5
<1>7. e = [k \in 0 .. n |-> IF k = 0 THEN 0 ELSE e[k - 1] + pnls[k]]
  BY <1>4, <1>6
<1>. QED
  BY <1>1, <1>7 DEF EquityAlong

LEMMA FallAfterIs ==
  ASSUME NEW a \in Int, NEW p \in Int, NEW w \in Int, NEW x \in Int
  PROVE  LET s == FallAfter([equity |-> a, peak |-> p, worst |-> w], x)
         IN  /\ s \in [equity : Int, peak : Int, worst : Int] /\ s.equity = a + x
             /\ s.peak = IF p >= a + x THEN p ELSE a + x
             /\ s.worst = IF w <= s.equity - s.peak THEN w ELSE s.equity - s.peak
<1>1. PICK q \in Int : q = (IF p >= a + x THEN p ELSE a + x) /\ q = Max({p, a + x})
  <2>1. a + x \in Int
    OBVIOUS
  <2>. QED
    BY <2>1, MaxOfTwo
<1>2. PICK v \in Int : v = (IF w <= a + x - q THEN w ELSE a + x - q) /\ v = Min({w, a + x - q})
  <2>1. a + x - q \in Int
    OBVIOUS
  <2>. QED
    BY <2>1, MinOfTwo
<1>3. FallAfter([equity |-> a, peak |-> p, worst |-> w], x) = [equity |-> a + x, peak |-> q, worst |-> v]
  <2>1. PICK s : s = [equity |-> a, peak |-> p, worst |-> w]
    OBVIOUS
  <2>2. s.equity = a /\ s.peak = p /\ s.worst = w
    BY <2>1
  <2>3. s.equity + x = a + x /\ {s.peak, s.equity + x} = {p, a + x}
    BY <2>2
  <2>4. Max({s.peak, s.equity + x}) = q
    BY <1>1, <2>3
  <2>5. {s.worst, (s.equity + x) - q} = {w, a + x - q}
    BY <2>2
  <2>6. Min({s.worst, (s.equity + x) - q}) = v
    BY <1>2, <2>5
  <2>7. FallAfter(s, x) = [equity |-> a + x, peak |-> q, worst |-> v]
    BY <2>3, <2>4, <2>6, Zenon DEF FallAfter
  <2>. QED
    BY <2>1, <2>7, Zenon
<1>4. PICK t : t = FallAfter([equity |-> a, peak |-> p, worst |-> w], x)
  OBVIOUS
<1>5. t.equity = a + x /\ t.peak = q /\ t.worst = v /\ t \in [equity : Int, peak : Int, worst : Int]
  <2>1. t = [equity |-> a + x, peak |-> q, worst |-> v]
    BY <1>3, <1>4, Zenon
  <2>2. a + x \in Int /\ q \in Int /\ v \in Int
    OBVIOUS
  <2>. QED
    BY <2>1, <2>2
<1>6. t.peak = (IF p >= a + x THEN p ELSE a + x)
      /\ t.worst = IF w <= t.equity - t.peak THEN w ELSE t.equity - t.peak
  <2>1. q = IF p >= a + x THEN p ELSE a + x
    BY <1>1
  <2>2. v = IF w <= a + x - q THEN w ELSE a + x - q
    BY <1>2
  <2>3. t.equity = a + x /\ t.peak = q /\ t.worst = v
    BY <1>5
  <2>. QED
    BY <2>1, <2>2, <2>3
<1>. QED
  BY <1>4, <1>5, <1>6

LEMMA FallsExist ==
  ASSUME NEW pnls \in Seq(Int)
  PROVE  \E f : FallsAlong(pnls, f) /\ f \in [0 .. Len(pnls) -> [equity : Int, peak : Int, worst : Int]]
<1>. DEFINE X == [equity : Int, peak : Int, worst : Int]
            zero == [equity |-> 0, peak |-> 0, worst |-> 0]
<1>1. PICK n \in Nat : n = Len(pnls)
  OBVIOUS
<1>2. PICK step : step = [p \in X \X (1 .. n) |-> FallAfter(p[1], pnls[p[2]])]
  OBVIOUS
<1>3. \A s \in X, x \in Int : FallAfter(s, x) \in X
  <2>. TAKE s \in X, x \in Int
  <2>1. s = [equity |-> s.equity, peak |-> s.peak, worst |-> s.worst]
        /\ s.equity \in Int /\ s.peak \in Int /\ s.worst \in Int
    OBVIOUS
  <2>. QED
    BY <2>1, FallAfterIs
<1>4. zero \in X
  OBVIOUS
<1>. HIDE DEF X
<1>5. step \in [X \X (1 .. n) -> X]
  BY <1>1, <1>2, <1>3
<1>6. PICK f \in [0 .. n -> X] : Running(f, zero, n, step)
  BY <1>4, <1>5, RunningExists
<1>7. f[0] = zero /\ \A k \in 1 .. n : f[k] = FallAfter(f[k - 1], pnls[k])
  <2>1. f[0] = zero
    BY <1>6 DEF Running
  <2>2. ASSUME NEW k \in 1 .. n PROVE f[k] = FallAfter(f[k - 1], pnls[k])
    <3>1. f[k] = step[<<f[k - 1], k>>] /\ f[k - 1] \in X
      BY <1>6 DEF Running
    <3>. QED
      BY <1>2, <3>1
  <2>. QED
    BY <2>1, <2>2
<1>. HIDE DEF zero
<1>8. f = [k \in 0 .. n |-> IF k = 0 THEN zero ELSE FallAfter(f[k - 1], pnls[k])]
  BY <1>6, <1>7
<1>. QED
  BY <1>1, <1>6, <1>8 DEF FallsAlong, X, zero

(* What the state knows after k trades. *)
FallsKnown(e, s, k) ==
  /\ \A i \in 0 .. k : e[i] \in Int
  /\ s.equity = e[k]
  /\ s.peak \in Int /\ (\E i \in 0 .. k : s.peak = e[i]) /\ \A i \in 0 .. k : e[i] <= s.peak
  /\ s.worst \in Int /\ \E i, j \in 0 .. k : i <= j /\ s.worst = e[j] - e[i]
  /\ \A i, j \in 0 .. k : i <= j => s.worst <= e[j] - e[i]

LEMMA FallsAreKnown ==
  ASSUME NEW pnls \in Seq(Int), NEW e, EquityAlong(pnls, e), NEW f, FallsAlong(pnls, f)
  PROVE  FallsKnown(e, f[Len(pnls)], Len(pnls))
<1>1. PICK n \in Nat : n = Len(pnls)
  OBVIOUS
<1>2. e[0] = 0 /\ \A k \in 1 .. n : e[k] = e[k - 1] + pnls[k]
  <2>1. \A k \in 0 .. n : e[k] = IF k = 0 THEN 0 ELSE e[k - 1] + pnls[k]
    BY <1>1 DEF EquityAlong
  <2>. QED
    BY <2>1
<1>3. /\ f[0] = [equity |-> 0, peak |-> 0, worst |-> 0]
      /\ \A k \in 1 .. n : f[k] = FallAfter(f[k - 1], pnls[k])
  <2>1. \A k \in 0 .. n : f[k] = IF k = 0 THEN [equity |-> 0, peak |-> 0, worst |-> 0]
                                 ELSE FallAfter(f[k - 1], pnls[k])
    BY <1>1 DEF FallsAlong
  <2>. QED
    BY <2>1
<1>. DEFINE X == [equity : Int, peak : Int, worst : Int]
            T == {k \in Nat : k <= n => f[k] \in X /\ FallsKnown(e, f[k], k)}
<1>4. 0 \in T
  <2>1. FallsKnown(e, f[0], 0)
    BY <1>2, <1>3 DEF FallsKnown
  <2>2. f[0] \in X
    BY <1>3
  <2>. QED
    BY <2>1, <2>2
<1>5. ASSUME NEW k \in Nat, k \in T PROVE k + 1 \in T
  <2>. SUFFICES ASSUME k + 1 <= n PROVE f[k + 1] \in X /\ FallsKnown(e, f[k + 1], k + 1)
    OBVIOUS
  <2>1. FallsKnown(e, f[k], k)
    BY <1>5
  <2>2. PICK s : s = f[k]
    OBVIOUS
  <2>3. s \in [equity : Int, peak : Int, worst : Int]
    BY <1>5, <2>2
  <2>4. PICK x \in Int : x = pnls[k + 1]
    BY <1>1
  <2>5. e[k + 1] = e[k] + x /\ f[k + 1] = FallAfter(s, x)
    BY <1>2, <1>3, <2>2, <2>4
  <2>6. PICK a \in Int : a = s.equity /\ a = e[k]
    BY <2>1, <2>2, <2>3 DEF FallsKnown
  <2>7. PICK p \in Int : p = s.peak
    BY <2>3
  <2>8. PICK w \in Int : w = s.worst
    BY <2>3
  <2>9. s = [equity |-> a, peak |-> p, worst |-> w]
    BY <2>3, <2>6, <2>7, <2>8
  <2>10. PICK t : t = f[k + 1]
    OBVIOUS
  <2>11. /\ t.equity = a + x /\ t.peak = (IF p >= a + x THEN p ELSE a + x)
         /\ t.worst = (IF w <= t.equity - t.peak THEN w ELSE t.equity - t.peak)
         /\ t \in X
    BY <2>5, <2>9, <2>10, FallAfterIs
  <2>12. \A i \in 0 .. k + 1 : i = k + 1 \/ i \in 0 .. k
    OBVIOUS
  <2>13. /\ \A i \in 0 .. k : e[i] \in Int /\ e[i] <= p
         /\ \E i \in 0 .. k : p = e[i]
         /\ \E i, j \in 0 .. k : i <= j /\ w = e[j] - e[i]
         /\ \A i, j \in 0 .. k : i <= j => w <= e[j] - e[i]
    BY <2>1, <2>2, <2>7, <2>8 DEF FallsKnown
  <2>14. e[k + 1] = a + x /\ a + x \in Int
    BY <2>5, <2>6
  <2>15. \A i \in 0 .. k + 1 : e[i] \in Int
    BY <2>12, <2>13, <2>14
  <2>16. t.peak \in Int /\ (\E i \in 0 .. k + 1 : t.peak = e[i]) /\ \A i \in 0 .. k + 1 : e[i] <= t.peak
    <3>1. CASE p >= a + x
      <4>1. t.peak = p
        BY <3>1, <2>11
      <4>2. PICK i \in 0 .. k : p = e[i]
        BY <2>13
      <4>3. i \in 0 .. k + 1 /\ t.peak = e[i]
        BY <4>1, <4>2
      <4>4. \A j \in 0 .. k + 1 : e[j] <= p
        BY <3>1, <2>12, <2>13, <2>14
      <4>. QED
        BY <4>1, <4>3, <4>4
    <3>2. CASE ~(p >= a + x)
      <4>1. t.peak = a + x /\ k + 1 \in 0 .. k + 1 /\ t.peak = e[k + 1]
        BY <3>2, <2>11, <2>14
      <4>2. p <= a + x /\ a + x \in Int
        BY <3>2
      <4>3. ASSUME NEW i \in 0 .. k PROVE e[i] <= a + x
        <5>1. e[i] \in Int /\ e[i] <= p
          BY <2>13
        <5>. QED
          BY <4>2, <5>1
      <4>. QED
        BY <4>1, <4>3, <2>12, <2>14
    <3>. QED
      BY <3>1, <3>2
  <2>17. PICK q \in Int : q = t.peak
    BY <2>16
  <2>18. t.worst \in Int /\ \E i, j \in 0 .. k + 1 : i <= j /\ t.worst = e[j] - e[i]
    <3>1. CASE w <= a + x - q
      <4>1. t.worst = w
        BY <3>1, <2>11, <2>17
      <4>2. PICK i \in 0 .. k, j \in 0 .. k : i <= j /\ w = e[j] - e[i]
        BY <2>13
      <4>3. i \in 0 .. k + 1 /\ j \in 0 .. k + 1
        OBVIOUS
      <4>. QED
        BY <4>1, <4>2, <4>3
    <3>2. CASE ~(w <= a + x - q)
      <4>1. t.worst = a + x - q
        BY <3>2, <2>11, <2>17
      <4>2. PICK i \in 0 .. k + 1 : q = e[i]
        BY <2>16, <2>17
      <4>3. i <= k + 1 /\ k + 1 \in 0 .. k + 1 /\ t.worst = e[k + 1] - e[i]
        BY <4>1, <4>2, <2>14
      <4>. QED
        BY <4>1, <4>3
    <3>. QED
      BY <3>1, <3>2
  <2>19. ASSUME NEW i \in 0 .. k + 1, NEW j \in 0 .. k + 1, i <= j
         PROVE  t.worst <= e[j] - e[i]
    <3>1. t.worst \in Int /\ t.worst <= w /\ t.worst <= a + x - q
      BY <2>11, <2>17
    <3>2. CASE j = k + 1
      <4>1. e[i] \in Int /\ e[i] <= q /\ e[j] = a + x
        BY <3>2, <2>14, <2>15, <2>16, <2>17
      <4>. QED
        BY <3>1, <4>1
    <3>3. CASE j # k + 1
      <4>1. i \in 0 .. k /\ j \in 0 .. k
        BY <2>19, <3>3
      <4>2. w <= e[j] - e[i] /\ e[i] \in Int /\ e[j] \in Int
        BY <2>13, <2>19, <4>1
      <4>. QED
        BY <3>1, <4>2
    <3>. QED
      BY <3>2, <3>3
  <2>20. t.equity = e[k + 1]
    BY <2>11, <2>14
  <2>. QED
    BY <2>10, <2>11, <2>15, <2>16, <2>18, <2>19, <2>20 DEF FallsKnown
<1>. HIDE DEF T
<1>6. n \in T
  BY <1>4, <1>5, AllNumbers
<1>. QED
  BY <1>1, <1>6 DEF T

(* The drawdown of a list of results is the worst fall of their equity. *)
LEMMA WorstFallIs ==
  ASSUME NEW pnls \in Seq(Int)
  PROVE  LET equity[k \in 0 .. Len(pnls)] == IF k = 0 THEN 0 ELSE equity[k - 1] + pnls[k]
             falls == {equity[p[2]] - equity[p[1]] : p \in {q \in (DOMAIN equity) \X (DOMAIN equity) : q[1] <= q[2]}}
         IN  WorstFall(pnls) = Min(falls)
<1>. DEFINE equity == CHOOSE e : EquityAlong(pnls, e)
            along  == CHOOSE f : FallsAlong(pnls, f)
            falls  == {equity[p[2]] - equity[p[1]] :
                         p \in {q \in (DOMAIN equity) \X (DOMAIN equity) : q[1] <= q[2]}}
<1>1. EquityAlong(pnls, equity)
  BY EquityExists
<1>2. FallsAlong(pnls, along)
  BY FallsExist
<1>3. WorstFall(pnls) = along[Len(pnls)].worst
  BY DEF WorstFall, FallsAlong
<1>4. PICK n \in Nat : n = Len(pnls)
  OBVIOUS
<1>5. PICK e : e = equity
  OBVIOUS
<1>6. PICK f : f = along
  OBVIOUS
<1>7. FallsKnown(e, f[n], n)
  BY <1>1, <1>2, <1>4, <1>5, <1>6, FallsAreKnown
<1>8. DOMAIN e = 0 .. n
  BY <1>1, <1>4, <1>5 DEF EquityAlong
<1>9. PICK w \in Int : w = f[n].worst
  BY <1>7 DEF FallsKnown
<1>10. PICK low : low = {e[p[2]] - e[p[1]] : p \in {q \in (0 .. n) \X (0 .. n) : q[1] <= q[2]}}
  OBVIOUS
<1>11. \A i \in 0 .. n : e[i] \in Int
  BY <1>7 DEF FallsKnown
<1>12. low \in SUBSET Int
  BY <1>10, <1>11
<1>13. w \in low
  <2>1. PICK i \in 0 .. n, j \in 0 .. n : i <= j /\ w = e[j] - e[i]
    BY <1>7, <1>9 DEF FallsKnown
  <2>2. <<i, j>> \in {q \in (0 .. n) \X (0 .. n) : q[1] <= q[2]}
    BY <2>1
  <2>3. PICK p : p = <<i, j>>
    OBVIOUS
  <2>4. p \in {q \in (0 .. n) \X (0 .. n) : q[1] <= q[2]} /\ w = e[p[2]] - e[p[1]]
    BY <2>1, <2>2, <2>3
  <2>. QED
    BY <1>10, <2>4
<1>14. \A x \in low : w <= x
  BY <1>7, <1>9, <1>10 DEF FallsKnown
<1>15. w = Min(low)
  BY <1>12, <1>13, <1>14, MinIs
<1>16. low = falls
  BY <1>5, <1>8, <1>10
<1>17. WorstFall(pnls) = Min(falls)
  BY <1>3, <1>4, <1>6, <1>9, <1>15, <1>16
<1>. QED
  BY <1>17 DEF EquityAlong

----------------------------------------------------------------------------
(* Backtest: the walk-forward windows are lists of candles, so that their  *)
(* results are numbers.                                                    *)

Priced == [o : Nat, h : Nat, l : Nat, c : Nat]

LEMMA PnlIsNumber ==
  ASSUME NEW cs \in Seq(Priced), Len(cs) >= 2, NEW d, NEW g \in Configs
  PROVE  Simulate(cs, d, g).pnl \in Int
<1>1. g.slippage \in Int /\ g.commission \in Int /\ g.stop \in Int /\ g.target \in Int
  <2>1. g.slippage \in Nat /\ g.commission \in Nat /\ g.stop \in 1 .. 99 /\ g.target \in 1 .. 99
    BY ConfigAssumption
  <2>2. (\A n \in Nat : n \in Int) /\ (\A n \in 1 .. 99 : n \in Int)
    OBVIOUS
  <2>. QED
    BY <2>1, <2>2, Zenon
<1>2. Sign(d) \in Int
  BY DEF Sign
<1>3. Million \in Int
  BY SMT DEF Million
<1>4. PICK entry \in Int : entry = Entry(cs, d, g)
  <2>1. cs[2] \in Priced
    OBVIOUS
  <2>2. cs[2].o \in Int /\ cs[2].c \in Int
    <3>1. \A x \in [o : Nat, h : Nat, l : Nat, c : Nat] : x.o \in Int /\ x.c \in Int
      OBVIOUS
    <3>. QED
      BY <2>1, <3>1, Zenon DEF Priced
  <2>3. EntryPrice(cs[2]) \in Int
    BY <2>2 DEF EntryPrice
  <2>4. 100 + Sign(d) * g.slippage \in Int
    BY <1>1, <1>2
  <2>5. Entry(cs, d, g) \in Int
    BY <2>3, <2>4, SMT DEF Entry
  <2>. QED
    BY <2>5
<1>5. entry \div 100 \in Int
  OBVIOUS
<1>6. StopAt(cs, d, g) \in Int
  BY <1>1, <1>2, <1>4, <1>5 DEF StopAt
<1>7. TargetAt(cs, d, g) \in Int
  BY <1>1, <1>2, <1>4, <1>5 DEF TargetAt
<1>8. ASSUME NEW exit, NEW reached \in BOOLEAN, ~reached => exit \in 1 .. Len(cs)
      PROVE  ClosedOn(cs, d, g, exit, reached).pnl \in Int
  <2>. DEFINE kind == IF ~reached THEN "max_holding_period"
                      ELSE IF StopHit(cs[exit], d, StopAt(cs, d, g)) THEN "stop_loss" ELSE "take_profit"
              raw  == CASE kind = "stop_loss" -> StopAt(cs, d, g)
                        [] kind = "take_profit" -> TargetAt(cs, d, g)
                        [] OTHER -> cs[exit].c * Million
  <2>1. raw \in Int
    <3>1. CASE reached
      BY <1>6, <1>7, <3>1
    <3>2. CASE ~reached
      <4>1. cs[exit] \in Priced
        BY <1>8, <3>2
      <4>2. cs[exit].c \in Int
        BY <4>1 DEF Priced
      <4>3. raw = cs[exit].c * Million
        BY <3>2
      <4>. QED
        BY <1>3, <4>2, <4>3
    <3>. QED
      BY <3>1, <3>2
  <2>2. ClosedOn(cs, d, g, exit, reached).pnl
          = Sign(d) * ((raw \div 100) * (100 - Sign(d) * g.slippage) - Entry(cs, d, g)) - g.commission * Million
    BY DEF ClosedOn
  <2>. HIDE DEF raw
  <2>3. raw \div 100 \in Int
    BY <2>1
  <2>4. 100 - Sign(d) * g.slippage \in Int /\ g.commission * Million \in Int
    <3>1. Sign(d) * g.slippage \in Int
      BY <1>1, <1>2
    <3>2. g.commission * Million \in Int
      BY <1>1, <1>3
    <3>. QED
      BY <3>1, <3>2
  <2>5. (raw \div 100) * (100 - Sign(d) * g.slippage) - Entry(cs, d, g) \in Int
    BY <1>4, <2>3, <2>4
  <2>. QED
    BY <1>2, <2>2, <2>4, <2>5
<1>9. LastHeld(cs, g) \in 1 .. Len(cs)
  BY LastHeldIs, ConfigAssumption
<1>. QED
  BY <1>8, <1>9 DEF Simulate

(* As many numbers as an initial segment has are below its end. *)
LEMMA SegmentCounts ==
  ASSUME NEW n \in Nat, NEW S \in SUBSET (0 .. n), \A j \in S : \A i \in 0 .. j : i \in S
  PROVE  Cardinality(S) \in Nat /\ \A k \in 1 .. Cardinality(S) : k - 1 \in S
<1>1. PICK m \in Nat : m \notin S /\ \A k \in Nat : k \notin S => m <= k
  <2>1. n + 1 \in Nat \ S
    OBVIOUS
  <2>2. Nat \ S \in SUBSET Nat /\ Nat \ S # {}
    BY <2>1
  <2>. QED
    BY <2>2, LeastOf
<1>2. S = 0 .. m - 1
  <2>1. \A i \in S : i \in 0 .. m - 1
    BY <1>1
  <2>2. \A i \in 0 .. m - 1 : i \in S
    BY <1>1
  <2>. QED
    BY <2>1, <2>2
<1>3. Cardinality(0 .. m - 1) = m
  BY FS_Interval
<1>. QED
  BY <1>2, <1>3

LEMMA WindowsAreCandles ==
  ASSUME NEW s \in Splits
  PROVE  \E m \in Nat : /\ DOMAIN Tests(s) = 1 .. m
                        /\ \A k \in 1 .. m : Tests(s)[k] \in Seq(Priced) /\ Len(Tests(s)[k]) >= 2
<1>. DEFINE starts == {k \in 0 .. Len(DemoSeries) : k * s.step + s.train + s.test <= Len(DemoSeries)}
<1>1. PICK n \in Nat : n = Len(DemoSeries) /\ DemoSeries \in Seq(Priced)
  BY CandleAssumption DEF Priced
<1>2. PICK step \in Nat, train \in Nat, test \in Nat :
        step = s.step /\ train = s.train /\ test = s.test /\ test >= 2
  BY SplitAssumption
<1>3. starts \in SUBSET (0 .. n)
  BY <1>1
<1>4. ASSUME NEW j \in starts, NEW i \in 0 .. j PROVE i \in starts
  <2>1. PICK e \in Nat : j = i + e
    BY <1>3, <1>4
  <2>2. j * step = i * step + e * step /\ e * step \in Nat /\ i * step \in Nat
    BY <1>3, <2>1
  <2>3. j * step + train + test <= n /\ j \in 0 .. n
    BY <1>1, <1>2, <1>4
  <2>4. i * step + train + test <= n /\ i \in 0 .. n
    BY <2>1, <2>2, <2>3
  <2>. QED
    BY <1>1, <1>2, <2>4
<1>5. PICK m \in Nat : m = Cardinality(starts) /\ \A k \in 1 .. m : k - 1 \in starts
  <2>. HIDE DEF starts
  <2>. QED
    BY <1>3, <1>4, SegmentCounts
<1>6. DOMAIN Tests(s) = 1 .. m
  BY <1>5 DEF Tests
<1>7. ASSUME NEW k \in 1 .. m
      PROVE  Tests(s)[k] \in Seq(Priced) /\ Len(Tests(s)[k]) >= 2
  <2>1. PICK from \in Nat : from = (k - 1) * step + train + 1
    <3>1. k - 1 \in Nat
      OBVIOUS
    <3>. QED
      BY <3>1
  <2>2. from + test - 1 <= n
    <3>1. (k - 1) * s.step + s.train + s.test <= n
      BY <1>1, <1>5
    <3>. QED
      BY <1>2, <2>1, <3>1
  <2>3. Tests(s)[k] = SubSeq(DemoSeries, (k - 1) * s.step + s.train + 1, (k - 1) * s.step + s.train + s.test)
    BY <1>5 DEF Tests
  <2>4. Tests(s)[k] = SubSeq(DemoSeries, from, from + test - 1)
    <3>1. (k - 1) * step \in Int
      OBVIOUS
    <3>2. (k - 1) * step + train + test = from + test - 1
      BY <2>1, <3>1
    <3>. QED
      BY <1>2, <2>1, <2>3, <3>2
  <2>5. from >= 1
    BY <2>1
  <2>6. from + test - 1 \in Nat /\ from + test - 1 >= from
    BY <1>2, <2>5
  <2>7. PICK w : w = SubSeq(DemoSeries, from, from + test - 1)
    OBVIOUS
  <2>8. w \in Seq(Priced) /\ Len(w) = test
    BY <1>1, <2>2, <2>5, <2>6, <2>7
  <2>. QED
    BY <1>2, <2>4, <2>7, <2>8
<1>. QED
  BY <1>6, <1>7

WalksInv ==
  \A w \in walks : w.pnls \in Seq(Int) /\ w.metrics.drawdown = WorstFall(w.pnls)

LEMMA WalkedKeepsWalks ==
  ASSUME WalksInv, NEW c, NEW s \in Splits, NEW g \in Configs, WalkForward(c, s, g)
  PROVE  WalksInv'
<1>1. PICK pnls : pnls = [k \in DOMAIN Tests(s) |-> Simulate(Tests(s)[k], c.direction, g).pnl]
  OBVIOUS
<1>2. PICK m \in Nat : /\ DOMAIN Tests(s) = 1 .. m
                       /\ \A k \in 1 .. m : Tests(s)[k] \in Seq(Priced) /\ Len(Tests(s)[k]) >= 2
  BY WindowsAreCandles
<1>3. \A k \in 1 .. m : pnls[k] \in Int
  BY <1>1, <1>2, PnlIsNumber
<1>4. pnls = [k \in 1 .. m |-> pnls[k]]
  BY <1>1, <1>2
<1>5. pnls \in Seq(Int)
  BY <1>3, <1>4
<1>6. walks' = walks \cup {[strategy |-> c.id, pnls |-> pnls, metrics |-> Metrics(pnls)]}
  BY <1>1 DEF WalkForward
<1>7. Metrics(pnls).drawdown = WorstFall(pnls)
  BY DEF Metrics
<1>8. ASSUME NEW w \in walks'
      PROVE  w.pnls \in Seq(Int) /\ w.metrics.drawdown = WorstFall(w.pnls)
  <2>1. CASE w \in walks
    BY <2>1 DEF WalksInv
  <2>2. CASE w = [strategy |-> c.id, pnls |-> pnls, metrics |-> Metrics(pnls)]
    BY <1>5, <1>7, <2>2
  <2>. QED
    BY <1>6, <2>1, <2>2
<1>. QED
  BY <1>8 DEF WalksInv

LEMMA WalksKept == WalksInv /\ [BacktestNext]_backtestVars => WalksInv'
<1>. SUFFICES ASSUME WalksInv, [BacktestNext]_backtestVars PROVE WalksInv'
  OBVIOUS
<1>1. CASE UNCHANGED walks
  BY <1>1 DEF WalksInv
<1>2. ASSUME NEW g, RunDataset(g) PROVE UNCHANGED walks
  BY <1>2 DEF RunDataset
<1>3. ASSUME NEW c, NEW g, NEW bonus, Validate(c, g, bonus) PROVE UNCHANGED walks
  BY <1>3 DEF Validate
<1>4. ASSUME NEW g, Generate(g[1], g[2]) PROVE UNCHANGED walks
  BY <1>4 DEF Generate, tables
<1>5. ClearCandidates \/ ClearResults \/ ClearVerdicts \/ ValidateMissing \/ BacktestRestart
      => UNCHANGED walks
  BY DEF ClearCandidates, ClearResults, ClearVerdicts, ValidateMissing, BacktestRestart, tables
<1>6. ASSUME NEW candle, SeriesGrows(candle) PROVE UNCHANGED walks
  BY <1>6 DEF SeriesGrows, tables
<1>7. ASSUME NEW r, MonteCarlo(r) PROVE UNCHANGED walks
  BY <1>7 DEF MonteCarlo
<1>8. UNCHANGED backtestVars => UNCHANGED walks
  BY DEF backtestVars, tables
<1>. QED
  BY <1>1, <1>2, <1>3, <1>4, <1>5, <1>6, <1>7, <1>8, WalkedKeepsWalks DEF BacktestNext

(* What the engine says of a run, its trades and its drawdown, is what the *)
(* run was: no decision looks ahead (BacktestEngine.simulateTrades), and   *)
(* the drawdown is the worst fall of the equity (calculateMetrics), for    *)
(* every series, split and configuration.                                  *)
THEOREM BacktestsAreHonest == BacktestSpec => []BacktestHonest
<1>1. BacktestInit => RunsInv /\ WalksInv
  BY DEF BacktestInit, RunsInv, WalksInv
<1>2. WalksInv => DrawdownIsWorstFall
  BY WorstFallIs DEF WalksInv, DrawdownIsWorstFall
<1>3. RunsInv /\ WalksInv => BacktestHonest
  BY <1>2, RunsDecided DEF BacktestHonest
<1>. QED
  BY <1>1, <1>3, RunsKept, WalksKept, PTL DEF BacktestSpec

----------------------------------------------------------------------------
(* Backtest: candidates and results.  Ids grow, and a run covers candles   *)
(* that there are.                                                         *)

Directions == {"long", "short", "neutral"}
Found == [status : {"validated", "needs_confirmation", "research_only"}, direction : Directions, confidence : 0 .. 99]
Numbered(n) == [id : 1 .. n, status : {"validated", "needs_confirmation", "research_only"},
                direction : Directions, confidence : 0 .. 99]

(* A row of a run: of a strategy that was named, and within its candles. *)
RunTyped(r) ==
  /\ r.strategy \in 0 .. named /\ Len(r.trades) <= 1 /\ r.candles \in Nat
  /\ \A i \in DOMAIN r.trades : r.trades[i].exit \in 2 .. r.candles
  /\ r.source = "dataset" => r.candles <= Len(series)

Judged(v) == v.status \in {"validated", "watchlist", "weak", "rejected"}

LedgerInv ==
  /\ series \in Seq(Candles) /\ Len(series) <= MaxCandles
  /\ named \in 0 .. MaxCandidates /\ candidates \in Seq(Numbered(named))
  /\ Logged(results) /\ Logged(verdicts)
  /\ \A r \in runs : RunTyped(r)
  /\ \A r \in Range(results) : RunTyped(r)
  /\ \A v \in Range(verdicts) : Judged(v)

LEMMA QuotientIsNatural ==
  ASSUME NEW a \in Nat, NEW b \in Nat \ {0}
  PROVE  a \div b \in Nat
OBVIOUS

LEMMA MeanIsNatural ==
  ASSUME NEW S, IsFiniteSet(S), \A g \in S : g.confidence \in 0 .. 100
  PROVE  MeanConfidence(S) \in Nat
<1>1. CASE S = {}
  BY <1>1 DEF MeanConfidence
<1>2. CASE S # {}
  <2>1. PICK f : f = [g \in S |-> g.confidence]
    OBVIOUS
  <2>2. \A g \in S : f[g] \in Nat
    BY <2>1
  <2>3. PICK n \in Nat : n = SumFunctionOnSet(f, S)
    BY <2>2, SumNatural
  <2>4. PICK c \in Nat \ {0} : c = Cardinality(S)
    BY <1>2, FS_CardinalityType, FS_EmptySet
  <2>5. SumFunction(f) = n
    BY <2>1, <2>3 DEF SumFunction
  <2>6. MeanConfidence(S) = n \div c
    BY <1>2, <2>1, <2>4, <2>5 DEF MeanConfidence
  <2>. QED
    BY <2>6, QuotientIsNatural
<1>. QED
  BY <1>1, <1>2

LEMMA CandidatesTyped ==
  ASSUME NEW alpha, NEW patterns, IsFiniteSet(alpha), IsFiniteSet(patterns),
         \A g \in alpha : g.confidence \in 0 .. 100, \A g \in patterns : g.confidence \in 0 .. 100
  PROVE  Candidates(alpha, patterns) \in Seq(Found)
<1>1. ASSUME NEW S, IsFiniteSet(S), \A g \in S : g.confidence \in 0 .. 100, NEW d
      PROVE  MeanConfidence(Towards(S, d)) \in Nat /\ MeanConfidence(Strong(S, d)) \in Nat
  <2>1. Towards(S, d) \in SUBSET S /\ Strong(S, d) \in SUBSET S
    BY DEF Towards, Strong
  <2>2. IsFiniteSet(Towards(S, d)) /\ IsFiniteSet(Strong(S, d))
    BY <1>1, <2>1, FS_Subset
  <2>. QED
    BY <1>1, <2>1, <2>2, MeanIsNatural
<1>2. \A d : Side(d) \in Directions
  BY DEF Side, Directions
<1>3. ASSUME NEW d
      PROVE  Alignment(alpha, patterns, d) \in Found
  <2>1. PICK a \in Nat : a = MeanConfidence(Towards(alpha, d))
    BY <1>1
  <2>2. PICK b \in Nat : b = MeanConfidence(Towards(patterns, d))
    BY <1>1
  <2>3. PICK mean \in Nat : mean = (a + b) \div 2
    OBVIOUS
  <2>4. PICK least : least = Max({0, mean - 20})
    OBVIOUS
  <2>5. least \in Nat
    <3>1. 0 \in Int /\ mean - 20 \in Int
      OBVIOUS
    <3>2. least = IF 0 >= mean - 20 THEN 0 ELSE mean - 20
      BY <2>4, <3>1, MaxOfTwo
    <3>. QED
      BY <3>2
  <2>6. PICK c \in Nat : c = IF Conflicting(alpha, patterns) THEN least ELSE mean
    BY <2>5
  <2>7. Min({99, c}) \in 0 .. 99
    <3>1. Min({99, c}) = IF 99 <= c THEN 99 ELSE c
      BY MinOfTwo
    <3>. QED
      BY <3>1
  <2>8. Alignment(alpha, patterns, d) = [status |-> "validated", direction |-> Side(d), confidence |-> Min({99, c})]
    BY <2>1, <2>2, <2>3, <2>4, <2>6 DEF Alignment
  <2>. QED
    BY <1>2, <2>7, <2>8 DEF Found
<1>4. ASSUME NEW d
      PROVE  Provisional(alpha, d) \in Found
  <2>1. PICK a \in Nat : a = MeanConfidence(Strong(alpha, d))
    BY <1>1
  <2>2. PICK part \in Nat : part = (a * 7) \div 10
    OBVIOUS
  <2>3. PICK capped \in 0 .. 85 : capped = Min({85, part})
    <3>1. Min({85, part}) = IF 85 <= part THEN 85 ELSE part
      BY MinOfTwo
    <3>. QED
      BY <3>1
  <2>4. Max({30, capped}) \in 0 .. 99
    <3>1. Max({30, capped}) = IF 30 >= capped THEN 30 ELSE capped
      BY MaxOfTwo
    <3>. QED
      BY <3>1
  <2>5. Provisional(alpha, d) = [status |-> "needs_confirmation", direction |-> Side(d), confidence |-> Max({30, capped})]
    BY <2>1, <2>2, <2>3 DEF Provisional
  <2>. QED
    BY <1>2, <2>4, <2>5 DEF Found
<1>5. Research(alpha) \in Found
  BY DEF Research, Found, Directions
<1>6. ASSUME NEW condition, NEW c \in Found
      PROVE  When(condition, <<c>>) \in Seq(Found)
  BY DEF When
<1>7. PICK found \in Seq(Found) :
        found = When(Aligned(alpha, patterns, "bullish"), <<Alignment(alpha, patterns, "bullish")>>)
                \o When(Aligned(alpha, patterns, "bearish"), <<Alignment(alpha, patterns, "bearish")>>)
                \o When(Towards(patterns, "bullish") = {} /\ Strong(alpha, "bullish") # {}, <<Provisional(alpha, "bullish")>>)
                \o When(Towards(patterns, "bearish") = {} /\ Strong(alpha, "bearish") # {}, <<Provisional(alpha, "bearish")>>)
  <2>1. When(Aligned(alpha, patterns, "bullish"), <<Alignment(alpha, patterns, "bullish")>>) \in Seq(Found)
    BY <1>3, <1>6
  <2>2. When(Aligned(alpha, patterns, "bearish"), <<Alignment(alpha, patterns, "bearish")>>) \in Seq(Found)
    BY <1>3, <1>6
  <2>3. When(Towards(patterns, "bullish") = {} /\ Strong(alpha, "bullish") # {}, <<Provisional(alpha, "bullish")>>) \in Seq(Found)
    BY <1>4, <1>6
  <2>4. When(Towards(patterns, "bearish") = {} /\ Strong(alpha, "bearish") # {}, <<Provisional(alpha, "bearish")>>) \in Seq(Found)
    BY <1>4, <1>6
  <2>5. \A s, t \in Seq(Found) : s \o t \in Seq(Found)
    OBVIOUS
  <2>. QED
    BY <2>1, <2>2, <2>3, <2>4, <2>5
<1>8. Candidates(alpha, patterns) = IF found = <<>> THEN When(alpha # {}, <<Research(alpha)>>) ELSE found
  BY <1>7, Zenon DEF Candidates
<1>. QED
  BY <1>5, <1>6, <1>8

(* A trade ends on one of the candles of its run. *)
LEMMA ExitIsThere ==
  ASSUME NEW X, NEW cs \in Seq(X), Len(cs) >= 2, NEW d, NEW g \in Configs
  PROVE  Simulate(cs, d, g).exit \in 2 .. Len(cs)
<1>1. PICK n \in Nat : n = Len(cs) /\ n >= 2
  OBVIOUS
<1>2. PICK h \in Nat \ {0} : h = g.holding
  BY ConfigAssumption
<1>3. PICK last \in 2 .. n : last = LastHeld(cs, g)
  <2>1. LastHeld(cs, g) = IF n <= 2 + h THEN n ELSE 2 + h
    BY <1>1, <1>2, LastHeldIs
  <2>. QED
    BY <1>1, <2>1
<1>4. PICK hits : hits = Hits(cs, d, g)
  OBVIOUS
<1>5. \A i \in hits : i \in 2 .. n
  BY <1>3, <1>4 DEF Hits
<1>6. \A exit, reached : ClosedOn(cs, d, g, exit, reached).exit = exit
  BY DEF ClosedOn
<1>7. Simulate(cs, d, g).exit = IF hits # {} THEN Min(hits) ELSE last
  BY <1>3, <1>4, <1>6 DEF Simulate
<1>8. hits # {} => Min(hits) \in hits
  <2>. HAVE hits # {}
  <2>1. hits \in SUBSET Nat
    BY <1>5
  <2>2. PICK m \in hits : \A k \in hits : m <= k
    BY <2>1, LeastOf
  <2>3. hits \in SUBSET Int
    BY <2>1
  <2>4. Min(hits) = m
    BY <2>2, <2>3, MinIs
  <2>. QED
    BY <2>4
<1>. QED
  BY <1>1, <1>3, <1>5, <1>7, <1>8

LEMMA ResultTyped ==
  ASSUME NEW X, NEW cs \in Seq(X), NEW c, c.id \in 0 .. named, NEW g \in Configs,
         NEW source \in {"dataset", "demo"}, source = "dataset" => cs = series
  PROVE  RunTyped(Result(c, g, cs, source)) /\ Result(c, g, cs, source).strategy = c.id
<1>1. PICK r : r = Result(c, g, cs, source)
  OBVIOUS
<1>2. PICK trades : trades = When(Len(cs) >= 2, <<Simulate(cs, c.direction, g)>>)
  OBVIOUS
<1>3. r.strategy = c.id /\ r.source = source /\ r.candles = Len(cs) /\ r.trades = trades
  BY <1>1, <1>2 DEF Result
<1>4. CASE Len(cs) >= 2
  <2>1. PICK t : t = Simulate(cs, c.direction, g)
    OBVIOUS
  <2>2. trades = <<t>> /\ t.exit \in 2 .. Len(cs)
    BY <1>2, <1>4, <2>1, ExitIsThere DEF When
  <2>3. Len(trades) = 1 /\ DOMAIN trades = {1} /\ trades[1] = t
    BY <2>2
  <2>. QED
    BY <1>1, <1>3, <2>2, <2>3 DEF RunTyped
<1>5. CASE ~(Len(cs) >= 2)
  <2>1. trades = <<>>
    BY <1>2, <1>5 DEF When
  <2>2. Len(trades) = 0 /\ DOMAIN trades = {}
    BY <2>1
  <2>. QED
    BY <1>1, <1>3, <2>2 DEF RunTyped
<1>. QED
  BY <1>4, <1>5

(* A verdict is one of four. *)
LEMMA VerdictIs ==
  ASSUME NEW score \in Int, NEW acceptable
  PROVE  Verdict(score, acceptable) \in {"validated", "watchlist", "weak", "rejected"}
<1>1. score < 40 \/ (score >= 40 /\ score < 60) \/ score >= 60
  OBVIOUS
<1>2. CASE score < 40
  <2>1. ~(score >= 75) /\ ~(score >= 60) /\ ~(score >= 40)
    BY <1>2
  <2>. QED
    BY <1>2, <2>1, Zenon DEF Verdict
<1>3. CASE score >= 40 /\ score < 60
  <2>1. ~(score >= 75) /\ ~(score >= 60) /\ ~(score < 40)
    BY <1>3
  <2>. QED
    BY <1>3, <2>1, Zenon DEF Verdict
<1>4. CASE score >= 60
  <2>1. ~(score < 60) /\ ~(score < 40)
    BY <1>4
  <2>. QED
    BY <1>4, <2>1, Zenon DEF Verdict
<1>. QED
  BY <1>1, <1>2, <1>3, <1>4

LEMMA ScoreIsNumber ==
  ASSUME NEW c, c.confidence \in Int, NEW m, NEW bonus \in Int
  PROVE  Score(c, m, bonus) \in Int
<1>1. \A condition : \A n \in Int : Points(condition, n) \in Int
  BY DEF Points
<1>2. PICK sum \in Int :
        sum = c.confidence + bonus
              + Points(m.total > 0, 12) - Points(m.total < 0, 16)
              + Points(m.factor = "high", 9) + Points(m.trades > 0 /\ 2 * m.wins >= m.trades, 8)
              - Points(m.drawdown <= -2 * Million, 12) - Points(c.confidence < 35, 12)
              - Points(c.status \in {"research_only", "needs_confirmation"}, 18)
  <2>1. PICK a \in Int : a = Points(m.total > 0, 12)
    BY <1>1
  <2>2. PICK b \in Int : b = Points(m.total < 0, 16)
    BY <1>1
  <2>3. PICK d \in Int : d = Points(m.factor = "high", 9)
    BY <1>1
  <2>4. PICK e \in Int : e = Points(m.trades > 0 /\ 2 * m.wins >= m.trades, 8)
    BY <1>1
  <2>5. PICK f \in Int : f = Points(m.drawdown <= -2 * Million, 12)
    BY <1>1
  <2>6. PICK g \in Int : g = Points(c.confidence < 35, 12)
    BY <1>1
  <2>7. PICK h \in Int : h = Points(c.status \in {"research_only", "needs_confirmation"}, 18)
    BY <1>1
  <2>8. PICK k \in Int : k = c.confidence
    OBVIOUS
  <2>9. k + bonus + a - b + d + e - f - g - h \in Int
    OBVIOUS
  <2>. QED
    BY <2>1, <2>2, <2>3, <2>4, <2>5, <2>6, <2>7, <2>8, <2>9, Zenon
<1>3. PICK capped \in Int : capped = Min({100, sum})
  <2>1. Min({100, sum}) = IF 100 <= sum THEN 100 ELSE sum
    BY MinOfTwo
  <2>. QED
    BY <2>1
<1>4. Max({0, capped}) = IF 0 >= capped THEN 0 ELSE capped
  BY MaxOfTwo
<1>5. Score(c, m, bonus) = Max({0, capped})
  BY <1>2, <1>3, Zenon DEF Score
<1>. QED
  BY <1>4, <1>5

(* What was within its candles stays so as ids and candles grow. *)
LEMMA TypedStays ==
  ASSUME named \in Nat, named' \in Nat, named <= named', Len(series) \in Nat,
         Len(series') \in Nat, Len(series) <= Len(series')
  PROVE  \A r : RunTyped(r) => RunTyped(r)'
<1>. SUFFICES ASSUME NEW r, RunTyped(r) PROVE RunTyped(r)'
  OBVIOUS
<1>1. r.strategy \in 0 .. named'
  BY DEF RunTyped
<1>2. r.source = "dataset" => r.candles <= Len(series')
  BY DEF RunTyped
<1>. QED
  BY <1>1, <1>2 DEF RunTyped

(* A log with one row more has that row besides what it had. *)
LEMMA RangeGrows ==
  ASSUME NEW log, Logged(log), NEW row
  PROVE  Logged(Append(log, row)) /\ \A x \in Range(Append(log, row)) : x \in Range(log) \/ x = row
<1>1. PICK n \in Nat : n = Len(log)
  BY LogGrows
<1>2. PICK grown : grown = Append(log, row)
  OBVIOUS
<1>3. DOMAIN log = 1 .. n /\ DOMAIN grown = 1 .. n + 1 /\ grown[n + 1] = row
      /\ \A i \in 1 .. n : grown[i] = log[i]
  BY <1>1, <1>2, LogGrows
<1>4. ASSUME NEW x \in Range(grown) PROVE x \in Range(log) \/ x = row
  <2>1. PICK i \in 1 .. n + 1 : x = grown[i]
    BY <1>3 DEF Range
  <2>2. i \in 1 .. n \/ i = n + 1
    OBVIOUS
  <2>3. CASE i \in 1 .. n
    BY <1>3, <2>1, <2>3 DEF Range
  <2>. QED
    BY <1>3, <2>1, <2>2, <2>3
<1>. QED
  BY <1>2, <1>4, LogGrows

LEMMA EmptyLog == Logged(<<>>) /\ Range(<<>>) = {}
  BY DEF Logged, Range

LEMMA SaveKeepsLedger ==
  ASSUME LedgerInv, NEW r, RunTyped(r), Save(r), UNCHANGED <<series, named>>
  PROVE  /\ Logged(results')
         /\ \A q \in runs' : RunTyped(q)'
         /\ \A q \in Range(results') : RunTyped(q)'
<1>1. results' = Append(results, r) /\ \A q \in runs' : q \in runs \/ q = r
  BY DEF Save
<1>2. \A q : RunTyped(q) => RunTyped(q)'
  BY DEF RunTyped
<1>. QED
  BY <1>1, <1>2, RangeGrows DEF LedgerInv

LEMMA GenerateKeepsLedger ==
  ASSUME LedgerInv, NEW p \in Signals, Generate(p[1], p[2])
  PROVE  LedgerInv'
<1>1. PICK found : found = Candidates(p[1], p[2])
  OBVIOUS
<1>2. found \in Seq(Found)
  <2>1. /\ IsFiniteSet(p[1]) /\ IsFiniteSet(p[2])
        /\ \A g \in p[1] : g.confidence \in 0 .. 100
        /\ \A g \in p[2] : g.confidence \in 0 .. 100
    BY SignalAssumption
  <2>. QED
    BY <1>1, <2>1, CandidatesTyped
<1>3. PICK n \in Nat : n = Len(found)
  BY <1>2
<1>4. PICK k \in Nat : k = named
  BY DEF LedgerInv
<1>5. DOMAIN found = 1 .. n /\ \A i \in 1 .. n : found[i] \in Found
  BY <1>2, <1>3
<1>6. /\ named' = k + n /\ k + n <= MaxCandidates
      /\ candidates' = [i \in 1 .. n |-> [id |-> k + i, status |-> found[i].status,
                          direction |-> found[i].direction, confidence |-> found[i].confidence]]
      /\ UNCHANGED <<series, results, verdicts, runs>>
  BY <1>1, <1>3, <1>4, <1>5 DEF Generate, tables
<1>7. \A i \in 1 .. n : [id |-> k + i, status |-> found[i].status,
          direction |-> found[i].direction, confidence |-> found[i].confidence] \in Numbered(k + n)
  BY <1>5 DEF Found, Numbered
<1>8. candidates' \in Seq(Numbered(k + n))
  BY <1>6, <1>7
<1>9. named' \in 0 .. MaxCandidates /\ candidates' \in Seq(Numbered(named'))
  BY <1>6, <1>8, SignalAssumption
<1>10. \A q : RunTyped(q) => RunTyped(q)'
  <2>1. named \in Nat /\ named' \in Nat /\ named <= named'
    BY <1>4, <1>6
  <2>2. Len(series) \in Nat /\ Len(series') = Len(series)
    BY <1>6 DEF LedgerInv
  <2>3. Len(series') \in Nat /\ Len(series) <= Len(series')
    BY <2>2
  <2>. QED
    BY <2>1, <2>2, <2>3, TypedStays
<1>. QED
  BY <1>6, <1>9, <1>10 DEF LedgerInv, Judged

LEMMA SeriesKeepsLedger ==
  ASSUME LedgerInv, NEW candle \in Candles, SeriesGrows(candle)
  PROVE  LedgerInv'
<1>1. PICK n \in Nat : n = Len(series) /\ n <= MaxCandles
  BY DEF LedgerInv
<1>2. /\ n < MaxCandles /\ series' = Append(series, candle)
      /\ UNCHANGED <<candidates, named, results, verdicts, runs>>
  BY <1>1 DEF SeriesGrows, memory, tables
<1>3. series' \in Seq(Candles) /\ Len(series') = n + 1
  BY <1>1, <1>2 DEF LedgerInv
<1>4. n + 1 <= MaxCandles
  BY <1>1, <1>2, SignalAssumption
<1>5. \A q : RunTyped(q) => RunTyped(q)'
  <2>1. named \in Nat /\ named' = named
    BY <1>2 DEF LedgerInv
  <2>2. named' \in Nat /\ named <= named'
    BY <2>1
  <2>3. Len(series) \in Nat /\ Len(series') \in Nat /\ Len(series) <= Len(series')
    BY <1>1, <1>3
  <2>. QED
    BY <2>1, <2>2, <2>3, TypedStays
<1>. QED
  BY <1>2, <1>3, <1>4, <1>5 DEF LedgerInv, Judged

LEMMA RunKeepsLedger ==
  ASSUME LedgerInv, NEW g \in Configs, RunDataset(g)
  PROVE  LedgerInv'
<1>1. PICK c : c = IF candidates = <<>> THEN Default ELSE Last(candidates)
  OBVIOUS
<1>2. c.id \in 0 .. named
  <2>1. CASE candidates = <<>>
    BY <1>1, <2>1 DEF Default, LedgerInv
  <2>2. CASE candidates # <<>>
    <3>1. PICK n \in Nat : n = Len(candidates) /\ n > 0
      BY <2>2 DEF LedgerInv
    <3>2. candidates[n] \in Numbered(named)
      BY <3>1 DEF LedgerInv
    <3>3. c = candidates[n]
      BY <1>1, <2>2, <3>1 DEF Last
    <3>. QED
      BY <3>2, <3>3 DEF Numbered, LedgerInv
  <2>. QED
    BY <2>1, <2>2
<1>3. PICK r : r = Result(c, g, series, "dataset")
  OBVIOUS
<1>4. RunTyped(r)
  BY <1>2, <1>3, ResultTyped DEF LedgerInv
<1>5. Save(r) /\ UNCHANGED <<series, candidates, named, verdicts>>
  BY <1>1, <1>3 DEF RunDataset
<1>6. /\ Logged(results') /\ \A q \in runs' : RunTyped(q)'
      /\ \A q \in Range(results') : RunTyped(q)'
  BY <1>4, <1>5, SaveKeepsLedger
<1>. QED
  BY <1>5, <1>6 DEF LedgerInv, Judged

LEMMA ValidateKeepsLedger ==
  ASSUME LedgerInv, NEW i \in DOMAIN candidates, NEW g \in Configs, NEW bonus \in Bonuses,
         Validate(candidates[i], g, bonus)
  PROVE  LedgerInv'
<1>1. PICK c : c = candidates[i]
  OBVIOUS
<1>2. c \in Numbered(named)
  BY <1>1 DEF LedgerInv
<1>3. c.id \in 0 .. named /\ c.confidence \in Int
  <2>1. c.id \in 1 .. named /\ c.confidence \in 0 .. 99
    BY <1>2 DEF Numbered
  <2>2. PICK k \in Nat : k = named
    BY DEF LedgerInv
  <2>. QED
    BY <2>1, <2>2
<1>4. PICK found : found = OfStrategy(c.id)
  OBVIOUS
<1>5. PICK r : r = IF found = <<>> THEN Result(c, g, DemoSeries, "demo") ELSE found[1]
  OBVIOUS
<1>6. PICK status : status = Verdict(Score(c, r.metrics, bonus), Acceptable(r.metrics))
  OBVIOUS
<1>7. /\ IF found = <<>> THEN Save(r) ELSE UNCHANGED <<results, runs>>
      /\ verdicts' = Append(verdicts, [strategy |-> c.id, of |-> r, status |-> status])
      /\ UNCHANGED <<series, candidates, named>>
  BY <1>1, <1>4, <1>5, <1>6 DEF Validate
<1>8. status \in {"validated", "watchlist", "weak", "rejected"}
  <2>1. bonus \in Int
    BY SignalAssumption
  <2>2. PICK score \in Int : score = Score(c, r.metrics, bonus)
    BY <1>3, <2>1, ScoreIsNumber
  <2>. QED
    BY <1>6, <2>2, VerdictIs
<1>9. \A q : RunTyped(q) => RunTyped(q)'
  BY <1>7 DEF RunTyped
<1>10. /\ Logged(results') /\ \A q \in runs' : RunTyped(q)'
       /\ \A q \in Range(results') : RunTyped(q)'
  <2>1. CASE found = <<>>
    <3>1. r = Result(c, g, DemoSeries, "demo")
      BY <1>5, <2>1
    <3>2. RunTyped(r)
      BY <1>3, <3>1, ResultTyped, CandleAssumption
    <3>3. Save(r)
      BY <1>7, <2>1
    <3>. QED
      BY <1>7, <3>2, <3>3, SaveKeepsLedger
  <2>2. CASE found # <<>>
    BY <1>7, <1>9, <2>2 DEF LedgerInv
  <2>. QED
    BY <2>1, <2>2
<1>11. Logged(verdicts') /\ \A v \in Range(verdicts') : Judged(v)
  <2>1. PICK v : v = [strategy |-> c.id, of |-> r, status |-> status]
    OBVIOUS
  <2>2. Judged(v)
    BY <1>8, <2>1 DEF Judged
  <2>3. verdicts' = Append(verdicts, v)
    BY <1>7, <2>1
  <2>. QED
    BY <2>2, <2>3, RangeGrows DEF LedgerInv
<1>. QED
  BY <1>7, <1>10, <1>11 DEF LedgerInv, Judged

LEMMA MissingKeepsLedger == LedgerInv /\ ValidateMissing => LedgerInv'
<1>. SUFFICES ASSUME LedgerInv, ValidateMissing PROVE LedgerInv'
  OBVIOUS
<1>1. PICK v : v = [strategy |-> 0, of |-> [metrics |-> NoMetrics], status |-> "rejected"]
  OBVIOUS
<1>2. Judged(v)
  BY <1>1 DEF Judged
<1>3. verdicts' = Append(verdicts, v) /\ UNCHANGED <<series, candidates, named, results, runs>>
  BY <1>1 DEF ValidateMissing, tables
<1>4. Logged(verdicts') /\ \A q \in Range(verdicts') : Judged(q)
  BY <1>2, <1>3, RangeGrows DEF LedgerInv
<1>. QED
  BY <1>3, <1>4 DEF LedgerInv, Judged, RunTyped

LEMMA ClearsKeepLedger ==
  ASSUME LedgerInv,
         ClearCandidates \/ ClearResults \/ ClearVerdicts \/ BacktestRestart \/ UNCHANGED backtestVars
  PROVE  LedgerInv'
<1>1. /\ UNCHANGED <<series, named, runs>>
      /\ candidates' \in {candidates, <<>>}
      /\ results' \in {results, <<>>} /\ verdicts' \in {verdicts, <<>>}
  BY DEF ClearCandidates, ClearResults, ClearVerdicts, BacktestRestart, backtestVars, memory, tables
<1>2. candidates' \in Seq(Numbered(named))
  <2>1. candidates \in Seq(Numbered(named))
    BY DEF LedgerInv
  <2>2. candidates' = candidates \/ candidates' = <<>>
    BY <1>1
  <2>3. <<>> \in Seq(Numbered(named))
    OBVIOUS
  <2>. QED
    BY <2>1, <2>2, <2>3
<1>3. Logged(results') /\ \A q \in Range(results') : RunTyped(q)
  BY <1>1, EmptyLog DEF LedgerInv
<1>4. Logged(verdicts') /\ \A v \in Range(verdicts') : Judged(v)
  BY <1>1, EmptyLog DEF LedgerInv
<1>. QED
  BY <1>1, <1>2, <1>3, <1>4 DEF LedgerInv, Judged, RunTyped

LEMMA LedgerStarts == BacktestInit => LedgerInv
  BY EmptyLog, SignalAssumption DEF BacktestInit, LedgerInv

LEMMA LedgerKeeps == LedgerInv /\ [BacktestNext]_backtestVars => LedgerInv'
<1>. SUFFICES ASSUME LedgerInv, [BacktestNext]_backtestVars PROVE LedgerInv'
  OBVIOUS
<1>1. ASSUME NEW c, NEW s, NEW g, WalkForward(c, s, g)
      PROVE  UNCHANGED <<series, candidates, named, results, verdicts, runs>>
  BY <1>1 DEF WalkForward, memory
<1>2. ASSUME NEW r, MonteCarlo(r)
      PROVE  UNCHANGED <<series, candidates, named, results, verdicts, runs>>
  BY <1>2 DEF MonteCarlo, memory
<1>3. UNCHANGED <<series, candidates, named, results, verdicts, runs>> => LedgerInv'
  BY DEF LedgerInv, Judged, RunTyped
<1>. QED
  BY <1>1, <1>2, <1>3, SeriesKeepsLedger, GenerateKeepsLedger, RunKeepsLedger, ValidateKeepsLedger,
     MissingKeepsLedger, ClearsKeepLedger DEF BacktestNext

LEMMA LedgerTypes == LedgerInv => BacktestTypeOK
<1>. SUFFICES ASSUME LedgerInv PROVE BacktestTypeOK
  OBVIOUS
<1>1. \A i \in DOMAIN candidates : candidates[i] \in Numbered(named)
  BY DEF LedgerInv
<1>2. \A i \in DOMAIN candidates :
        /\ candidates[i].id \in 1 .. named /\ candidates[i].confidence \in 0 .. 99
        /\ candidates[i].direction \in {"long", "short", "neutral"}
  BY <1>1 DEF Numbered, Directions
<1>. QED
  BY <1>2 DEF LedgerInv, BacktestTypeOK, RunTyped, Judged

(* Candidates carry ids that were given out, a result covers the candles   *)
(* there are and its trade ends on one of them, and a validation gives one *)
(* of its four verdicts, for every series, signal and configuration        *)
(* (StrategyEngine.generate, BacktestEngine.run, ValidationEngine).        *)
THEOREM BacktestTypeCorrect == BacktestSpec => []BacktestTypeOK
  BY LedgerStarts, LedgerKeeps, LedgerTypes, PTL DEF BacktestSpec

----------------------------------------------------------------------------
(* The institutional toolkit                                               *)

(* A scenario or the one being saved, s, is what its row says.             *)
OnRecord(s) ==
  /\ s.audit \in DOMAIN audit
  /\ audit[s.audit].type = "scenario" /\ audit[s.audit].mode = s.mode
  /\ audit[s.audit].outputs = s.results

(* The inductive invariant: besides the properties, the one being saved is *)
(* on record, and no scenario is of its row.                               *)
ToolkitInv ==
  /\ Logged(audit) /\ Logged(scenarios) /\ Logged(reports)
  /\ ToolkitTypeOK
  /\ AuditTrailHolds
  /\ ReportsStand
  /\ saving # None => /\ OnRecord(saving)
                      /\ \A i \in DOMAIN scenarios : scenarios[i].audit # saving.audit

(* A report of rows that are there, or of none, reads the same when the    *)
(* log has grown (exportDecisionReport).                                   *)
LEMMA SummaryStands ==
  ASSUME Logged(audit), NEW row, audit' = Append(audit, row),
         NEW ids, \A k \in DOMAIN ids : ids[k] \in 0 .. Len(audit)
  PROVE  Summary(ids)' = Summary(ids)
<1>1. \A k \in DOMAIN ids :
        /\ ids[k] \in DOMAIN audit' <=> ids[k] \in DOMAIN audit
        /\ ids[k] \in DOMAIN audit => audit'[ids[k]] = audit[ids[k]]
  BY LogGrows
<1>2. ASSUME NEW types PROVE Cited(ids, types)' = Cited(ids, types)
  BY <1>1 DEF Cited
<1>3. {k \in DOMAIN ids : ids[k] \in DOMAIN audit'} = {k \in DOMAIN ids : ids[k] \in DOMAIN audit}
  BY <1>1
<1>4. {audit'[ids[k]].outputs.pnl : k \in Cited(ids, {"scenario"})'}
        = {audit[ids[k]].outputs.pnl : k \in Cited(ids, {"scenario"})}
  <2>1. \A k \in Cited(ids, {"scenario"}) : audit'[ids[k]] = audit[ids[k]]
    BY <1>1 DEF Cited
  <2>2. Cited(ids, {"scenario"})' = Cited(ids, {"scenario"})
    BY <1>2
  <2>. PICK D : D = Cited(ids, {"scenario"})
    OBVIOUS
  <2>3. {audit'[ids[k]].outputs.pnl : k \in D} = {audit[ids[k]].outputs.pnl : k \in D}
    BY <2>1
  <2>. QED
    BY <2>2, <2>3
<1>. QED
  BY <1>2, <1>3, <1>4 DEF Summary, Sizings

(* What the rows say stays when the log grows.                             *)
LEMMA TrailGrows ==
  ASSUME ToolkitInv, NEW row, audit' = Append(audit, row), UNCHANGED scenarios,
         UNCHANGED answers
  PROVE  /\ AuditTrailHolds'
         /\ \A i \in DOMAIN scenarios : scenarios[i].audit \in 1 .. Len(audit)
<1>1. /\ DOMAIN audit = 1 .. Len(audit) /\ DOMAIN audit' = 1 .. Len(audit) + 1
      /\ Len(audit) \in Nat /\ \A i \in 1 .. Len(audit) : audit'[i] = audit[i]
  BY LogGrows DEF ToolkitInv
<1>2. \A i \in DOMAIN scenarios : scenarios[i].audit \in DOMAIN audit /\ scenarios[i].audit \in DOMAIN audit'
  BY <1>1 DEF ToolkitInv, AuditTrailHolds
<1>3. AuditTrailHolds'
  BY <1>1, <1>2 DEF ToolkitInv, AuditTrailHolds
<1>. QED
  BY <1>1, <1>2, <1>3

LEMMA ReportsGrow ==
  ASSUME ToolkitInv, NEW row, audit' = Append(audit, row), UNCHANGED reports
  PROVE  ReportsStand' /\ \A i \in DOMAIN reports : \A k \in DOMAIN reports[i].ids :
           reports[i].ids[k] \in 0 .. Len(audit')
<1>1. Len(audit) \in Nat /\ Len(audit') = Len(audit) + 1
  BY LogGrows DEF ToolkitInv
<1>2. ASSUME NEW i \in DOMAIN reports PROVE Summary(reports[i].ids)' = Summary(reports[i].ids)
  <2>. PICK ids : ids = reports[i].ids
    OBVIOUS
  <2>1. \A k \in DOMAIN ids : ids[k] \in 0 .. Len(audit)
    BY DEF ToolkitInv, ToolkitTypeOK
  <2>2. Summary(ids)' = Summary(ids)
    BY <2>1, SummaryStands DEF ToolkitInv
  <2>. QED
    BY <2>2
<1>. QED
  BY <1>1, <1>2 DEF ToolkitInv, ToolkitTypeOK, ReportsStand

LEMMA ReportsRest ==
  ASSUME ReportsStand, UNCHANGED <<audit, reports>>
  PROVE  ReportsStand'
<1>1. ASSUME NEW ids PROVE Summary(ids)' = Summary(ids)
  BY DEF Summary, Cited
<1>2. ASSUME NEW i \in DOMAIN reports PROVE Summary(reports[i].ids)' = Summary(reports[i].ids)
  <2>. PICK ids : ids = reports[i].ids
    OBVIOUS
  <2>1. Summary(ids)' = Summary(ids)
    BY <1>1
  <2>. QED
    BY <2>1
<1>. QED
  BY <1>2 DEF ReportsStand

LEMMA RowsGrow ==
  ASSUME ToolkitInv, NEW row, audit' = Append(audit, row), RowOK(row)',
         Len(reports) \in Nat, Len(reports') \in Nat, Len(reports) <= Len(reports')
  PROVE  (\A i \in DOMAIN audit : RowOK(audit[i]))'
<1>1. /\ DOMAIN audit = 1 .. Len(audit) /\ DOMAIN audit' = 1 .. Len(audit) + 1
      /\ Len(audit) \in Nat /\ \A i \in 1 .. Len(audit) : audit'[i] = audit[i]
      /\ audit'[Len(audit) + 1] = row
  BY LogGrows DEF ToolkitInv
<1>2. ASSUME NEW i \in DOMAIN audit' PROVE RowOK(audit[i])'
  <2>1. CASE i = Len(audit) + 1
    BY <1>1, <2>1 DEF RowOK
  <2>2. CASE i \in DOMAIN audit
    <3>1. RowOK(audit[i]) /\ audit'[i] = audit[i]
      BY <1>1, <2>2 DEF ToolkitInv, ToolkitTypeOK
    <3>. PICK r : r = audit[i]
      OBVIOUS
    <3>2. RowOK(r) /\ audit'[i] = r
      BY <3>1
    <3>3. 1 .. Len(reports) \subseteq 1 .. Len(reports')
      OBVIOUS
    <3>. QED
      BY <3>2, <3>3 DEF RowOK
  <2>. QED
    BY <1>1, <1>2, <2>1, <2>2
<1>. QED
  BY <1>2

LEMMA ToolkitStarts == ToolkitInit => ToolkitInv
<1>. SUFFICES ASSUME ToolkitInit PROVE ToolkitInv
  OBVIOUS
<1>1. Logged(<<>>)
  BY EmptySeq DEF Logged
<1>2. DOMAIN audit = {} /\ DOMAIN scenarios = {} /\ DOMAIN reports = {}
  BY DEF ToolkitInit
<1>3. Len(scenarios) + (IF saving = None THEN 0 ELSE 1) <= Len(audit)
  BY DEF ToolkitInit
<1>. QED
  BY <1>1, <1>2, <1>3 DEF ToolkitInit, ToolkitInv, ToolkitTypeOK, AuditTrailHolds, ReportsStand

LEMMA SizeKeeps ==
  ASSUME ToolkitInv, NEW type, NEW in, NEW out, NEW mode \in Modes, Size(type, in, out, mode),
         RowOK(Row(type, mode, in, out))
  PROVE  ToolkitInv'
<1>. PICK row : row = Row(type, mode, in, out)
  OBVIOUS
<1>1. audit' = Append(audit, row) /\ UNCHANGED <<scenarios, saving, answers, reports>> /\ saving = None
  BY DEF Size, Appended, Ready
<1>2. Logged(audit') /\ Len(audit') = Len(audit) + 1 /\ Len(audit) \in Nat /\ Len(reports) \in Nat
      /\ Len(scenarios) \in Nat
  BY <1>1, LogGrows DEF ToolkitInv
<1>3. RowOK(row)'
  BY <1>1 DEF RowOK
<1>4. (\A i \in DOMAIN audit : RowOK(audit[i]))'
  BY <1>1, <1>2, <1>3, RowsGrow
<1>5. AuditTrailHolds'
  BY <1>1, TrailGrows
<1>6. ReportsStand' /\ \A i \in DOMAIN reports : \A k \in DOMAIN reports[i].ids :
           reports[i].ids[k] \in 0 .. Len(audit')
  BY <1>1, ReportsGrow
<1>7. ToolkitTypeOK'
  BY <1>1, <1>2, <1>4, <1>6 DEF ToolkitInv, ToolkitTypeOK
<1>. QED
  BY <1>1, <1>2, <1>5, <1>6, <1>7 DEF ToolkitInv

LEMMA RunKeeps ==
  ASSUME ToolkitInv, NEW book \in Books, NEW shocks \in ShockSets, NEW mode \in Modes,
         RunScenario(book, shocks, mode)
  PROVE  ToolkitInv'
<1>. PICK row : row = Row("scenario", mode, [book |-> book, shocks |-> shocks], Impact(book, shocks))
  OBVIOUS
<1>0. row.type = "scenario" /\ row.mode = mode /\ row.inputs = [book |-> book, shocks |-> shocks]
      /\ row.outputs = Impact(book, shocks)
  BY DEF Row
<1>1. /\ audit' = Append(audit, row) /\ UNCHANGED <<scenarios, answers, reports>> /\ saving = None
      /\ saving' = [audit |-> Len(audit'), mode |-> mode, results |-> row.outputs]
  BY DEF RunScenario, Appended, Ready
<1>2. Logged(audit') /\ Len(audit') = Len(audit) + 1 /\ Len(audit) \in Nat /\ Len(reports) \in Nat
      /\ Len(scenarios) \in Nat /\ audit'[Len(audit')] = row /\ DOMAIN audit' = 1 .. Len(audit')
  BY <1>1, LogGrows DEF ToolkitInv
<1>3. RowOK(row)'
  BY <1>0 DEF RowOK
<1>4. (\A i \in DOMAIN audit : RowOK(audit[i]))'
  BY <1>1, <1>2, <1>3, RowsGrow
<1>5. AuditTrailHolds' /\ \A i \in DOMAIN scenarios : scenarios[i].audit \in 1 .. Len(audit)
  BY <1>1, TrailGrows
<1>6. ReportsStand' /\ \A i \in DOMAIN reports : \A k \in DOMAIN reports[i].ids :
           reports[i].ids[k] \in 0 .. Len(audit')
  BY <1>1, ReportsGrow
<1>7. ToolkitTypeOK'
  BY <1>1, <1>2, <1>4, <1>6 DEF ToolkitInv, ToolkitTypeOK
<1>8. OnRecord(saving)' /\ \A i \in DOMAIN scenarios' : scenarios'[i].audit # saving'.audit
  BY <1>0, <1>1, <1>2, <1>5 DEF OnRecord
<1>. QED
  BY <1>1, <1>2, <1>5, <1>6, <1>7, <1>8 DEF ToolkitInv

LEMMA SaveScenarioKeeps ==
  ASSUME ToolkitInv, SaveScenario
  PROVE  ToolkitInv'
<1>. PICK s : s = saving
  OBVIOUS
<1>1. /\ saving # None /\ saving' = None /\ UNCHANGED <<audit, reports>>
      /\ scenarios' = Append(scenarios, s)
      /\ answers' = answers \cup
           {[audit |-> s.audit, scenario |-> Len(scenarios'), results |-> s.results]}
  BY DEF SaveScenario
<1>2. /\ Logged(scenarios') /\ Len(scenarios) \in Nat /\ DOMAIN scenarios = 1 .. Len(scenarios)
      /\ Len(scenarios') = Len(scenarios) + 1 /\ DOMAIN scenarios' = 1 .. Len(scenarios) + 1
      /\ \A i \in 1 .. Len(scenarios) : scenarios'[i] = scenarios[i]
      /\ scenarios'[Len(scenarios) + 1] = s
  BY <1>1, LogGrows DEF ToolkitInv
<1>3. OnRecord(s) /\ \A i \in DOMAIN scenarios : scenarios[i].audit # s.audit
  BY <1>1 DEF ToolkitInv
<1>4. AuditTrailHolds'
  <2>1. \A i \in DOMAIN scenarios' : OnRecord(scenarios'[i])
    BY <1>2, <1>3 DEF ToolkitInv, AuditTrailHolds, OnRecord
  <2>2. \A i, j \in DOMAIN scenarios' : scenarios'[i].audit = scenarios'[j].audit => i = j
    BY <1>2, <1>3 DEF ToolkitInv, AuditTrailHolds
  <2>3. ASSUME NEW a \in answers'
        PROVE  a.scenario \in DOMAIN scenarios' /\ scenarios'[a.scenario].audit = a.audit
                 /\ scenarios'[a.scenario].results = a.results
    <3>1. CASE a \in answers
      BY <1>2, <3>1 DEF ToolkitInv, AuditTrailHolds
    <3>2. CASE a = [audit |-> s.audit, scenario |-> Len(scenarios'), results |-> s.results]
      BY <1>2, <3>2
    <3>. QED
      BY <1>1, <3>1, <3>2
  <2>. QED
    BY <1>1, <2>1, <2>2, <2>3 DEF AuditTrailHolds, OnRecord
<1>5. ToolkitTypeOK'
  <2>1. (\A i \in DOMAIN audit : RowOK(audit[i]))'
    BY <1>1 DEF ToolkitInv, ToolkitTypeOK, RowOK
  <2>. QED
    BY <1>1, <1>2, <2>1 DEF ToolkitInv, ToolkitTypeOK
<1>6. ReportsStand'
  BY <1>1, ReportsRest DEF ToolkitInv
<1>. QED
  BY <1>1, <1>2, <1>4, <1>5, <1>6 DEF ToolkitInv

LEMMA CutKeeps ==
  ASSUME ToolkitInv, Cut
  PROVE  ToolkitInv'
<1>1. saving' = None /\ UNCHANGED <<audit, scenarios, answers, reports>> /\ saving # None
  BY DEF Cut
<1>2. Len(scenarios) \in Nat /\ Len(audit) \in Nat
  BY LogGrows DEF ToolkitInv
<1>3. AuditTrailHolds' /\ ReportsStand'
  BY <1>1, ReportsRest DEF ToolkitInv, AuditTrailHolds
<1>4. (\A i \in DOMAIN audit : RowOK(audit[i]))'
  BY <1>1 DEF ToolkitInv, ToolkitTypeOK, RowOK
<1>. QED
  BY <1>1, <1>2, <1>3, <1>4 DEF ToolkitInv, ToolkitTypeOK

LEMMA ExportKeeps ==
  ASSUME ToolkitInv, NEW i \in 0 .. Len(audit), NEW j \in 0 .. Len(audit), NEW mode \in Modes,
         ExportDecisionReport(<<i, j>>, mode)
  PROVE  ToolkitInv'
<1>. PICK ids : ids = <<i, j>>
  OBVIOUS
<1>. PICK report : report = [ids |-> ids, summary |-> Summary(ids)]
  OBVIOUS
<1>. PICK row : row = Row("export", mode, ids, Len(reports'))
  OBVIOUS
<1>0. row.type = "export" /\ row.mode = mode /\ row.outputs = Len(reports')
  BY DEF Row
<1>1. /\ audit' = Append(audit, row) /\ UNCHANGED <<scenarios, saving, answers>> /\ saving = None
      /\ reports' = Append(reports, report)
  BY DEF ExportDecisionReport, Appended, Ready
<1>2. /\ Logged(audit') /\ Len(audit') = Len(audit) + 1 /\ Len(audit) \in Nat /\ Len(scenarios) \in Nat
  BY <1>1, LogGrows DEF ToolkitInv
<1>3. /\ Logged(reports') /\ Len(reports) \in Nat /\ DOMAIN reports = 1 .. Len(reports)
      /\ Len(reports') = Len(reports) + 1 /\ DOMAIN reports' = 1 .. Len(reports) + 1
      /\ \A k \in 1 .. Len(reports) : reports'[k] = reports[k]
      /\ reports'[Len(reports) + 1] = report
  BY <1>1, LogGrows DEF ToolkitInv
<1>4. (\A k \in DOMAIN audit : RowOK(audit[k]))'
  <2>1. RowOK(row)'
    BY <1>0, <1>3 DEF RowOK
  <2>2. Len(reports) \in Nat /\ Len(reports') \in Nat /\ Len(reports) <= Len(reports')
    BY <1>3
  <2>3. audit' = Append(audit, row)
    BY <1>1
  <2>. QED
    BY <2>1, <2>2, <2>3, RowsGrow
<1>5. AuditTrailHolds'
  BY <1>1, TrailGrows
<1>6. \A k \in DOMAIN ids : ids[k] \in 0 .. Len(audit)
  OBVIOUS
<1>7. ASSUME NEW k \in DOMAIN reports'
      PROVE  /\ \A n \in DOMAIN reports'[k].ids : reports'[k].ids[n] \in 0 .. Len(audit)
             /\ reports'[k].summary = Summary(reports'[k].ids)
  BY <1>3, <1>6 DEF ToolkitInv, ToolkitTypeOK, ReportsStand
<1>8. ASSUME NEW k \in DOMAIN reports' PROVE (reports[k].summary = Summary(reports[k].ids))'
  <2>. PICK r : r = reports'[k]
    OBVIOUS
  <2>. PICK of : of = r.ids
    OBVIOUS
  <2>1. (\A n \in DOMAIN of : of[n] \in 0 .. Len(audit)) /\ r.summary = Summary(of)
    BY <1>7
  <2>2. Summary(of)' = Summary(of)
    BY <1>1, <2>1, SummaryStands DEF ToolkitInv
  <2>. QED
    BY <2>1, <2>2
<1>9. ReportsStand'
  BY <1>8 DEF ReportsStand
<1>10. ToolkitTypeOK'
  <2>1. \A k \in DOMAIN reports' : \A n \in DOMAIN reports'[k].ids :
          reports'[k].ids[n] \in 0 .. Len(audit')
    BY <1>7, <1>2
  <2>2. (\A k \in DOMAIN reports : \A n \in DOMAIN reports[k].ids :
          reports[k].ids[n] \in 0 .. Len(audit))'
    BY <2>1
  <2>3. (Len(scenarios) + (IF saving = None THEN 0 ELSE 1) <= Len(audit))'
    BY <1>1, <1>2 DEF ToolkitInv, ToolkitTypeOK
  <2>. QED
    BY <1>1, <1>4, <2>2, <2>3 DEF ToolkitInv, ToolkitTypeOK
<1>. QED
  BY <1>1, <1>2, <1>3, <1>5, <1>9, <1>10 DEF ToolkitInv

LEMMA ToolkitStepKeeps == ToolkitInv /\ [ToolkitNext]_toolkit => ToolkitInv'
<1>. SUFFICES ASSUME ToolkitInv, [ToolkitNext]_toolkit PROVE ToolkitInv'
  OBVIOUS
<1>1. CASE \E in \in KellyInputs, mode \in Modes : SizeKelly(in, mode)
  <2>. PICK in \in KellyInputs, mode \in Modes : SizeKelly(in, mode)
    BY <1>1
  <2>1. RowOK(Row("kelly_sizing", mode, in, KellySizing(in)))
    BY DEF RowOK, Row
  <2>. QED
    BY <2>1, SizeKeeps DEF SizeKelly
<1>2. CASE \E in \in VolatilityInputs, mode \in Modes : SizeVolatility(in, mode)
  <2>. PICK in \in VolatilityInputs, mode \in Modes : SizeVolatility(in, mode)
    BY <1>2
  <2>1. RowOK(Row("volatility_sizing", mode, in, VolatilitySizing(in)))
    BY DEF RowOK, Row
  <2>. QED
    BY <2>1, SizeKeeps DEF SizeVolatility
<1>3. CASE \E book \in Books, shocks \in ShockSets, mode \in Modes : RunScenario(book, shocks, mode)
  BY <1>3, RunKeeps
<1>4. CASE SaveScenario
  BY <1>4, SaveScenarioKeeps
<1>5. CASE Cut
  BY <1>5, CutKeeps
<1>6. CASE \E i, j \in 0 .. Len(audit), mode \in Modes : ExportDecisionReport(<<i, j>>, mode)
  BY <1>6, ExportKeeps
<1>7. CASE UNCHANGED toolkit
  <2>1. UNCHANGED <<audit, scenarios, saving, answers, reports>>
    BY <1>7 DEF toolkit
  <2>2. AuditTrailHolds' /\ ReportsStand'
    BY <2>1, ReportsRest DEF ToolkitInv, AuditTrailHolds
  <2>3. ToolkitTypeOK'
    BY <2>1 DEF ToolkitInv, ToolkitTypeOK, RowOK
  <2>4. saving' # None => OnRecord(saving)' /\ \A i \in DOMAIN scenarios' : scenarios'[i].audit # saving'.audit
    BY <2>1 DEF ToolkitInv, OnRecord
  <2>. QED
    BY <2>1, <2>2, <2>3, <2>4 DEF ToolkitInv
<1>. QED
  BY <1>1, <1>2, <1>3, <1>4, <1>5, <1>6, <1>7 DEF ToolkitNext

(* The inductive invariant of the institutional toolkit holds of every     *)
(* behaviour (institutionalEngine.js, institutionalStore.js).              *)
THEOREM ToolkitInductive == ToolkitSpec => []ToolkitInv
<1>. QED
  BY ToolkitStarts, ToolkitStepKeeps, PTL DEF ToolkitSpec

(* Whatever is sized, shocked and reported, and wherever the process ends, *)
(* each scenario has a row of its own in the log that says what it says,   *)
(* and the ids a client was given lead there (runScenario, runStressPack). *)
THEOREM TrailHolds == ToolkitSpec => []AuditTrailHolds
<1>1. ToolkitInv => AuditTrailHolds
  BY DEF ToolkitInv
<1>. QED
  BY ToolkitInductive, <1>1, PTL

(* A report reads the same however long the log has grown since            *)
(* (exportDecisionReport).                                                 *)
THEOREM ReportsReproduce == ToolkitSpec => []ReportsStand
<1>1. ToolkitInv => ReportsStand
  BY DEF ToolkitInv
<1>. QED
  BY ToolkitInductive, <1>1, PTL

(* What the audit log says of scenarios and reports stays true, for any    *)
(* books, shocks and inputs, and wherever the process ends.                *)
THEOREM ToolkitIsKept == ToolkitSpec => []ToolkitKept
<1>1. AuditTrailHolds /\ ReportsStand => ToolkitKept
  BY DEF ToolkitKept
<1>. QED
  BY <1>1, TrailHolds, ReportsReproduce, PTL

(* Every row keeps to its type, and no scenario goes without a row         *)
(* (institutionalStore.appendAudit, saveScenario).                         *)
THEOREM ToolkitTypeCorrect == ToolkitSpec => []ToolkitTypeOK
<1>1. ToolkitInv => ToolkitTypeOK
  BY DEF ToolkitInv
<1>. QED
  BY ToolkitInductive, <1>1, PTL

----------------------------------------------------------------------------
(* The institutional toolkit: amounts. *)

(* The nearest number, where there are no signs. *)
LEMMA RoundedIs ==
  ASSUME NEW n \in Nat, NEW d \in Nat \ {0}
  PROVE  /\ Rounded(Over(n, d)) \in Nat
         /\ 2 * d * Rounded(Over(n, d)) <= 2 * Unit * n + d
         /\ 2 * Unit * n + d < 2 * d * Rounded(Over(n, d)) + 2 * d
<1>1. PICK x \in Nat : x = 2 * Unit * n + d
  <2>1. 2 * Unit \in Nat
    BY ToolkitAssumption
  <2>2. 2 * Unit * n \in Nat
    BY <2>1
  <2>. QED
    BY <2>2
<1>2. PICK y \in Nat : y = 2 * d /\ y > 0
  OBVIOUS
<1>3. PICK k \in Int : k = x \div y
  BY <1>2
<1>4. y * k <= x /\ x < y * k + y /\ k >= 0
  BY <1>2, <1>3
<1>5. Rounded(Over(n, d)) = k
  <2>1. PICK o : o = Over(n, d)
    OBVIOUS
  <2>2. o.n = n /\ o.d = d /\ ~(o.n < 0)
    BY <2>1 DEF Over
  <2>3. Rounded(o) = (2 * Unit * n + d) \div (2 * d)
    BY <2>2, Zenon DEF Rounded
  <2>. QED
    BY <1>1, <1>2, <1>3, <2>1, <2>3
<1>. QED
  BY <1>1, <1>2, <1>4, <1>5

(* What is rounded turns round with its sign. *)
LEMMA RoundedTurns ==
  ASSUME NEW n \in Int, NEW d \in Nat \ {0}
  PROVE  Rounded(Over(n, d)) \in Int /\ Rounded(Over(-n, d)) = -Rounded(Over(n, d))
<1>1. ASSUME NEW m \in Int
      PROVE  Rounded(Over(m, d)) = IF m < 0 THEN -((2 * Unit * (-m) + d) \div (2 * d))
                                            ELSE (2 * Unit * m + d) \div (2 * d)
  <2>1. PICK o : o = Over(m, d)
    OBVIOUS
  <2>2. o.n = m /\ o.d = d
    BY <2>1 DEF Over
  <2>. QED
    BY <2>1, <2>2, Zenon DEF Rounded
<1>2. \A m \in Nat : Rounded(Over(m, d)) \in Nat
  BY RoundedIs
<1>3. CASE n > 0
  <2>1. -n < 0 /\ -(-n) = n /\ ~(n < 0) /\ n \in Nat
    BY <1>3
  <2>. QED
    BY <1>1, <1>2, <2>1
<1>4. CASE n < 0
  <2>1. ~(-n < 0) /\ -n \in Nat
    BY <1>4
  <2>2. Rounded(Over(n, d)) = -Rounded(Over(-n, d))
    BY <1>1, <1>4, <2>1
  <2>3. Rounded(Over(-n, d)) \in Nat
    BY <1>2, <2>1
  <2>. QED
    BY <2>2, <2>3
<1>5. CASE n = 0
  <2>1. PICK k \in Nat : k = Rounded(Over(0, d))
    BY <1>2
  <2>2. 2 * d * k <= 2 * Unit * 0 + d
    BY <2>1, RoundedIs
  <2>3. 2 * Unit * 0 = 0
    BY ToolkitAssumption
  <2>4. k = 0
    <3>1. CASE k >= 1
      <4>1. 1 * (2 * d) <= k * (2 * d)
        BY <3>1, TimesKeepsOrder
      <4>2. 2 * d * k = k * (2 * d) /\ 1 * (2 * d) = 2 * d
        OBVIOUS
      <4>. QED
        BY <2>2, <2>3, <4>1, <4>2
    <3>. QED
      BY <3>1
  <2>. QED
    BY <1>5, <2>1, <2>4
<1>. QED
  BY <1>3, <1>4, <1>5

(* A position and its opposite come to nothing. *)
LEMMA PositionTurns ==
  ASSUME NEW book \in Books, NEW i \in DOMAIN book, NEW shocks \in ShockSets
  PROVE  /\ PnlImpact(book[i], shocks) \in Int
         /\ PnlImpact(Turned(book)[i], shocks) = -PnlImpact(book[i], shocks)
<1>1. PICK p : p = book[i]
  OBVIOUS
<1>2. PICK t : t = Turned(book)[i]
  OBVIOUS
<1>3. PICK symbols : book \in Seq([symbol : symbols, quantity : Nat, price : Nat, short : BOOLEAN])
  BY InputAssumption
<1>4. p \in [symbol : symbols, quantity : Nat, price : Nat, short : BOOLEAN]
  <2>1. PICK X : X = [symbol : symbols, quantity : Nat, price : Nat, short : BOOLEAN]
    OBVIOUS
  <2>2. book \in Seq(X)
    BY <1>3, <2>1
  <2>. QED
    BY <1>1, <2>1, <2>2, SeqElement
<1>5. t = [p EXCEPT !.short = ~p.short]
  BY <1>1, <1>2 DEF Turned
<1>6. t.quantity = p.quantity /\ t.price = p.price /\ t.symbol = p.symbol /\ t.short = ~p.short
  BY <1>4, <1>5
<1>7. PICK shock \in Int : shock = ShockOf(p.symbol, shocks)
  <2>1. \A s \in DOMAIN shocks : shocks[s] \in Int
    BY InputAssumption
  <2>2. ShockOf(p.symbol, shocks) \in Int
    BY <2>1 DEF ShockOf
  <2>. QED
    BY <2>2
<1>8. PICK d \in Nat \ {0} : d = Unit * Unit
  <2>1. Unit \in Nat /\ Unit > 0
    BY ToolkitAssumption
  <2>2. Unit * Unit \in Nat /\ Unit * Unit > 0
    BY <2>1
  <2>. QED
    BY <2>2
<1>9. PICK q \in Nat, r \in Nat : q = p.quantity /\ r = p.price
  BY <1>4
<1>10. PICK n \in Int : n = q * r * shock
  <2>1. q * r \in Int
    OBVIOUS
  <2>2. q * r * shock \in Int
    BY <2>1
  <2>. QED
    BY <2>2
<1>11. -1 * q * r * shock = -n /\ 1 * q * r * shock = n
  BY <1>10
<1>12. CASE p.short
  <2>1. ~t.short
    BY <1>6, <1>12
  <2>2. PnlImpact(p, shocks) = Rounded(Over(-1 * q * r * shock, Unit * Unit))
    BY <1>7, <1>9, <1>12 DEF PnlImpact
  <2>3. PnlImpact(t, shocks) = Rounded(Over(1 * q * r * shock, Unit * Unit))
    BY <1>6, <1>7, <1>9, <2>1 DEF PnlImpact
  <2>4. PnlImpact(p, shocks) = Rounded(Over(-n, d)) /\ PnlImpact(t, shocks) = Rounded(Over(n, d))
    BY <1>8, <1>11, <2>2, <2>3
  <2>. QED
    BY <1>1, <1>2, <2>4, RoundedTurns
<1>13. CASE ~p.short
  <2>1. t.short
    BY <1>4, <1>6, <1>13
  <2>2. PnlImpact(p, shocks) = Rounded(Over(1 * q * r * shock, Unit * Unit))
    BY <1>7, <1>9, <1>13 DEF PnlImpact
  <2>3. PnlImpact(t, shocks) = Rounded(Over(-1 * q * r * shock, Unit * Unit))
    BY <1>6, <1>7, <1>9, <2>1 DEF PnlImpact
  <2>4. PnlImpact(p, shocks) = Rounded(Over(n, d)) /\ PnlImpact(t, shocks) = Rounded(Over(-n, d))
    BY <1>8, <1>11, <2>2, <2>3
  <2>. QED
    BY <1>1, <1>2, <2>4, RoundedTurns
<1>. QED
  BY <1>12, <1>13

(* A book and its opposite come to nothing. *)
LEMMA BooksCancel ==
  ASSUME NEW book \in Books, NEW shocks \in ShockSets
  PROVE  Impact(book, shocks).pnl + Impact(Turned(book), shocks).pnl = 0
<1>1. PICK f : f = [i \in DOMAIN book |-> PnlImpact(book[i], shocks)]
  OBVIOUS
<1>2. PICK g : g = [i \in DOMAIN Turned(book) |-> PnlImpact(Turned(book)[i], shocks)]
  OBVIOUS
<1>3. PICK D : D = DOMAIN book
  OBVIOUS
<1>4. DOMAIN Turned(book) = D /\ DOMAIN f = D /\ DOMAIN g = D
  BY <1>1, <1>2, <1>3 DEF Turned
<1>5. IsFiniteSet(D)
  <2>1. PICK S : book \in Seq(S)
    BY InputAssumption
  <2>2. D = 1 .. Len(book) /\ Len(book) \in Nat
    BY <1>3, <2>1
  <2>. QED
    BY <2>2, FS_Interval
<1>6. \A i \in D : f[i] \in Int /\ g[i] = -f[i]
  BY <1>1, <1>2, <1>3, <1>4, PositionTurns
<1>7. SumFunctionOnSet(f, D) + SumFunctionOnSet(g, D) = 0
  BY <1>5, <1>6, SumNegated
<1>8. Impact(book, shocks).pnl = SumFunctionOnSet(f, D)
  BY <1>1, <1>4 DEF Impact, SumFunction
<1>9. Impact(Turned(book), shocks).pnl = SumFunctionOnSet(g, D)
  BY <1>2, <1>4 DEF Impact, SumFunction
<1>. QED
  BY <1>7, <1>8, <1>9

(* Hedges come out at nothing, for any book, shocks and unit. *)
LEMMA HedgesDoCancel == ToolkitTypeOK => HedgesCancel
<1>. SUFFICES ASSUME ToolkitTypeOK, NEW i \in DOMAIN audit, audit[i].type = "scenario"
              PROVE  audit[i].outputs.pnl
                       + Impact(Turned(audit[i].inputs.book), audit[i].inputs.shocks).pnl = 0
  BY DEF HedgesCancel
<1>1. /\ audit[i].inputs \in [book : Books, shocks : ShockSets]
      /\ audit[i].outputs = Impact(audit[i].inputs.book, audit[i].inputs.shocks)
  BY DEF ToolkitTypeOK, RowOK
<1>2. audit[i].inputs.book \in Books /\ audit[i].inputs.shocks \in ShockSets
  BY <1>1
<1>. QED
  BY <1>1, <1>2, BooksCancel

----------------------------------------------------------------------------
(* The institutional toolkit: Kelly positions. *)

LEMMA OverIs ==
  ASSUME NEW n, NEW d
  PROVE  Over(n, d).n = n /\ Over(n, d).d = d
BY DEF Over

LEMMA TimesIs ==
  ASSUME NEW a, NEW b, NEW c, NEW d
  PROVE  Times(Over(a, b), Over(c, d)) = Over(a * c, b * d)
BY OverIs, Zenon DEF Times

LEMMA PositiveTimes ==
  ASSUME NEW a \in Nat \ {0}, NEW b \in Nat \ {0}
  PROVE  a * b \in Nat \ {0}
<1>1. a * b \in Nat /\ a * b > 0
  OBVIOUS
<1>. QED
  BY <1>1

LEMMA InputIs ==
  ASSUME NEW in \in KellyInputs
  PROVE  /\ in.account \in Nat \ {0} /\ in.win \in Nat \ {0} /\ in.loss \in Nat \ {0}
         /\ in.p \in 0 .. Unit /\ in.fraction \in 0 .. Unit /\ in.cap \in 0 .. Unit
         /\ in.price \in Nat \cup {None} /\ in.confidence \in 0 .. Unit \cup {None, NaN}
         /\ Unit \in Nat \ {0} /\ None \notin Int /\ NaN \notin Int /\ None # NaN
<1>1. /\ {in.account, in.win, in.loss} \subseteq Nat \ {0}
      /\ {in.p, in.fraction, in.cap} \subseteq 0 .. Unit
      /\ in.price \in Nat \cup {None} /\ in.confidence \in Confidences
  BY InputAssumption
<1>. QED
  BY <1>1, ToolkitAssumption DEF Confidences

(* The fraction that is left of the edge, and none where there is no edge. *)
LEMMA AdjustedIs ==
  ASSUME NEW in \in KellyInputs, in.confidence # NaN
  PROVE  \E n \in Int, d \in Nat \ {0} : /\ AdjustedKelly(in) = Over(n, d)
                                         /\ ~(RawKelly(in).n > 0) => n <= 0
<1>1. PICK p \in Nat, win \in Nat \ {0}, loss \in Nat \ {0}, u \in Nat \ {0} :
        p = in.p /\ win = in.win /\ loss = in.loss /\ u = Unit
  BY InputIs
<1>2. PICK n \in Int, d \in Nat \ {0} : RawKelly(in) = Over(n, d)
  <2>1. p * win - (u - p) * loss \in Int
    <3>1. p * win \in Int /\ u - p \in Int
      OBVIOUS
    <3>2. (u - p) * loss \in Int
      BY <3>1
    <3>. QED
      BY <3>1, <3>2
  <2>2. u * win \in Nat \ {0}
    BY PositiveTimes
  <2>. QED
    BY <1>1, <2>1, <2>2 DEF RawKelly
<1>3. ASSUME NEW m \in Int, NEW e \in Nat \ {0}, NEW f \in 0 .. Unit, ~(n > 0) => m <= 0
      PROVE  /\ Times(Over(m, e), Fraction(f)) = Over(m * f, e * Unit)
             /\ m * f \in Int /\ e * Unit \in Nat \ {0} /\ (~(n > 0) => m * f <= 0)
  <2>1. Times(Over(m, e), Fraction(f)) = Over(m * f, e * Unit)
    BY TimesIs DEF Fraction
  <2>2. e * Unit \in Nat \ {0}
    BY <1>1, PositiveTimes
  <2>3. f \in Nat
    BY <1>1
  <2>4. m <= 0 => m * f <= 0
    <3>1. m <= 0 => m * f <= 0 * f
      BY <2>3, TimesKeepsOrder
    <3>2. 0 * f = 0
      BY <2>3
    <3>. QED
      BY <3>1, <3>2
  <2>. QED
    BY <1>3, <2>1, <2>2, <2>3, <2>4
<1>4. in.fraction \in 0 .. Unit
  BY InputIs
<1>5. PICK m \in Int, e \in Nat \ {0} :
        Times(RawKelly(in), Fraction(in.fraction)) = Over(m, e) /\ (~(n > 0) => m <= 0)
  <2>1. ~(n > 0) => n <= 0
    OBVIOUS
  <2>2. PICK f \in 0 .. Unit : f = in.fraction
    BY <1>4
  <2>3. /\ Times(Over(n, d), Fraction(f)) = Over(n * f, d * Unit)
        /\ n * f \in Int /\ d * Unit \in Nat \ {0} /\ (~(n > 0) => n * f <= 0)
    BY <1>3, <2>1
  <2>. QED
    BY <1>2, <2>2, <2>3
<1>6. CASE in.confidence = None
  BY <1>2, <1>5, <1>6, OverIs DEF AdjustedKelly
<1>7. CASE in.confidence # None
  <2>1. in.confidence \in 0 .. Unit
    BY <1>7, InputIs
  <2>2. AdjustedKelly(in) = Times(Over(m, e), Fraction(in.confidence))
    BY <1>5, <1>7, Zenon DEF AdjustedKelly
  <2>3. PICK c \in 0 .. Unit : c = in.confidence
    BY <2>1
  <2>4. /\ Times(Over(m, e), Fraction(c)) = Over(m * c, e * Unit)
        /\ m * c \in Int /\ e * Unit \in Nat \ {0} /\ (~(n > 0) => m * c <= 0)
    BY <1>3, <1>5
  <2>5. RawKelly(in).n = n
    BY <1>2, OverIs
  <2>. QED
    BY <2>2, <2>3, <2>4, <2>5
<1>. QED
  BY <1>6, <1>7

LEMMA CappedIs ==
  ASSUME NEW in \in KellyInputs, in.confidence # NaN
  PROVE  \E n \in Nat, d \in Nat \ {0} : /\ CappedKelly(in) = Over(n, d) /\ n * Unit <= in.cap * d
                                         /\ ~(RawKelly(in).n > 0) => n = 0
<1>1. PICK n \in Int, d \in Nat \ {0} : /\ AdjustedKelly(in) = Over(n, d)
                                        /\ ~(RawKelly(in).n > 0) => n <= 0
  BY AdjustedIs
<1>2. PICK u \in Nat \ {0}, cap \in Nat : u = Unit /\ cap = in.cap
  BY InputIs
<1>3. AdjustedKelly(in).n = n /\ AdjustedKelly(in).d = d
  BY <1>1, OverIs
<1>4. Exceeds(AdjustedKelly(in), Fraction(in.cap)) <=> n * u > cap * d
  BY <1>2, <1>3, OverIs, Zenon DEF Exceeds, Fraction
<1>5. n * u \in Int /\ cap * d \in Nat
  OBVIOUS
<1>6. CASE n < 0
  <2>1. CappedKelly(in) = Over(0, 1)
    <3>1. n * u <= 0 * u /\ 0 * u = 0
      BY <1>6, TimesKeepsOrder
    <3>2. ~(n * u > cap * d)
      BY <1>5, <3>1
    <3>. QED
      BY <1>3, <1>4, <1>6, <3>2 DEF CappedKelly
  <2>2. 0 * Unit <= in.cap * 1 /\ 1 \in Nat \ {0} /\ 0 \in Nat
    BY <1>2
  <2>. QED
    BY <2>1, <2>2
<1>7. CASE n >= 0 /\ n * u > cap * d
  <2>1. CappedKelly(in) = Over(cap, u)
    BY <1>2, <1>3, <1>4, <1>7 DEF CappedKelly, Fraction
  <2>2. n # 0
    <3>1. 0 * u = 0
      OBVIOUS
    <3>. QED
      BY <1>5, <1>7, <3>1
  <2>3. RawKelly(in).n > 0
    BY <1>1, <1>7, <2>2
  <2>4. cap * Unit <= in.cap * u
    BY <1>2
  <2>. QED
    BY <2>1, <2>3, <2>4
<1>8. CASE n >= 0 /\ ~(n * u > cap * d)
  <2>1. CappedKelly(in) = Over(n, d)
    BY <1>1, <1>3, <1>4, <1>8 DEF CappedKelly
  <2>2. n * Unit <= in.cap * d
    BY <1>2, <1>5, <1>8
  <2>3. n \in Nat /\ (~(RawKelly(in).n > 0) => n = 0)
    BY <1>1, <1>8
  <2>. QED
    BY <2>1, <2>2, <2>3
<1>. QED
  BY <1>6, <1>7, <1>8

(* Twice a number against an odd bound, times what both are counted in. *)
LEMMA LessTimes ==
  ASSUME NEW a \in Int, NEW b \in Int, NEW d \in Nat \ {0}, d * a < d * b
  PROVE  a < b
<1>1. a * d = d * a /\ b * d = d * b
  OBVIOUS
<1>. QED
  BY <1>1, OrderIsKept

LEMMA KellyIsHonest ==
  ASSUME NEW in \in KellyInputs
  PROVE  KellyHonest(in, KellySizing(in))
<1>. DEFINE out == KellySizing(in)
<1>1. CASE in.confidence = NaN
  <2>1. out.position = None
    BY <1>1 DEF KellySizing
  <2>. QED
    BY <2>1 DEF KellyHonest
<1>2. CASE in.confidence # NaN
  <2>1. PICK n \in Nat, d \in Nat \ {0} :
          /\ CappedKelly(in) = Over(n, d) /\ n * Unit <= in.cap * d
          /\ ~(RawKelly(in).n > 0) => n = 0
    BY <1>2, CappedIs
  <2>2. PICK u \in Nat \ {0}, cap \in Nat, a \in Nat \ {0} : u = Unit /\ cap = in.cap /\ a = in.account
    BY InputIs
  <2>3. PICK N \in Nat : N = a * n
    OBVIOUS
  <2>4. Times(Over(in.account, 1), CappedKelly(in)) = Over(N, d)
    <3>1. Times(Over(a, 1), Over(n, d)) = Over(a * n, 1 * d)
      BY TimesIs
    <3>2. 1 * d = d
      OBVIOUS
    <3>. QED
      BY <2>1, <2>2, <2>3, <3>1, <3>2
  <2>5. PICK k \in Nat : /\ k = Rounded(Over(N, d))
                         /\ 2 * d * k <= 2 * u * N + d /\ 2 * u * N + d < 2 * d * k + 2 * d
    BY <2>2, RoundedIs
  <2>6. out.position = k /\ out.edge = (RawKelly(in).n > 0)
    BY <1>2, <2>4, <2>5 DEF KellySizing
  <2>7. PICK x \in Nat : x = u * N
    OBVIOUS
  <2>8. PICK y \in Nat : y = d * k
    OBVIOUS
  <2>9. 2 * d * k = 2 * y /\ 2 * u * N = 2 * x
    BY <2>7, <2>8
  <2>10. 2 * y <= 2 * x + d /\ 2 * x + d < 2 * y + 2 * d
    BY <2>5, <2>9
  <2>11. 0 <= out.position /\ 2 * out.position <= 2 * in.account * in.cap + 1
    <3>1. PICK z \in Nat : z = a * cap
      OBVIOUS
    <3>2. x <= d * z
      <4>1. n * u <= cap * d /\ n * u \in Int /\ cap * d \in Int
        BY <2>1, <2>2
      <4>2. (n * u) * a <= (cap * d) * a
        BY <4>1, TimesKeepsOrder
      <4>3. (n * u) * a = x
        BY <2>3, <2>7
      <4>4. (cap * d) * a = d * z
        BY <3>1
      <4>. QED
        BY <4>2, <4>3, <4>4
    <3>3. d * (2 * k) = 2 * y /\ d * (2 * z + 2) = 2 * (d * z) + 2 * d /\ d * z \in Nat
      BY <2>8
    <3>4. d * (2 * k) < d * (2 * z + 2)
      BY <2>10, <3>2, <3>3
    <3>5. 2 * k < 2 * z + 2
      BY <3>4, LessTimes
    <3>6. 2 * in.account * in.cap = 2 * z
      BY <2>2, <3>1
    <3>. QED
      BY <2>6, <3>5, <3>6
  <2>12. ~out.edge => out.position = 0
    <3>. HAVE ~out.edge
    <3>1. n = 0
      BY <2>1, <2>6
    <3>2. x = 0
      BY <2>3, <2>7, <3>1
    <3>3. d * (2 * k) = 2 * y /\ d * 2 = 2 * d
      BY <2>8
    <3>4. d * (2 * k) < d * 2
      BY <2>10, <3>2, <3>3
    <3>5. 2 * k < 2
      BY <3>4, LessTimes
    <3>. QED
      BY <2>6, <3>5
  <2>13. ASSUME out.shares # None
         PROVE  /\ 2 * out.shares * in.price <= 2 * out.position + in.price + 1
                /\ 2 * out.shares * in.price >= 2 * out.position - in.price - 1
    <3>1. in.price # None /\ in.price > 0
      BY <1>2, <2>13 DEF KellySizing
    <3>2. PICK p \in Nat \ {0} : p = in.price
      BY <3>1, InputIs
    <3>3. out.shares = Rounded(Times(Over(N, d), Over(1, p)))
      BY <1>2, <2>4, <3>1, <3>2 DEF KellySizing
    <3>4. Times(Over(N, d), Over(1, p)) = Over(N, d * p)
      <4>1. Times(Over(N, d), Over(1, p)) = Over(N * 1, d * p)
        BY TimesIs
      <4>2. N * 1 = N
        OBVIOUS
      <4>. QED
        BY <4>1, <4>2
    <3>5. PICK e \in Nat \ {0} : e = d * p
      BY PositiveTimes
    <3>6. PICK s \in Nat : /\ s = Rounded(Over(N, e))
                           /\ 2 * e * s <= 2 * u * N + e /\ 2 * u * N + e < 2 * e * s + 2 * e
      BY <2>2, RoundedIs
    <3>7. PICK q \in Nat : q = p * s
      OBVIOUS
    <3>8. PICK v \in Nat : v = d * q
      OBVIOUS
    <3>9. 2 * e * s = 2 * v
      BY <3>5, <3>7, <3>8
    <3>10. 2 * v <= 2 * x + e /\ 2 * x + e < 2 * v + 2 * e
      BY <2>9, <3>6, <3>9
    <3>11. 2 * q < 2 * k + 1 + p
      <4>1. d * (2 * q) = 2 * v /\ d * (2 * k + 1 + p) = 2 * y + d + e
        BY <2>8, <3>5, <3>8
      <4>2. d * (2 * q) < d * (2 * k + 1 + p)
        BY <2>10, <3>10, <4>1
      <4>. QED
        BY <4>2, LessTimes
    <3>12. 2 * k - 1 - p < 2 * q
      <4>1. d * (2 * q) = 2 * v /\ d * (2 * k - 1 - p) = 2 * y - d - e
        BY <2>8, <3>5, <3>8
      <4>2. d * (2 * k - 1 - p) < d * (2 * q)
        BY <2>10, <3>10, <4>1
      <4>. QED
        BY <4>2, LessTimes
    <3>13. out.shares = s /\ 2 * out.shares * in.price = 2 * q
      BY <3>2, <3>3, <3>4, <3>5, <3>6, <3>7
    <3>. QED
      BY <2>6, <3>2, <3>11, <3>12, <3>13
  <2>. QED
    BY <2>11, <2>12, <2>13 DEF KellyHonest
<1>. QED
  BY <1>1, <1>2

----------------------------------------------------------------------------
(* The institutional toolkit: volatility sizes.  The rounded root is the   *)
(* least number whose upper half step is above the root.                   *)

Above(k, n, d) == 4 * Unit * Unit * n < (2 * k + 1) * (2 * k + 1) * d

LEMMA SquaresKeepOrder ==
  ASSUME NEW a \in Nat, NEW b \in Nat, a <= b
  PROVE  a * a <= b * b
<1>1. a * a <= b * a /\ a * b <= b * b
  BY TimesKeepsOrder
<1>2. b * a = a * b /\ a * a \in Nat /\ a * b \in Nat /\ b * b \in Nat
  OBVIOUS
<1>. QED
  BY <1>1, <1>2

LEMMA RootExists ==
  ASSUME NEW n \in Nat, NEW d \in Nat \ {0}
  PROVE  /\ RootRounded(n, d) \in Nat
         /\ RootRounded(n, d) > 0 =>
              (2 * RootRounded(n, d) - 1) * (2 * RootRounded(n, d) - 1) * d <= 4 * Unit * Unit * n
         /\ Above(RootRounded(n, d), n, d)
<1>1. PICK u \in Nat \ {0} : u = Unit
  BY ToolkitAssumption
<1>2. PICK x \in Nat : x = 4 * u * u * n
  <2>1. 4 * u * u \in Nat
    OBVIOUS
  <2>2. 4 * u * u * n \in Nat
    BY <2>1
  <2>. QED
    BY <2>2
<1>3. PICK top \in Nat : top = u * (n + 1) /\ top <= 2 * u * (n + 1)
  <2>1. u * (n + 1) \in Nat /\ 2 * u * (n + 1) = 2 * (u * (n + 1))
    OBVIOUS
  <2>. QED
    BY <2>1
<1>4. Above(top, n, d)
  <2>1. PICK v \in Nat : v = u * u
    OBVIOUS
  <2>2. x = 4 * (v * n)
    BY <1>2, <2>1
  <2>3. top * top = v * ((n + 1) * (n + 1))
    BY <1>3, <2>1
  <2>4. (n + 1) * (n + 1) = n * n + 2 * n + 1 /\ n * n \in Nat
    OBVIOUS
  <2>5. n * v <= ((n + 1) * (n + 1)) * v
    <3>1. n <= (n + 1) * (n + 1) /\ (n + 1) * (n + 1) \in Int
      BY <2>4
    <3>. QED
      BY <3>1, TimesKeepsOrder
  <2>6. v * n <= top * top
    <3>1. n * v = v * n /\ ((n + 1) * (n + 1)) * v = v * ((n + 1) * (n + 1))
      OBVIOUS
    <3>. QED
      BY <2>3, <2>5, <3>1
  <2>7. (2 * top + 1) * (2 * top + 1) = 4 * (top * top) + 4 * top + 1
        /\ top * top \in Nat /\ v * n \in Nat
    OBVIOUS
  <2>8. PICK w \in Nat : w = (2 * top + 1) * (2 * top + 1)
    OBVIOUS
  <2>9. x < w
    BY <2>2, <2>6, <2>7, <2>8
  <2>10. w <= w * d
    <3>1. 1 * w <= d * w
      BY TimesKeepsOrder
    <3>2. 1 * w = w /\ d * w = w * d
      OBVIOUS
    <3>. QED
      BY <3>1, <3>2
  <2>11. w * d \in Nat
    OBVIOUS
  <2>. QED
    BY <1>1, <1>2, <2>8, <2>9, <2>10, <2>11 DEF Above
<1>5. PICK k \in Nat : Above(k, n, d) /\ \A j \in Nat : Above(j, n, d) => k <= j
  <2>. DEFINE K == {j \in Nat : Above(j, n, d)}
  <2>1. K \in SUBSET Nat /\ K # {}
    BY <1>4
  <2>2. PICK k \in K : \A j \in K : k <= j
    BY <2>1, LeastOf
  <2>. QED
    BY <2>2
<1>6. k \in 0 .. 2 * Unit * (n + 1)
  <2>1. k <= top
    BY <1>4, <1>5
  <2>2. 2 * u * (n + 1) \in Nat
    OBVIOUS
  <2>. QED
    BY <1>1, <1>3, <2>1, <2>2
<1>7. k > 0 => (2 * k - 1) * (2 * k - 1) * d <= 4 * Unit * Unit * n
  <2>. HAVE k > 0
  <2>1. PICK j \in Nat : k = j + 1
    <3>1. k - 1 \in Nat /\ k = (k - 1) + 1
      OBVIOUS
    <3>. QED
      BY <3>1
  <2>2. ~Above(j, n, d)
    BY <1>5, <2>1
  <2>3. 2 * k - 1 = 2 * j + 1
    BY <2>1
  <2>4. (2 * j + 1) * (2 * j + 1) * d \in Int
    <3>1. (2 * j + 1) * (2 * j + 1) \in Int
      OBVIOUS
    <3>. QED
      BY <3>1
  <2>. QED
    BY <1>1, <1>2, <2>2, <2>3, <2>4 DEF Above
<1>8. \E r \in 0 .. 2 * Unit * (n + 1) :
        /\ r > 0 => (2 * r - 1) * (2 * r - 1) * d <= 4 * Unit * Unit * n
        /\ 4 * Unit * Unit * n < (2 * r + 1) * (2 * r + 1) * d
  BY <1>5, <1>6, <1>7 DEF Above
<1>9. /\ RootRounded(n, d) \in 0 .. 2 * Unit * (n + 1)
      /\ RootRounded(n, d) > 0 =>
           (2 * RootRounded(n, d) - 1) * (2 * RootRounded(n, d) - 1) * d <= 4 * Unit * Unit * n
      /\ 4 * Unit * Unit * n < (2 * RootRounded(n, d) + 1) * (2 * RootRounded(n, d) + 1) * d
  BY <1>8 DEF RootRounded
<1>10. 2 * Unit * (n + 1) \in Nat
  BY <1>1, <1>3
<1>. QED
  BY <1>9, <1>10 DEF Above

(* The greater quotient has the greater root. *)
LEMMA RootsKeepOrder ==
  ASSUME NEW n \in Nat, NEW d \in Nat \ {0}, NEW m \in Nat, NEW e \in Nat \ {0}, n * e <= m * d
  PROVE  RootRounded(n, d) <= RootRounded(m, e)
<1>1. PICK k \in Nat : /\ k = RootRounded(n, d)
                       /\ k > 0 => (2 * k - 1) * (2 * k - 1) * d <= 4 * Unit * Unit * n
  BY RootExists
<1>2. PICK j \in Nat : j = RootRounded(m, e) /\ Above(j, m, e)
  BY RootExists
<1>. SUFFICES ASSUME j < k PROVE FALSE
  BY <1>1, <1>2
<1>3. PICK x \in Nat : x = 4 * Unit * Unit
  <2>1. Unit \in Nat
    BY ToolkitAssumption
  <2>2. 4 * Unit * Unit \in Nat
    BY <2>1
  <2>. QED
    BY <2>2
<1>4. PICK a \in Nat : a = 2 * k - 1
  OBVIOUS
<1>5. PICK b \in Nat : b = 2 * j + 1
  OBVIOUS
<1>6. PICK p \in Nat, q \in Nat : p = a * a /\ q = b * b
  OBVIOUS
<1>7. q <= p
  <2>1. b <= a
    BY <1>4, <1>5
  <2>. QED
    BY <1>6, <2>1, SquaresKeepOrder
<1>8. p * d <= x * n
  BY <1>1, <1>3, <1>4, <1>6
<1>9. x * m < q * e
  BY <1>2, <1>3, <1>5, <1>6 DEF Above
<1>10. (p * d) * e <= (x * n) * e /\ (x * m) * d < (q * e) * d
  <2>1. p * d \in Int /\ x * n \in Int /\ x * m \in Int /\ q * e \in Int
    OBVIOUS
  <2>2. (p * d) * e <= (x * n) * e
    BY <1>8, <2>1, TimesKeepsOrder
  <2>3. (x * m + 1) * d <= (q * e) * d
    BY <1>9, <2>1, TimesKeepsOrder
  <2>4. (x * m + 1) * d = (x * m) * d + d
    BY <2>1
  <2>5. (x * m) * d \in Int /\ (q * e) * d \in Int
    BY <2>1
  <2>. QED
    BY <2>2, <2>3, <2>4, <2>5
<1>11. (x * n) * e <= (x * m) * d
  <2>1. (n * e) * x <= (m * d) * x
    <3>1. n * e \in Int /\ m * d \in Int
      OBVIOUS
    <3>. QED
      BY <3>1, TimesKeepsOrder
  <2>2. (n * e) * x = (x * n) * e /\ (m * d) * x = (x * m) * d
    OBVIOUS
  <2>. QED
    BY <2>1, <2>2
<1>12. (q * e) * d <= (p * d) * e
  <2>1. PICK r \in Nat : r = d * e
    OBVIOUS
  <2>2. q * r <= p * r
    BY <1>7, TimesKeepsOrder
  <2>3. q * r = (q * e) * d /\ p * r = (p * d) * e
    BY <2>1
  <2>. QED
    BY <2>2, <2>3
<1>13. (p * d) * e \in Int /\ (x * n) * e \in Int /\ (x * m) * d \in Int /\ (q * e) * d \in Int
  <2>1. p * d \in Int /\ x * n \in Int /\ x * m \in Int /\ q * e \in Int
    OBVIOUS
  <2>. QED
    BY <2>1
<1>. QED
  BY <1>10, <1>11, <1>12, <1>13

LEMMA VolatilityInputIs ==
  ASSUME NEW in \in VolatilityInputs
  PROVE  /\ in.account \in Nat \ {0} /\ in.risk \in Nat \ {0} /\ in.volatility \in Nat \ {0}
         /\ in.price \in Nat \ {0} /\ in.days \in Nat \ {0}
         /\ in.confidence \in 0 .. Unit \cup {None, NaN}
         /\ Unit \in Nat \ {0} /\ TradingDays \in Nat \ {0} /\ None \notin Int /\ NaN \notin Int
<1>1. /\ {in.account, in.risk, in.volatility, in.price, in.days} \subseteq Nat \ {0}
      /\ in.confidence \in Confidences
  BY InputAssumption
<1>. QED
  BY <1>1, ToolkitAssumption DEF Confidences

(* What remains of the size at a confidence. *)
Trust(in) == IF in.confidence \in {None, NaN} THEN Unit ELSE in.confidence

LEMMA SharesAre ==
  ASSUME NEW in \in VolatilityInputs, in.confidence # NaN
  PROVE  VolatilitySizing(in).shares =
           RootRounded((in.account * in.account * in.risk * in.risk * TradingDays) * Trust(in) * Trust(in),
                       (in.volatility * in.volatility * in.days) * (in.price * in.price) * Unit * Unit)
BY DEF VolatilitySizing, Trust

(* The riskier of two inputs gives no more shares. *)
LEMMA RiskTakesShares ==
  ASSUME NEW a \in VolatilityInputs, NEW b \in VolatilityInputs,
         a.confidence # NaN, b.confidence # NaN, Riskier(a, b)
  PROVE  VolatilitySizing(a).shares <= VolatilitySizing(b).shares
<1>1. PICK u \in Nat \ {0}, price \in Nat \ {0} : u = Unit /\ price = a.price /\ price = b.price
  BY VolatilityInputIs DEF Riskier
<1>2. PICK k \in Nat : /\ k = a.account * a.account * a.risk * a.risk * TradingDays
                       /\ k = b.account * b.account * b.risk * b.risk * TradingDays
  <2>1. PICK x \in Nat, r \in Nat, t \in Nat :
          x = a.account /\ x = b.account /\ r = a.risk /\ r = b.risk /\ t = TradingDays
    BY VolatilityInputIs DEF Riskier
  <2>2. x * x \in Nat
    OBVIOUS
  <2>3. x * x * r \in Nat
    BY <2>2
  <2>4. x * x * r * r \in Nat
    BY <2>3
  <2>5. x * x * r * r * t \in Nat
    BY <2>4
  <2>. QED
    BY <2>1, <2>5
<1>3. PICK c \in Nat, e \in Nat : c = Trust(a) /\ e = Trust(b) /\ c <= e
  <2>1. a.confidence \in 0 .. Unit \cup {None} /\ b.confidence \in 0 .. Unit \cup {None}
    BY VolatilityInputIs
  <2>2. None \notin Int /\ NaN \notin Int /\ Unit \in Nat
    BY VolatilityInputIs
  <2>3. b.confidence = None \/ (None # a.confidence /\ a.confidence <= b.confidence)
    BY DEF Riskier
  <2>4. CASE b.confidence = None
    <3>1. Trust(b) = Unit
      BY <2>4 DEF Trust
    <3>2. Trust(a) \in 0 .. Unit
      BY <2>1, <2>2 DEF Trust
    <3>. QED
      BY <2>2, <3>1, <3>2
  <2>5. CASE b.confidence # None
    <3>1. a.confidence \in 0 .. Unit /\ b.confidence \in 0 .. Unit /\ a.confidence <= b.confidence
      BY <2>1, <2>3, <2>5
    <3>2. Trust(a) = a.confidence /\ Trust(b) = b.confidence
      BY <2>2, <3>1 DEF Trust
    <3>. QED
      BY <3>1, <3>2
  <2>. QED
    BY <2>4, <2>5
<1>4. PICK v \in Nat \ {0}, w \in Nat \ {0} :
        /\ v = a.volatility * a.volatility * a.days /\ w = b.volatility * b.volatility * b.days /\ w <= v
  <2>1. PICK x \in Nat \ {0}, y \in Nat \ {0}, s \in Nat \ {0}, t \in Nat \ {0} :
          x = a.volatility /\ y = b.volatility /\ s = a.days /\ t = b.days /\ y <= x /\ t <= s
    BY VolatilityInputIs DEF Riskier
  <2>2. y * y <= x * x /\ x * x \in Nat \ {0} /\ y * y \in Nat \ {0}
    BY <2>1, SquaresKeepOrder, PositiveTimes
  <2>3. (y * y) * t <= (x * x) * t
    BY <2>2, TimesKeepsOrder
  <2>4. t * (x * x) <= s * (x * x)
    BY <2>1, <2>2, TimesKeepsOrder
  <2>5. t * (x * x) = (x * x) * t /\ s * (x * x) = (x * x) * s
    OBVIOUS
  <2>6. (x * x) * s \in Nat \ {0} /\ (y * y) * t \in Nat \ {0}
    BY <2>2, PositiveTimes
  <2>7. (x * x) * t \in Nat
    OBVIOUS
  <2>8. (y * y) * t <= (x * x) * s
    BY <2>3, <2>4, <2>5, <2>6, <2>7
  <2>. QED
    BY <2>1, <2>6, <2>8
<1>5. PICK p \in Nat \ {0} : \A z \in Nat \ {0} : z * (price * price) * Unit * Unit = z * p
  <2>1. PICK p \in Nat \ {0} : p = (price * price) * (u * u)
    <3>1. price * price \in Nat \ {0} /\ u * u \in Nat \ {0}
      BY PositiveTimes
    <3>. QED
      BY <3>1, PositiveTimes
  <2>2. ASSUME NEW z \in Nat \ {0} PROVE z * (price * price) * u * u = z * p
    BY <2>1
  <2>. QED
    BY <1>1, <2>2
<1>6. PICK n \in Nat, m \in Nat : n = k * c * c /\ m = k * e * e
  <2>1. k * c \in Nat /\ k * e \in Nat
    OBVIOUS
  <2>2. k * c * c \in Nat /\ k * e * e \in Nat
    BY <2>1
  <2>. QED
    BY <2>2
<1>7. PICK f \in Nat \ {0}, g \in Nat \ {0} : f = v * p /\ g = w * p
  BY PositiveTimes
<1>8. n * g <= m * f
  <2>1. PICK x \in Nat, y \in Nat, z \in Nat : x = c * c /\ y = e * e /\ z = k * p
    OBVIOUS
  <2>2. x <= y
    BY <1>3, <2>1, SquaresKeepOrder
  <2>3. x * w <= y * w /\ w * y <= v * y
    BY <1>4, <2>2, TimesKeepsOrder
  <2>4. x * w \in Nat /\ y * w \in Nat /\ w * y = y * w /\ y * v \in Nat /\ v * y = y * v
    OBVIOUS
  <2>5. x * w <= y * v
    BY <2>3, <2>4
  <2>6. (x * w) * z <= (y * v) * z
    BY <2>4, <2>5, TimesKeepsOrder
  <2>7. n = k * x /\ m = k * y
    BY <1>6, <2>1
  <2>8. n * g = (x * w) * z
    BY <1>7, <2>1, <2>7
  <2>9. m * f = (y * v) * z
    BY <1>7, <2>1, <2>7
  <2>. QED
    BY <2>6, <2>8, <2>9
<1>9. VolatilitySizing(a).shares = RootRounded(n, f)
  <2>1. v * (price * price) * Unit * Unit = f
    BY <1>5, <1>7
  <2>2. VolatilitySizing(a).shares = RootRounded(k * c * c, v * (price * price) * Unit * Unit)
    BY <1>1, <1>2, <1>3, <1>4, SharesAre
  <2>. QED
    BY <1>6, <2>1, <2>2
<1>10. VolatilitySizing(b).shares = RootRounded(m, g)
  <2>1. w * (price * price) * Unit * Unit = g
    BY <1>5, <1>7
  <2>2. VolatilitySizing(b).shares = RootRounded(k * e * e, w * (price * price) * Unit * Unit)
    BY <1>1, <1>2, <1>3, <1>4, SharesAre
  <2>. QED
    BY <1>6, <2>1, <2>2
<1>. QED
  BY <1>8, <1>9, <1>10, RootsKeepOrder

----------------------------------------------------------------------------
(* The institutional toolkit: the sizes in the log are those of its inputs.*)

SizedAs(row) ==
  /\ row.type = "kelly_sizing" => row.outputs = KellySizing(row.inputs)
  /\ row.type = "volatility_sizing" => row.outputs = VolatilitySizing(row.inputs)

SizesInv == \A i \in DOMAIN audit : SizedAs(audit[i])

LEMMA SizesGrow ==
  ASSUME Logged(audit), SizesInv, NEW row, SizedAs(row), audit' = Appended(row)
  PROVE  SizesInv'
<1>1. /\ DOMAIN audit = 1 .. Len(audit) /\ Len(audit) \in Nat
      /\ DOMAIN audit' = 1 .. Len(audit) + 1
      /\ \A i \in 1 .. Len(audit) : audit'[i] = audit[i]
      /\ audit'[Len(audit) + 1] = row
  BY LogGrows DEF Appended
<1>2. \A i \in 1 .. Len(audit) + 1 : i = Len(audit) + 1 \/ i \in 1 .. Len(audit)
  BY <1>1
<1>. QED
  BY <1>1, <1>2 DEF SizesInv, SizedAs

LEMMA SizesKept == ToolkitInv /\ SizesInv /\ [ToolkitNext]_toolkit => SizesInv'
<1>. SUFFICES ASSUME ToolkitInv, SizesInv, [ToolkitNext]_toolkit PROVE SizesInv'
  OBVIOUS
<1>1. Logged(audit)
  BY DEF ToolkitInv
<1>2. CASE UNCHANGED audit
  BY <1>2 DEF SizesInv, SizedAs
<1>3. ASSUME NEW in, NEW mode, SizeKelly(in, mode) PROVE SizesInv'
  <2>1. SizedAs(Row("kelly_sizing", mode, in, KellySizing(in)))
    BY DEF SizedAs, Row
  <2>. QED
    BY <1>1, <1>3, <2>1, SizesGrow DEF SizeKelly, Size
<1>4. ASSUME NEW in, NEW mode, SizeVolatility(in, mode) PROVE SizesInv'
  <2>1. SizedAs(Row("volatility_sizing", mode, in, VolatilitySizing(in)))
    BY DEF SizedAs, Row
  <2>. QED
    BY <1>1, <1>4, <2>1, SizesGrow DEF SizeVolatility, Size
<1>5. ASSUME NEW book, NEW shocks, NEW mode, RunScenario(book, shocks, mode) PROVE SizesInv'
  <2>1. PICK row : row = Row("scenario", mode, [book |-> book, shocks |-> shocks], Impact(book, shocks))
    OBVIOUS
  <2>2. SizedAs(row)
    BY <2>1 DEF SizedAs, Row
  <2>3. audit' = Appended(row)
    BY <1>5, <2>1 DEF RunScenario
  <2>. QED
    BY <1>1, <2>2, <2>3, SizesGrow
<1>6. ASSUME NEW ids, NEW mode, ExportDecisionReport(ids, mode) PROVE SizesInv'
  <2>1. PICK row : row = Row("export", mode, ids, Len(reports'))
    OBVIOUS
  <2>2. SizedAs(row)
    BY <2>1 DEF SizedAs, Row
  <2>3. audit' = Appended(row)
    BY <1>6, <2>1 DEF ExportDecisionReport
  <2>. QED
    BY <1>1, <2>2, <2>3, SizesGrow
<1>7. SaveScenario \/ Cut \/ UNCHANGED toolkit => UNCHANGED audit
  BY DEF SaveScenario, Cut, toolkit
<1>. QED
  BY <1>2, <1>3, <1>4, <1>5, <1>6, <1>7 DEF ToolkitNext

LEMMA SizesAreHonest == ToolkitTypeOK /\ SizesInv => SizingHonest
<1>. SUFFICES ASSUME ToolkitTypeOK, SizesInv PROVE SizingHonest
  OBVIOUS
<1>1. ASSUME NEW i \in DOMAIN audit, audit[i].type = "kelly_sizing"
      PROVE  KellyHonest(audit[i].inputs, audit[i].outputs)
  <2>1. audit[i].inputs \in KellyInputs
    BY <1>1 DEF ToolkitTypeOK, RowOK
  <2>2. audit[i].outputs = KellySizing(audit[i].inputs)
    BY <1>1 DEF SizesInv, SizedAs
  <2>. QED
    BY <2>1, <2>2, KellyIsHonest
<1>2. ASSUME NEW i \in DOMAIN audit, audit[i].type = "volatility_sizing"
      PROVE  audit[i].inputs \in VolatilityInputs /\ audit[i].outputs = VolatilitySizing(audit[i].inputs)
  BY <1>2 DEF ToolkitTypeOK, RowOK, SizesInv, SizedAs
<1>3. ASSUME NEW i \in DOMAIN audit, NEW j \in DOMAIN audit,
             audit[i].type = "volatility_sizing", audit[j].type = "volatility_sizing",
             NaN \notin {audit[i].inputs.confidence, audit[j].inputs.confidence},
             Riskier(audit[i].inputs, audit[j].inputs)
      PROVE  audit[i].outputs.shares <= audit[j].outputs.shares
  BY <1>2, <1>3, RiskTakesShares
<1>. QED
  BY <1>1, <1>3 DEF SizingHonest

(* A Kelly size is within its cap and nothing without an edge, more risk   *)
(* or less confidence takes no larger size, and a hedged book comes out at *)
(* nothing: for any inputs, books and shocks, however long the log, and to *)
(* any number of digits (positionSizing.js, shockModel in                  *)
(* institutionalEngine.js).                                                *)
THEOREM AmountsAreHonest == ToolkitSpec => []AmountsHonest
<1>1. ToolkitInit => SizesInv
  BY DEF ToolkitInit, SizesInv
<1>2. ToolkitInv /\ SizesInv => AmountsHonest
  BY HedgesDoCancel, SizesAreHonest DEF ToolkitInv, AmountsHonest
<1>. QED
  BY <1>1, <1>2, ToolkitInductive, SizesKept, PTL DEF ToolkitSpec
=============================================================================
