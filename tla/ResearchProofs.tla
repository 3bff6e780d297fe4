---------------------------- MODULE ResearchProofs ----------------------------
(***************************************************************************)
(* What research keeps, for any number of requests: a dataset's row has    *)
(* its files behind it (Datasets), a model tells of the data it was trained*)
(* on (Training), a result that was attached stays with its strategy       *)
(* (StrategyLab), and each call of the Python inference process is counted *)
(* once and never stranded (InferenceWorker); and the four side by side,   *)
(* as the run checks them (MCResearch).                                    *)
(***************************************************************************)
EXTENDS MCResearch, FiniteSetTheorems, SequenceTheorems, TLAPS

----------------------------------------------------------------------------
(* Datasets: types and files together are inductive.  A delete that is     *)
(* under way names the directory its row named when it began, and a row    *)
(* that has moved to another directory since is not touched by it until it *)
(* is removed.                                                             *)

IInv == DataTypeOK /\ FilesBehindRows

Disk == DatasetIds \X Dirs \X Kinds

(* What must be shown of a step for one dataset. *)
Backed(id) ==
  rows[id] # NoRow /\ ~Removing(id) /\ id \notin torn
    => \A kind \in Kinds : Filled(File(id, rows[id], kind))

LEMMA FileOnDisk ==
  ASSUME NEW id \in DatasetIds, NEW dir \in Dirs, NEW kind \in Kinds
  PROVE  /\ File(id, dir, kind) \in Disk
         /\ \A id2, dir2, kind2 :
              File(id2, dir2, kind2) = File(id, dir, kind) => id2 = id /\ dir2 = dir /\ kind2 = kind
BY DEF File, Disk

LEMMA WishesAreSequences ==
  ASSUME NEW ids \in Wishes
  PROVE  ids \in Seq(DatasetIds) /\ ids # <<>>
<1>1. CASE ids \in {<<id>> : id \in DatasetIds}
  BY <1>1
<1>2. CASE ids \in {w \in DatasetIds \X DatasetIds : w[1] # w[2]}
  <2>1. PICK a \in DatasetIds, b \in DatasetIds : ids = <<a, b>>
    BY <1>2
  <2>. QED
    BY <2>1
<1>. QED
  BY <1>1, <1>2 DEF Wishes

(* The rest of a request after one fetch is a request or none. *)
LEMMA AfterThisTyped ==
  ASSUME DataTypeOK, NEW q \in Downloads, download[q].left # <<>>, AfterThis(q)
  PROVE  /\ download' \in [Downloads -> Download]
         /\ \A p \in Downloads : download'[p].left # <<>> => download'[p].dir \in Dirs
         /\ Head(download[q].left) \in DatasetIds /\ download[q].dir \in Dirs
<1>1. download[q] \in Download /\ download[q].dir \in Dirs
  BY DEF DataTypeOK
<1>2. download[q].left \in Seq(DatasetIds)
  BY <1>1 DEF Download
<1>3. Head(download[q].left) \in DatasetIds /\ Tail(download[q].left) \in Seq(DatasetIds)
  BY <1>2
<1>4. NoDownload \in Download /\ NoDownload.left = <<>>
  BY DEF NoDownload, Download
<1>5. [download[q] EXCEPT !.left = Tail(download[q].left)] \in Download
  BY <1>1, <1>3 DEF Download
<1>6. [download[q] EXCEPT !.left = Tail(download[q].left)].dir = download[q].dir
  BY <1>1 DEF Download
<1>. QED
  BY <1>1, <1>3, <1>4, <1>5, <1>6 DEF AfterThis, DataTypeOK

----------------------------------------------------------------------------
(* Deletes *)

(* Finish and Proceed, with the files as they are. *)
LEMMA ProceedKeeps ==
  ASSUME IInv, NEW d \in Deletes, NEW id \in DatasetIds, NEW dir \in Dirs,
         NEW kinds \in SUBSET Kinds,
         Proceed(d, id, dir, kinds),
         removal[d].at # "idle" => removal[d].id = id /\ removal[d].dir = dir,
         removal[d].at = "idle" => rows[id] = dir,
         UNCHANGED <<files, download, fetches, torn>>
  PROVE  IInv'
<1>1. CASE Finish(d, id)
  <2>1. rows' \in [DatasetIds -> Dirs \cup {NoRow}] /\ removal' \in [Deletes -> Removal]
    BY <1>1 DEF Finish, IInv, DataTypeOK, NoRemoval, Removal
  <2>2. \A x \in DatasetIds : Backed(x)'
    <3>. SUFFICES ASSUME NEW x \in DatasetIds, rows'[x] # NoRow, ~Removing(x)', x \notin torn
         PROVE  \A kind \in Kinds : Filled(File(x, rows[x], kind))
      BY <1>1 DEF Backed, Filled, Finish, IInv, DataTypeOK
    <3>1. x # id /\ rows'[x] = rows[x]
      BY <1>1 DEF Finish, IInv, DataTypeOK
    <3>2. ~UnlinkedBy(d, x)
      BY <3>1 DEF UnlinkedBy
    <3>3. \A e \in Deletes \ {d} : UnlinkedBy(e, x) => UnlinkedBy(e, x)'
      BY <1>1, <3>1 DEF UnlinkedBy, Finish, IInv, DataTypeOK
    <3>4. ~Removing(x)
      BY <3>2, <3>3 DEF Removing
    <3>. QED
      BY <3>1, <3>4 DEF IInv, FilesBehindRows
  <2>3. \A e \in Deletes : removal'[e].at # "idle" => removal'[e].id \in DatasetIds /\ removal'[e].dir \in Dirs
    BY <1>1 DEF Finish, IInv, DataTypeOK, NoRemoval
  <2>. QED
    BY <2>1, <2>2, <2>3 DEF IInv, DataTypeOK, FilesBehindRows, Backed
<1>2. ASSUME NEW at \in {"unlinks_json", "unlinks_csv"},
             removal' = [removal EXCEPT ![d] = [id |-> id, dir |-> dir, at |-> at]],
             UNCHANGED rows
      PROVE  IInv'
  <2>1. removal' \in [Deletes -> Removal]
    BY <1>2 DEF IInv, DataTypeOK, Removal
  <2>2. \A e \in Deletes : removal'[e].at # "idle" => removal'[e].id \in DatasetIds /\ removal'[e].dir \in Dirs
    BY <1>2 DEF IInv, DataTypeOK
  <2>3. \A x \in DatasetIds : Removing(x) => Removing(x)'
    <3>. TAKE x \in DatasetIds
    <3>1. \A e \in Deletes : UnlinkedBy(e, x) => UnlinkedBy(e, x)'
      BY <1>2 DEF UnlinkedBy, IInv, DataTypeOK
    <3>. QED
      BY <3>1 DEF Removing
  <2>. QED
    BY <1>2, <2>1, <2>2, <2>3 DEF IInv, DataTypeOK, FilesBehindRows, Filled
<1>. QED
  BY <1>1, <1>2 DEF Proceed

LEMMA StartDeleteKeeps ==
  ASSUME IInv, NEW d \in Deletes, NEW id \in DatasetIds, StartDelete(d, id)
  PROVE  IInv'
<1>1. rows[id] \in Dirs
  BY DEF StartDelete, IInv, DataTypeOK
<1>. QED
  BY <1>1, ProceedKeeps DEF StartDelete

LEMMA UnlinkedKeeps ==
  ASSUME IInv, NEW d \in Deletes, Unlinked(d)
  PROVE  IInv'
<1>1. removal[d].at # "idle" /\ removal[d].id \in DatasetIds /\ removal[d].dir \in Dirs
  BY DEF Unlinked, IInv, DataTypeOK
<1>2. (IF removal[d].at = "json_gone" THEN {"csv"} ELSE {}) \in SUBSET Kinds
  BY DEF Kinds
<1>. QED
  BY <1>1, <1>2, ProceedKeeps DEF Unlinked

(* The file that goes is one of the row's only while its delete is under   *)
(* way, and the delete is not over with it.                                *)
LEMMA UnlinkKeeps ==
  ASSUME IInv, NEW d \in Deletes, NEW kind \in Kinds, Unlink(d, kind)
  PROVE  IInv'
<1>. DEFINE r == removal[d]
            gone == IF kind = "json" THEN "json_gone" ELSE "csv_gone"
<1>1. r \in Removal /\ r.at # "idle" /\ r.id \in DatasetIds /\ r.dir \in Dirs
  BY DEF Unlink, IInv, DataTypeOK
<1>2. removal' = [removal EXCEPT ![d] = [r EXCEPT !.at = gone]]
  BY DEF Unlink
<1>3. [r EXCEPT !.at = gone] \in Removal /\ gone # "idle"
  BY <1>1 DEF Removal
<1>4. removal' \in [Deletes -> Removal]
  BY <1>2, <1>3 DEF IInv, DataTypeOK
<1>5. \A e \in Deletes :
        /\ removal'[e].id = removal[e].id /\ removal'[e].dir = removal[e].dir
        /\ removal'[e].at = "idle" <=> removal[e].at = "idle"
  BY <1>1, <1>2, <1>3 DEF IInv, DataTypeOK, Removal
<1>6. files' \in [Disk -> Extents \cup {Missing, Empty}]
  BY DEF Unlink, IInv, DataTypeOK, Disk
<1>7. \A x \in DatasetIds : Removing(x)' <=> Removing(x)
  BY <1>5 DEF Removing, UnlinkedBy, Unlink
<1>8. ASSUME NEW x \in DatasetIds, rows[x] # NoRow, ~Removing(x), x \notin torn, NEW k \in Kinds
      PROVE  Filled(File(x, rows[x], k))'
  <2>1. rows[x] \in Dirs /\ Filled(File(x, rows[x], k))
    BY <1>8 DEF IInv, DataTypeOK, FilesBehindRows
  <2>2. ~ (r.id = x /\ r.dir = rows[x])
    BY <1>1, <1>8 DEF Removing, UnlinkedBy
  <2>3. File(x, rows[x], k) # File(r.id, r.dir, kind) /\ File(x, rows[x], k) \in Disk
    BY <1>1, <1>8, <2>1, <2>2, FileOnDisk
  <2>. QED
    BY <2>1, <2>3 DEF Unlink, Filled, IInv, DataTypeOK, Disk
<1>. QED
  BY <1>4, <1>5, <1>6, <1>7, <1>8 DEF IInv, DataTypeOK, FilesBehindRows, Unlink, Disk

----------------------------------------------------------------------------
(* Downloads *)

LEMMA RequestDownloadKeeps ==
  ASSUME IInv, NEW q \in Downloads, NEW ids \in Wishes, NEW dir \in Dirs, RequestDownload(q, ids, dir)
  PROVE  IInv'
<1>1. [left |-> ids, dir |-> dir] \in Download
  BY WishesAreSequences DEF Download
<1>. QED
  BY <1>1 DEF RequestDownload, IInv, DataTypeOK, FilesBehindRows, Removing, UnlinkedBy, Filled

LEMMA FetchOkKeeps ==
  ASSUME IInv, NEW q \in Downloads, NEW extent \in Extents, FetchOk(q, extent)
  PROVE  IInv'
<1>. DEFINE id == Head(download[q].left)
            dir == download[q].dir
            written == {File(id, dir, "json"), File(id, dir, "csv")}
<1>1. /\ download' \in [Downloads -> Download]
      /\ \A p \in Downloads : download'[p].left # <<>> => download'[p].dir \in Dirs
      /\ id \in DatasetIds /\ dir \in Dirs
  BY AfterThisTyped DEF FetchOk, FetchUnderWay, IInv
<1>2. /\ files' = [f \in Disk |-> IF f \in written THEN extent ELSE files[f]]
      /\ rows' = [rows EXCEPT ![id] = dir]
      /\ torn' = torn \ {id} /\ removal' = removal
  BY DEF FetchOk, IInv, DataTypeOK, Disk
<1>3. fetches' \in 0 .. MaxFetches
  BY FetchAssumption DEF FetchOk, FetchUnderWay, IInv, DataTypeOK
<1>4. files' \in [Disk -> Extents \cup {Missing, Empty}]
  BY <1>2 DEF IInv, DataTypeOK, Disk
<1>5. rows' \in [DatasetIds -> Dirs \cup {NoRow}] /\ torn' \subseteq DatasetIds
  BY <1>1, <1>2 DEF IInv, DataTypeOK
<1>6. ASSUME NEW x \in DatasetIds, rows'[x] # NoRow, ~Removing(x)', x \notin torn', NEW k \in Kinds
      PROVE  Filled(File(x, rows[x], k))'
  <2>1. CASE x = id
    <3>1. rows'[x] = dir
      BY <1>1, <1>2, <2>1 DEF IInv, DataTypeOK
    <3>2. File(x, dir, k) \in written /\ File(x, dir, k) \in Disk
      BY <1>1, <1>6, <2>1, FileOnDisk DEF Kinds
    <3>3. files'[File(x, dir, k)] = extent
      BY <1>2, <3>2
    <3>. QED
      BY <3>1, <3>3 DEF Filled
  <2>2. CASE x # id
    <3>1. rows'[x] = rows[x] /\ x \notin torn
      BY <1>2, <1>6, <2>2 DEF IInv, DataTypeOK
    <3>2. ~Removing(x)
      BY <1>2, <1>6, <3>1 DEF Removing, UnlinkedBy
    <3>3. rows[x] \in Dirs /\ Filled(File(x, rows[x], k))
      BY <1>6, <3>1, <3>2 DEF IInv, DataTypeOK, FilesBehindRows
    <3>4. File(x, rows[x], k) \in Disk /\ File(x, rows[x], k) \notin written
      BY <1>1, <1>6, <2>2, <3>3, FileOnDisk DEF Kinds
    <3>. QED
      BY <1>2, <3>1, <3>3, <3>4 DEF Filled
  <2>. QED
    BY <2>1, <2>2
<1>. QED
  BY <1>1, <1>2, <1>3, <1>4, <1>5, <1>6 DEF IInv, DataTypeOK, FilesBehindRows, Disk

LEMMA FetchFailsKeeps ==
  ASSUME IInv, NEW q \in Downloads, FetchFails(q)
  PROVE  IInv'
<1>1. /\ download' \in [Downloads -> Download]
      /\ \A p \in Downloads : download'[p].left # <<>> => download'[p].dir \in Dirs
  BY AfterThisTyped DEF FetchFails, FetchUnderWay, IInv
<1>2. fetches' \in 0 .. MaxFetches
  BY FetchAssumption DEF FetchFails, FetchUnderWay, IInv, DataTypeOK
<1>. QED
  BY <1>1, <1>2 DEF FetchFails, IInv, DataTypeOK, FilesBehindRows, Removing, UnlinkedBy, Filled

(* The files it leaves half written are of its dataset's directory: the    *)
(* row that names them is torn, and no other names them.                   *)
LEMMA WriteFailsKeeps ==
  ASSUME IInv, NEW q \in Downloads, NEW kind \in Kinds, NEW extent \in Extents, WriteFails(q, kind, extent)
  PROVE  IInv'
<1>. DEFINE id == Head(download[q].left)
            dir == download[q].dir
<1>1. id \in DatasetIds /\ dir \in Dirs
  <2>1. download[q] \in Download /\ download[q].left # <<>> /\ dir \in Dirs
    BY DEF WriteFails, FetchUnderWay, IInv, DataTypeOK
  <2>. QED
    BY <2>1 DEF Download
<1>2. PICK left \in {Empty, extent} :
        files' = [files EXCEPT ![File(id, dir, kind)] = left,
                               ![File(id, dir, "json")] = IF kind = "csv" THEN extent ELSE left]
  BY DEF WriteFails
<1>3. files' \in [Disk -> Extents \cup {Missing, Empty}]
  BY <1>2 DEF IInv, DataTypeOK, Disk
<1>4. \A f \in Disk : f \notin {File(id, dir, k) : k \in Kinds} => files'[f] = files[f]
  BY <1>2 DEF IInv, DataTypeOK, Disk, Kinds
<1>5. download' \in [Downloads -> Download] /\ fetches' \in 0 .. MaxFetches
  BY FetchAssumption DEF WriteFails, FetchUnderWay, IInv, DataTypeOK, NoDownload, Download
<1>6. \A p \in Downloads : download'[p].left # <<>> => download'[p].dir \in Dirs
  BY DEF WriteFails, IInv, DataTypeOK, NoDownload
<1>7. /\ torn' = IF rows[id] = dir THEN torn \cup {id} ELSE torn
      /\ rows' = rows /\ removal' = removal
  BY DEF WriteFails
<1>8. ASSUME NEW x \in DatasetIds, rows[x] # NoRow, ~Removing(x), x \notin torn', NEW k \in Kinds
      PROVE  Filled(File(x, rows[x], k))'
  <2>1. x \notin torn /\ ~ (x = id /\ rows[x] = dir)
    BY <1>7, <1>8
  <2>2. rows[x] \in Dirs /\ Filled(File(x, rows[x], k))
    BY <1>8, <2>1 DEF IInv, DataTypeOK, FilesBehindRows
  <2>3. File(x, rows[x], k) \in Disk /\ File(x, rows[x], k) \notin {File(id, dir, j) : j \in Kinds}
    BY <1>1, <1>8, <2>1, <2>2, FileOnDisk
  <2>. QED
    BY <1>4, <1>7, <2>2, <2>3 DEF Filled
<1>9. \A x \in DatasetIds : Removing(x)' <=> Removing(x)
  BY <1>7 DEF Removing, UnlinkedBy
<1>. QED
  BY <1>1, <1>3, <1>5, <1>6, <1>7, <1>8, <1>9 DEF IInv, DataTypeOK, FilesBehindRows, Disk

LEMMA RestartKeeps ==
  ASSUME IInv, DataRestart
  PROVE  IInv'
<1>1. NoDownload \in Download /\ NoDownload.left = <<>> /\ NoRemoval \in Removal /\ NoRemoval.at = "idle"
  BY DEF NoDownload, Download, NoRemoval, Removal
<1>2. DataTypeOK'
  BY <1>1 DEF DataRestart, IInv, DataTypeOK
<1>. QED
  BY <1>2 DEF DataRestart, IInv, DataTypeOK, FilesBehindRows, Filled

----------------------------------------------------------------------------
LEMMA InitEstablishes == DataInit => IInv
<1>1. NoDownload \in Download /\ NoDownload.left = <<>> /\ NoRemoval \in Removal /\ NoRemoval.at = "idle"
  BY DEF NoDownload, Download, NoRemoval, Removal
<1>. QED
  BY <1>1, FetchAssumption DEF DataInit, IInv, DataTypeOK, FilesBehindRows

LEMMA NextKeeps == IInv /\ [DataNext]_dataVars => IInv'
<1>. SUFFICES ASSUME IInv, [DataNext]_dataVars PROVE IInv'
  OBVIOUS
<1>1. ASSUME NEW q \in Downloads, NEW ids \in Wishes, NEW dir \in Dirs, RequestDownload(q, ids, dir)
      PROVE  IInv'
  BY <1>1, RequestDownloadKeeps
<1>2. ASSUME NEW q \in Downloads, NEW extent \in Extents, FetchOk(q, extent)
      PROVE  IInv'
  BY <1>2, FetchOkKeeps
<1>3. ASSUME NEW q \in Downloads, NEW extent \in Extents, NEW kind \in Kinds, WriteFails(q, kind, extent)
      PROVE  IInv'
  BY <1>3, WriteFailsKeeps
<1>4. ASSUME NEW q \in Downloads, FetchFails(q)
      PROVE  IInv'
  BY <1>4, FetchFailsKeeps
<1>5. ASSUME NEW d \in Deletes, NEW id \in DatasetIds, StartDelete(d, id)
      PROVE  IInv'
  BY <1>5, StartDeleteKeeps
<1>6. ASSUME NEW d \in Deletes, NEW kind \in Kinds, Unlink(d, kind)
      PROVE  IInv'
  BY <1>6, UnlinkKeeps
<1>7. ASSUME NEW d \in Deletes, Unlinked(d)
      PROVE  IInv'
  BY <1>7, UnlinkedKeeps
<1>8. CASE DataRestart
  BY <1>8, RestartKeeps
<1>9. CASE UNCHANGED dataVars
  BY <1>9 DEF dataVars, IInv, DataTypeOK, FilesBehindRows, Removing, UnlinkedBy, Filled
<1>. QED
  BY <1>1, <1>2, <1>3, <1>4, <1>5, <1>6, <1>7, <1>8, <1>9 DEF DataNext, DataStep

(* Every variable keeps to its type, whatever requests overlap             *)
(* (historicalDataService.js:65-177, :404-417).                            *)
THEOREM DataTypeCorrect == DataSpec => []DataTypeOK
<1>1. IInv => DataTypeOK
  BY DEF IInv
<1>. QED
  BY <1>1, InitEstablishes, NextKeeps, PTL DEF DataSpec

(* No interleaving of downloads, for any number of datasets, directories   *)
(* and requests, with deletes leaves a row without its files, but for a    *)
(* crash or a failing write (historicalDataService.js:139-168, :404-417).  *)
THEOREM FilesStayBehindRows == DataSpec => []FilesBehindRows
<1>1. IInv => FilesBehindRows
  BY DEF IInv
<1>. QED
  BY <1>1, InitEstablishes, NextKeeps, PTL DEF DataSpec

----------------------------------------------------------------------------
(* Training                                                                *)

TrainingRecord == [at : {"idle", "probing", "running"}, file : Disk \cup {NoModel},
                   symbol : ModelSymbols \cup {NoModel}, promote : BOOLEAN]

Process == [at : {"none", "loading", "fitting", "wrote", "failed"}, file : Disk \cup {NoModel},
            read : Extents \cup {NoModel}, model : ModelIds \cup {NoModel}]

Statuses == {"candidate", "champion", "archived"}

ModelRow == [modelId : ModelIds, symbol : ModelSymbols, status : Statuses, dataset : Extents]

RequestsTyped ==
  /\ training \in [Trainings -> TrainingRecord]
  /\ \A t \in Trainings : training[t].at # "idle" => training[t].file \in Disk /\ training[t].symbol \in ModelSymbols

ProcessesTyped ==
  /\ child \in [Trainings -> Process]
  /\ \A t \in Trainings : child[t].at \in {"fitting", "wrote"} => child[t].read \in Extents

(* The models on the disk are numbered as they were written. *)
ArtifactsCounted ==
  \E n \in 0 .. MaxModels : DOMAIN artifacts = 1 .. n /\ artifacts \in [1 .. n -> Extents]

(* What a process wrote is an artifact of its own: no other process wrote  *)
(* it and it is not registered yet, and it holds what the process read.    *)
WrittenOnce ==
  \A t \in Trainings : child[t].at = "wrote" =>
    /\ child[t].model \in DOMAIN artifacts /\ artifacts[child[t].model] = child[t].read
    /\ \A i \in DOMAIN models : models[i].modelId # child[t].model
    /\ \A u \in Trainings : child[u].at = "wrote" /\ child[u].model = child[t].model => u = t

(* A model is registered once. *)
RegisteredOnce ==
  /\ models \in Seq(ModelRow)
  /\ \A i, j \in DOMAIN models : models[i].modelId = models[j].modelId => i = j

TrainInv ==
  /\ IInv /\ RequestsTyped /\ ProcessesTyped /\ ArtifactsCounted
  /\ WrittenOnce /\ RegisteredOnce /\ ModelTellsItsData

LEMMA TrainInvParts ==
  TrainInv => /\ IInv /\ RequestsTyped /\ ProcessesTyped /\ ArtifactsCounted
              /\ WrittenOnce /\ RegisteredOnce /\ ModelTellsItsData
BY DEF TrainInv

(* Whoever changes only the datasets' variables leaves the files on disk.  *)
LEMMA DataStepKeepsTraining ==
  ASSUME TrainInv, IInv', UNCHANGED trainVars
  PROVE  TrainInv'
BY DEF TrainInv, trainVars, RequestsTyped, ProcessesTyped, ArtifactsCounted, WrittenOnce, RegisteredOnce,
       ModelTellsItsData

LEMMA DataUnchanged == IInv /\ UNCHANGED dataVars => IInv'
BY NextKeeps

(* A step of a process or a request that neither writes an artifact nor    *)
(* registers a model, and gives no process a model.                        *)
LEMMA QuietKeeps ==
  ASSUME TrainInv, IInv', RequestsTyped', ProcessesTyped', UNCHANGED <<artifacts, models>>,
         \A t \in Trainings : child'[t].at = "wrote" => child'[t] = child[t]
  PROVE  TrainInv'
<1>1. ArtifactsCounted' /\ RegisteredOnce' /\ ModelTellsItsData'
  BY DEF TrainInv, ArtifactsCounted, RegisteredOnce, ModelTellsItsData
<1>2. WrittenOnce'
  BY DEF TrainInv, WrittenOnce
<1>. QED
  BY <1>1, <1>2 DEF TrainInv

LEMMA FileForOnDisk ==
  ASSUME IInv, NEW id \in DatasetIds, rows[id] # NoRow, NEW named \in BOOLEAN, FileFor(id, named) # NoModel
  PROVE  FileFor(id, named) \in Disk
<1>1. rows[id] \in Dirs
  BY DEF IInv, DataTypeOK
<1>2. File(id, rows[id], "csv") \in Disk /\ File(id, rows[id], "json") \in Disk
  BY <1>1, FileOnDisk DEF Kinds
<1>. QED
  BY <1>2 DEF FileFor

LEMMA RequestStepKeeps ==
  ASSUME TrainInv, NEW t \in Trainings,
         \/ ProbeOk(t) \/ ProbeFails(t) \/ TrainingTimesOut(t)
         \/ \E id \in DatasetIds, named \in BOOLEAN, symbol \in ModelSymbols, promote \in BOOLEAN :
              StartTraining(t, id, named, symbol, promote)
  PROVE  TrainInv'
<1>1. RequestsTyped /\ ProcessesTyped /\ IInv
  BY DEF TrainInv
<1>2. IInv' /\ UNCHANGED <<artifacts, models>>
  BY <1>1, DataUnchanged DEF ProbeOk, ProbeFails, TrainingTimesOut, StartTraining
<1>3. NoTraining \in TrainingRecord /\ NoTraining.at = "idle" /\ NoChild \in Process /\ NoChild.at = "none"
  BY DEF NoTraining, TrainingRecord, NoChild, Process
<1>4. ASSUME NEW id \in DatasetIds, NEW named \in BOOLEAN, NEW symbol \in ModelSymbols, NEW promote \in BOOLEAN,
             StartTraining(t, id, named, symbol, promote)
      PROVE  TrainInv'
  <2>1. FileFor(id, named) \in Disk
    BY <1>1, <1>4, FileForOnDisk DEF StartTraining
  <2>2. RequestsTyped'
    BY <1>1, <1>4, <2>1 DEF StartTraining, RequestsTyped, TrainingRecord
  <2>. QED
    BY <1>1, <1>2, <1>4, <2>2, QuietKeeps DEF StartTraining, ProcessesTyped
<1>5. CASE ProbeOk(t)
  <2>1. RequestsTyped'
    BY <1>1, <1>5 DEF ProbeOk, RequestsTyped, TrainingRecord
  <2>2. [NoChild EXCEPT !.at = "loading", !.file = training[t].file] \in Process
    BY <1>1, <1>3 DEF RequestsTyped, Process, TrainingRecord
  <2>3. [NoChild EXCEPT !.at = "loading", !.file = training[t].file].at = "loading"
    BY <1>3 DEF Process
  <2>4. ProcessesTyped' /\ \A u \in Trainings : child'[u].at = "wrote" => child'[u] = child[u]
    BY <1>1, <1>5, <2>2, <2>3 DEF ProbeOk, ProcessesTyped
  <2>. QED
    BY <1>2, <2>1, <2>4, QuietKeeps
<1>6. CASE ProbeFails(t)
  <2>1. RequestsTyped' /\ ProcessesTyped' /\ UNCHANGED child
    BY <1>1, <1>3, <1>6 DEF ProbeFails, RequestsTyped, ProcessesTyped
  <2>. QED
    BY <1>2, <2>1, QuietKeeps
<1>7. CASE TrainingTimesOut(t)
  <2>1. RequestsTyped'
    BY <1>1, <1>3, <1>7 DEF TrainingTimesOut, RequestsTyped
  <2>2. child' = child \/ child' = [child EXCEPT ![t].at = "failed"]
    BY <1>7 DEF TrainingTimesOut
  <2>3. ProcessesTyped' /\ \A u \in Trainings : child'[u].at = "wrote" => child'[u] = child[u]
    BY <1>1, <2>2 DEF ProcessesTyped, Process
  <2>. QED
    BY <1>2, <2>1, <2>3, QuietKeeps
<1>. QED
  BY <1>4, <1>5, <1>6, <1>7

LEMMA ChildQuietKeeps ==
  ASSUME TrainInv, NEW t \in Trainings, ChildLoads(t) \/ ChildFails(t)
  PROVE  TrainInv'
<1>1. RequestsTyped /\ ProcessesTyped /\ IInv
  BY DEF TrainInv
<1>2. IInv' /\ UNCHANGED <<training, artifacts, models>>
  BY <1>1, DataUnchanged DEF ChildLoads, ChildFails
<1>3. RequestsTyped'
  BY <1>1, <1>2 DEF RequestsTyped
<1>4. CASE child' = [child EXCEPT ![t].at = "failed"]
  <2>1. ProcessesTyped' /\ \A u \in Trainings : child'[u].at = "wrote" => child'[u] = child[u]
    BY <1>1, <1>4 DEF ProcessesTyped, Process
  <2>. QED
    BY <1>2, <1>3, <2>1, QuietKeeps
<1>5. CASE /\ Filled(child[t].file)
           /\ child' = [child EXCEPT ![t] = [@ EXCEPT !.at = "fitting", !.read = files[child[t].file]]]
  <2>1. [child[t] EXCEPT !.at = "fitting", !.read = files[child[t].file]] \in Process
    BY <1>1, <1>5 DEF ProcessesTyped, Process, Filled
  <2>2. [child[t] EXCEPT !.at = "fitting", !.read = files[child[t].file]].at = "fitting"
        /\ [child[t] EXCEPT !.at = "fitting", !.read = files[child[t].file]].read \in Extents
    BY <1>1, <1>5 DEF ProcessesTyped, Process, Filled
  <2>3. ProcessesTyped' /\ \A u \in Trainings : child'[u].at = "wrote" => child'[u] = child[u]
    BY <1>1, <1>5, <2>1, <2>2 DEF ProcessesTyped
  <2>. QED
    BY <1>2, <1>3, <2>3, QuietKeeps
<1>6. [child EXCEPT ![t] = [@ EXCEPT !.at = "failed"]] = [child EXCEPT ![t].at = "failed"]
  OBVIOUS
<1>. QED
  BY <1>4, <1>5, <1>6 DEF ChildLoads, ChildFails

LEMMA ChildWritesKeeps ==
  ASSUME TrainInv, NEW t \in Trainings, ChildWrites(t)
  PROVE  TrainInv'
<1>1. RequestsTyped /\ ProcessesTyped /\ IInv /\ WrittenOnce /\ RegisteredOnce /\ ModelTellsItsData
  BY DEF TrainInv
<1>2. PICK n \in 0 .. MaxModels : DOMAIN artifacts = 1 .. n /\ artifacts \in [1 .. n -> Extents]
  BY DEF TrainInv, ArtifactsCounted
<1>3. Cardinality(DOMAIN artifacts) = n /\ n \in Nat
  BY <1>2, ModelAssumption, FS_Interval
<1>4. /\ n + 1 \in ModelIds /\ child[t].at = "fitting" /\ child[t].read \in Extents
      /\ artifacts' = [x \in 1 .. n \cup {n + 1} |-> IF x = n + 1 THEN child[t].read ELSE artifacts[x]]
      /\ child' = [child EXCEPT ![t].at = "wrote", ![t].model = n + 1]
      /\ UNCHANGED <<training, models>> /\ UNCHANGED dataVars
  BY <1>1, <1>2, <1>3 DEF ChildWrites, ProcessesTyped
<1>5. 1 .. n \cup {n + 1} = 1 .. n + 1 /\ n + 1 \in 0 .. MaxModels
  BY <1>3, <1>4 DEF ModelIds
<1>6. DOMAIN artifacts' = 1 .. n + 1 /\ artifacts' \in [1 .. n + 1 -> Extents]
      /\ artifacts'[n + 1] = child[t].read /\ \A m \in DOMAIN artifacts : artifacts'[m] = artifacts[m]
  BY <1>2, <1>3, <1>4, <1>5
<1>7. ArtifactsCounted'
  BY <1>5, <1>6 DEF ArtifactsCounted
<1>8. /\ child' \in [Trainings -> Process]
      /\ child'[t].at = "wrote" /\ child'[t].model = n + 1 /\ child'[t].read = child[t].read
      /\ \A u \in Trainings \ {t} : child'[u] = child[u]
  BY <1>1, <1>4 DEF ProcessesTyped, Process
<1>9. ProcessesTyped' /\ RequestsTyped' /\ RegisteredOnce' /\ IInv'
  BY <1>1, <1>4, <1>8, DataUnchanged DEF ProcessesTyped, RequestsTyped, RegisteredOnce
<1>10. DOMAIN artifacts \subseteq DOMAIN artifacts' /\ n + 1 \in DOMAIN artifacts' /\ n + 1 \notin DOMAIN artifacts
       /\ models' = models
  BY <1>2, <1>3, <1>4, <1>6
<1>11. ModelTellsItsData'
  BY <1>1, <1>6, <1>10 DEF ModelTellsItsData
<1>12. \A i \in DOMAIN models : models[i].modelId # n + 1
  BY <1>1, <1>10 DEF ModelTellsItsData
<1>13. ASSUME NEW u \in Trainings, child'[u].at = "wrote", u # t
       PROVE  /\ child'[u].model \in DOMAIN artifacts /\ artifacts'[child'[u].model] = child'[u].read
              /\ \A i \in DOMAIN models : models[i].modelId # child'[u].model
              /\ \A v \in Trainings : child'[v].at = "wrote" /\ child'[v].model = child'[u].model => v = u
  BY <1>1, <1>6, <1>8, <1>10, <1>13 DEF WrittenOnce
<1>14. WrittenOnce'
  BY <1>6, <1>8, <1>10, <1>12, <1>13 DEF WrittenOnce
<1>. QED
  BY <1>7, <1>9, <1>11, <1>14 DEF TrainInv

(* What the registry must keep, of any list of models.                     *)
RowsOnce(ms) == ms \in Seq(ModelRow) /\ \A i, j \in DOMAIN ms : ms[i].modelId = ms[j].modelId => i = j
OneLeads(ms) == \A i, j \in DOMAIN ms : ms[i].status = "champion" /\ ms[j].status = "champion" => i = j

(* Promoting leaves the champion the only one, and touches statuses only.  *)
LEMMA PromoteLeadsOne ==
  ASSUME NEW ms, RowsOnce(ms), NEW m
  PROVE  /\ RowsOnce(Promote(ms, m)) /\ OneLeads(Promote(ms, m))
         /\ DOMAIN Promote(ms, m) = DOMAIN ms
         /\ \A i \in DOMAIN ms : Promote(ms, m)[i].modelId = ms[i].modelId /\ Promote(ms, m)[i].dataset = ms[i].dataset
<1>. DEFINE row(i) == [ms[i] EXCEPT !.status =
                         IF ms[i].modelId = m THEN "champion" ELSE IF @ = "champion" THEN "archived" ELSE @]
<1>1. ms \in Seq(ModelRow) /\ DOMAIN ms = 1 .. Len(ms) /\ Len(ms) \in Nat /\ \A i \in 1 .. Len(ms) : ms[i] \in ModelRow
  BY DEF RowsOnce
<1>2. \A i \in 1 .. Len(ms) : row(i) \in ModelRow
  BY <1>1 DEF ModelRow, Statuses
<1>3. \A i \in 1 .. Len(ms) : /\ row(i).modelId = ms[i].modelId /\ row(i).dataset = ms[i].dataset
                              /\ row(i).status = "champion" => ms[i].modelId = m
  BY <1>1 DEF ModelRow
<1>4. Promote(ms, m) = [i \in 1 .. Len(ms) |-> row(i)]
  BY <1>1 DEF Promote
<1>. HIDE DEF row
<1>5. Promote(ms, m) \in Seq(ModelRow)
  BY <1>1, <1>2, <1>4, IsASeq
<1>6. DOMAIN Promote(ms, m) = 1 .. Len(ms) /\ \A i \in 1 .. Len(ms) : Promote(ms, m)[i] = row(i)
  BY <1>4
<1>7. \A i, j \in 1 .. Len(ms) : ms[i].modelId = ms[j].modelId => i = j
  BY <1>1 DEF RowsOnce
<1>. QED
  BY <1>1, <1>3, <1>5, <1>6, <1>7 DEF RowsOnce, OneLeads

(* A model that is new to the registry is put first.                       *)
LEMMA RegisterFirst ==
  ASSUME NEW ms, RowsOnce(ms), OneLeads(ms), NEW m \in ModelRow, m.status = "candidate",
         \A i \in DOMAIN ms : ms[i].modelId # m.modelId
  PROVE  /\ RowsOnce(Register(ms, m)) /\ OneLeads(Register(ms, m))
         /\ \A i \in DOMAIN Register(ms, m) :
              Register(ms, m)[i] = m \/ \E j \in DOMAIN ms : Register(ms, m)[i] = ms[j]
<1>1. ms \in Seq(ModelRow) /\ DOMAIN ms = 1 .. Len(ms) /\ Len(ms) \in Nat
  BY DEF RowsOnce
<1>2. <<m>> \in Seq(ModelRow) /\ Len(<<m>>) = 1 /\ <<m>>[1] = m
  OBVIOUS
<1>3. /\ Register(ms, m) \in Seq(ModelRow) /\ Len(Register(ms, m)) = 1 + Len(ms)
      /\ \A i \in 1 .. 1 + Len(ms) : Register(ms, m)[i] = IF i <= 1 THEN m ELSE ms[i - 1]
  BY <1>1, <1>2, ConcatProperties DEF Register
<1>4. DOMAIN Register(ms, m) = 1 .. 1 + Len(ms)
  BY <1>3
<1>5. Register(ms, m)[1] = m /\ \A i \in DOMAIN Register(ms, m) : i # 1 =>
        i - 1 \in DOMAIN ms /\ Register(ms, m)[i] = ms[i - 1]
  BY <1>1, <1>3, <1>4
<1>6. \A i, j \in DOMAIN ms : /\ ms[i].modelId = ms[j].modelId => i = j
                              /\ ms[i].status = "champion" /\ ms[j].status = "champion" => i = j
  BY DEF RowsOnce, OneLeads
<1>7. \A i, j \in DOMAIN Register(ms, m) : Register(ms, m)[i].modelId = Register(ms, m)[j].modelId => i = j
  BY <1>4, <1>5, <1>6
<1>8. OneLeads(Register(ms, m))
  BY <1>4, <1>5, <1>6 DEF OneLeads
<1>. QED
  BY <1>3, <1>5, <1>7, <1>8 DEF RowsOnce

LEMMA PromoteModelKeeps ==
  ASSUME TrainInv, NEW m \in ModelIds, PromoteModel(m)
  PROVE  TrainInv'
<1>1. RequestsTyped /\ ProcessesTyped /\ IInv /\ ArtifactsCounted /\ WrittenOnce /\ RegisteredOnce /\ ModelTellsItsData
  BY DEF TrainInv
<1>2. models' = Promote(models, m) /\ UNCHANGED <<training, child, artifacts>> /\ IInv'
  BY <1>1, DataUnchanged DEF PromoteModel
<1>3. /\ RowsOnce(models') /\ OneLeads(models') /\ DOMAIN models' = DOMAIN models
      /\ \A i \in DOMAIN models : models'[i].modelId = models[i].modelId /\ models'[i].dataset = models[i].dataset
  BY <1>1, <1>2, PromoteLeadsOne DEF RegisteredOnce, RowsOnce
<1>4. RequestsTyped' /\ ProcessesTyped' /\ ArtifactsCounted'
  BY <1>1, <1>2 DEF RequestsTyped, ProcessesTyped, ArtifactsCounted
<1>5. WrittenOnce'
  BY <1>1, <1>2, <1>3 DEF WrittenOnce
<1>6. RegisteredOnce' /\ ModelTellsItsData'
  BY <1>1, <1>2, <1>3 DEF RegisteredOnce, RowsOnce, ModelTellsItsData, OneLeads
<1>. QED
  BY <1>2, <1>4, <1>5, <1>6 DEF TrainInv

LEMMA ChildClosesKeeps ==
  ASSUME TrainInv, NEW t \in Trainings, ChildCloses(t)
  PROVE  TrainInv'
<1>1. RequestsTyped /\ ProcessesTyped /\ IInv /\ ArtifactsCounted /\ WrittenOnce /\ RegisteredOnce /\ ModelTellsItsData
  BY DEF TrainInv
<1>2. /\ training' = IF training[t].at = "running" THEN [training EXCEPT ![t] = NoTraining] ELSE training
      /\ child' = [child EXCEPT ![t] = NoChild] /\ UNCHANGED artifacts /\ IInv'
  BY <1>1, DataUnchanged DEF ChildCloses
<1>3. NoTraining \in TrainingRecord /\ NoTraining.at = "idle" /\ NoChild \in Process /\ NoChild.at = "none"
  BY DEF NoTraining, TrainingRecord, NoChild, Process
<1>4. RequestsTyped'
  BY <1>1, <1>2, <1>3 DEF RequestsTyped
<1>5. /\ child'[t] = NoChild /\ \A u \in Trainings \ {t} : child'[u] = child[u]
      /\ \A u \in Trainings : child'[u].at = "wrote" => u # t /\ child'[u] = child[u]
  BY <1>1, <1>2, <1>3 DEF ProcessesTyped
<1>6. ProcessesTyped'
  BY <1>1, <1>2, <1>3, <1>5 DEF ProcessesTyped
<1>7. ArtifactsCounted'
  BY <1>1, <1>2 DEF ArtifactsCounted
<1>8. CASE models' = models
  <2>1. WrittenOnce'
    BY <1>1, <1>2, <1>5, <1>8 DEF WrittenOnce
  <2>2. RegisteredOnce' /\ ModelTellsItsData'
    BY <1>1, <1>2, <1>8 DEF RegisteredOnce, ModelTellsItsData
  <2>. QED
    BY <1>2, <1>4, <1>6, <1>7, <2>1, <2>2 DEF TrainInv
<1>9. CASE training[t].at = "running" /\ child[t].at = "wrote"
  <2>. DEFINE m == child[t].model
              row == Model(m, training[t].symbol, "candidate", DatasetHash(t))
              registered == Register(models, row)
  <2>1. m \in DOMAIN artifacts /\ artifacts[m] = child[t].read /\ \A i \in DOMAIN models : models[i].modelId # m
    BY <1>1, <1>9 DEF WrittenOnce
  <2>2. m \in ModelIds
    BY <1>1, <2>1, ModelAssumption DEF ArtifactsCounted, ModelIds
  <2>3. child[t].read \in Extents /\ training[t].symbol \in ModelSymbols
    BY <1>1, <1>9 DEF ProcessesTyped, RequestsTyped
  <2>4. row \in ModelRow /\ row.modelId = m /\ row.status = "candidate" /\ row.dataset = child[t].read
    BY <2>2, <2>3 DEF Model, ModelRow, Statuses, DatasetHash
  <2>5. RowsOnce(models) /\ OneLeads(models)
    BY <1>1 DEF RegisteredOnce, RowsOnce, ModelTellsItsData, OneLeads
  <2>6. models' = IF training[t].promote THEN Promote(registered, m) ELSE registered
    BY <1>9 DEF ChildCloses
  <2>. HIDE DEF m, row
  <2>7. /\ RowsOnce(registered) /\ OneLeads(registered)
        /\ \A i \in DOMAIN registered : registered[i] = row \/ \E j \in DOMAIN models : registered[i] = models[j]
    BY <2>1, <2>4, <2>5, RegisterFirst
  <2>. HIDE DEF registered
  <2>8. /\ RowsOnce(models') /\ OneLeads(models') /\ DOMAIN models' = DOMAIN registered
        /\ \A i \in DOMAIN registered :
             models'[i].modelId = registered[i].modelId /\ models'[i].dataset = registered[i].dataset
    BY <2>6, <2>7, PromoteLeadsOne
  <2>9. \A i \in DOMAIN models' :
          \/ models'[i].modelId = m /\ models'[i].dataset = artifacts[m]
          \/ \E j \in DOMAIN models : models'[i].modelId = models[j].modelId /\ models'[i].dataset = models[j].dataset
    BY <2>1, <2>4, <2>7, <2>8
  <2>10. RegisteredOnce' /\ ModelTellsItsData'
    BY <1>1, <1>2, <2>1, <2>8, <2>9 DEF RegisteredOnce, RowsOnce, ModelTellsItsData, OneLeads
  <2>11. ASSUME NEW u \in Trainings, child'[u].at = "wrote"
         PROVE  /\ child'[u].model \in DOMAIN artifacts /\ artifacts[child'[u].model] = child'[u].read
                /\ \A i \in DOMAIN models' : models'[i].modelId # child'[u].model
                /\ \A v \in Trainings : child'[v].at = "wrote" /\ child'[v].model = child'[u].model => v = u
    <3>1. u # t /\ child'[u] = child[u] /\ child[u].model # m
      BY <1>1, <1>5, <1>9, <2>11 DEF WrittenOnce, m
    <3>2. \A j \in DOMAIN models : models[j].modelId # child[u].model
      BY <1>1, <2>11, <3>1 DEF WrittenOnce
    <3>. QED
      BY <1>1, <1>5, <2>9, <2>11, <3>1, <3>2 DEF WrittenOnce
  <2>12. WrittenOnce'
    BY <1>2, <2>11 DEF WrittenOnce
  <2>. QED
    BY <1>2, <1>4, <1>6, <1>7, <2>10, <2>12 DEF TrainInv
<1>. QED
  BY <1>8, <1>9 DEF ChildCloses

LEMMA TrainRestartKeeps ==
  ASSUME TrainInv, TrainRestart
  PROVE  TrainInv'
<1>1. IInv' /\ training' = [t \in Trainings |-> NoTraining] /\ UNCHANGED <<child, artifacts, models>>
  BY NextKeeps DEF TrainRestart, TrainInv, DataNext
<1>2. RequestsTyped'
  BY <1>1 DEF RequestsTyped, NoTraining, TrainingRecord
<1>. QED
  BY <1>1, <1>2, QuietKeeps DEF TrainInv, ProcessesTyped

LEMMA TrainStarts == TrainInit => TrainInv
<1>. SUFFICES ASSUME TrainInit PROVE TrainInv
  OBVIOUS
<1>1. IInv
  BY InitEstablishes DEF TrainInit
<1>2. RequestsTyped /\ ProcessesTyped
  BY DEF TrainInit, RequestsTyped, ProcessesTyped, NoTraining, NoChild, TrainingRecord, Process
<1>3. DOMAIN artifacts = {} /\ 1 .. 0 = {} /\ 0 \in 0 .. MaxModels
  BY ModelAssumption DEF TrainInit
<1>4. ArtifactsCounted
  BY <1>3 DEF TrainInit, ArtifactsCounted
<1>5. WrittenOnce /\ RegisteredOnce /\ ModelTellsItsData
  BY DEF TrainInit, WrittenOnce, RegisteredOnce, ModelTellsItsData, NoChild
<1>. QED
  BY <1>1, <1>2, <1>4, <1>5 DEF TrainInv

LEMMA TrainStepKeeps == TrainInv /\ [TrainNext]_allTrainVars => TrainInv'
<1>. SUFFICES ASSUME TrainInv, [TrainNext]_allTrainVars PROVE TrainInv'
  OBVIOUS
<1>1. CASE UNCHANGED allTrainVars
  BY <1>1, DataUnchanged, DataStepKeepsTraining DEF allTrainVars, TrainInv
<1>2. CASE DataStep /\ UNCHANGED trainVars
  BY <1>2, NextKeeps, DataStepKeepsTraining DEF DataNext, TrainInv
<1>3. ASSUME NEW t \in Trainings,
             ChildLoads(t) \/ ChildWrites(t) \/ ChildFails(t) \/ ChildCloses(t)
      PROVE  TrainInv'
  BY <1>3, ChildQuietKeeps, ChildWritesKeeps, ChildClosesKeeps
<1>. QED
  BY <1>1, <1>2, <1>3, RequestStepKeeps, PromoteModelKeeps, TrainRestartKeeps DEF TrainNext

LEMMA TrainTypes == TrainInv => TrainTypeOK
<1>. SUFFICES ASSUME TrainInv PROVE TrainTypeOK
  OBVIOUS
<1>1. DOMAIN files = Disk
  BY DEF TrainInv, IInv, DataTypeOK, Disk
<1>2. \A t \in Trainings :
        /\ training[t].at \in {"idle", "probing", "running"}
        /\ child[t].at \in {"none", "loading", "fitting", "wrote", "failed"}
  BY DEF TrainInv, RequestsTyped, TrainingRecord, ProcessesTyped, Process
<1>3. DOMAIN artifacts \subseteq ModelIds /\ \A m \in DOMAIN artifacts : artifacts[m] \in Extents
  BY ModelAssumption DEF TrainInv, ArtifactsCounted, ModelIds
<1>4. \A i \in DOMAIN models : models[i] \in ModelRow
  BY DEF TrainInv, RegisteredOnce
<1>. QED
  BY <1>1, <1>2, <1>3, <1>4 DEF TrainInv, RequestsTyped, WrittenOnce, TrainTypeOK, ModelRow, Statuses

(* Requests, processes, artifacts and the registry keep to their types     *)
(* (trainingService.js, modelRegistry.js).                                 *)
THEOREM TrainTypeCorrect == TrainSpec => []TrainTypeOK
<1>. QED
  BY TrainTypes, TrainStarts, TrainStepKeeps, PTL DEF TrainSpec

(* For any number of datasets, requests and processes, whatever is         *)
(* downloaded again, deleted, killed or restarted meanwhile: a registered  *)
(* model tells the extent of the data it was trained on, and one model at  *)
(* most is the champion (trainingService.js:434-448,                       *)
(* modelRegistry.js:92-108).                                               *)
THEOREM ModelsTellTheirData == TrainSpec => []ModelTellsItsData
<1>1. TrainInv => ModelTellsItsData
  BY DEF TrainInv
<1>. QED
  BY <1>1, TrainStarts, TrainStepKeeps, PTL DEF TrainSpec

----------------------------------------------------------------------------
(* The strategy lab                                                        *)

Attachment == [at : {"finding", "updating", "written", "lost"}, id : MongoIds, kind : ResultKinds,
               result : Result, seen : Strategy \cup {Unused}]

StoresTyped ==
  /\ connected \in BOOLEAN /\ results \in 0 .. MaxResults
  /\ mongo \in [MongoIds -> Strategy \cup {Unused, Gone}]
  /\ memory \in [MemoryIds -> Strategy \cup {Unused, Gone}]
  /\ kept \subseteq MongoIds \X ResultKinds \X (1 .. MaxResults)
  /\ raced \subseteq 1 .. MaxResults

(* An attachment that has read its strategy still holds what it read.      *)
AttachmentsTyped ==
  /\ attaching \in [Attachments -> Attachment \cup {NoAttachment}]
  /\ \A a \in Attachments : attaching[a].at \in {"updating", "lost"} => attaching[a].seen \in Strategy

(* An id that anything names was used.                                     *)
NamedWasUsed ==
  /\ \A a \in Attachments : attaching[a].at # "idle" => mongo[attaching[a].id] # Unused
  /\ \A k \in kept : mongo[k[1]] # Unused

(* The results that must be in their strategy: written and not raced.      *)
Attests(id, kind, n) ==
  \/ <<id, kind, n>> \in kept
  \/ \E a \in Attachments : /\ attaching[a].at = "written" /\ attaching[a].id = id
                            /\ attaching[a].kind = kind /\ attaching[a].result.number = n

Owed(id, kind, n) == n \notin raced /\ id \in Living(mongo) /\ Attests(id, kind, n)

Lists(strategy, kind, n) == \E i \in DOMAIN strategy[kind] : strategy[kind][i].number = n

OwedAreListed ==
  \A id \in MongoIds, kind \in ResultKinds, n \in 1 .. MaxResults :
    Owed(id, kind, n) => Lists(mongo[id], kind, n)

(* Whoever will write the list of these results has read them.             *)
WritersHaveRead ==
  \A id \in MongoIds, kind \in ResultKinds, n \in 1 .. MaxResults, b \in Attachments :
    /\ Owed(id, kind, n)
    /\ attaching[b].at \in {"updating", "lost"} /\ attaching[b].id = id /\ attaching[b].kind = kind
    => Lists(attaching[b].seen, kind, n)

LabInv ==
  /\ StoresTyped /\ AttachmentsTyped /\ NamedWasUsed
  /\ OwedAreListed /\ WritersHaveRead /\ StatusTellsLastValidation

MemoryFine ==
  /\ memory \in [MemoryIds -> Strategy \cup {Unused, Gone}]
  /\ \A id \in MemoryIds : memory[id] \in Strategy => memory[id].status # "validated"

(* The status of a strategy and its last validation.                       *)
Tells(strategy) ==
  strategy.status = "validated" <=> strategy.validation # <<>> /\ strategy.validation[Len(strategy.validation)].met

LEMMA LivingAreStrategies ==
  ASSUME NEW Ids, NEW store \in [Ids -> Strategy \cup {Unused, Gone}]
  PROVE  Living(store) = {id \in Ids : store[id] \in Strategy}
BY MarkAssumption DEF Living

LEMMA LabParts ==
  ASSUME LabInv
  PROVE  /\ StoresTyped /\ AttachmentsTyped /\ NamedWasUsed /\ OwedAreListed /\ WritersHaveRead /\ MemoryFine
         /\ Living(mongo) = {id \in MongoIds : mongo[id] \in Strategy}
         /\ \A id \in MongoIds : mongo[id] \in Strategy => Tells(mongo[id])
<1>1. mongo \in [MongoIds -> Strategy \cup {Unused, Gone}] /\ memory \in [MemoryIds -> Strategy \cup {Unused, Gone}]
  BY DEF LabInv, StoresTyped
<1>2. /\ Living(mongo) = {id \in MongoIds : mongo[id] \in Strategy}
      /\ Living(memory) = {id \in MemoryIds : memory[id] \in Strategy}
  BY <1>1, LivingAreStrategies
<1>. QED
  BY <1>1, <1>2 DEF LabInv, StatusTellsLastValidation, MemoryFine, Tells

LEMMA StatusFromParts ==
  ASSUME StoresTyped, MemoryFine, \A id \in MongoIds : mongo[id] \in Strategy => Tells(mongo[id])
  PROVE  StatusTellsLastValidation
<1>1. /\ Living(mongo) = {id \in MongoIds : mongo[id] \in Strategy}
      /\ Living(memory) = {id \in MemoryIds : memory[id] \in Strategy}
  BY LivingAreStrategies DEF StoresTyped
<1>. QED
  BY <1>1 DEF StatusTellsLastValidation, MemoryFine, Tells

(* Both hold of the next state as well, to be cited of a step.             *)
LEMMA NextStatus ==
  ASSUME StoresTyped', MemoryFine', \A id \in MongoIds : mongo'[id] \in Strategy => Tells(mongo'[id])
  PROVE  /\ StatusTellsLastValidation'
         /\ Living(mongo)' = {id \in MongoIds : mongo'[id] \in Strategy}
<1>1. mongo' \in [MongoIds -> Strategy \cup {Unused, Gone}] /\ memory' \in [MemoryIds -> Strategy \cup {Unused, Gone}]
  BY DEF StoresTyped
<1>2. /\ Living(mongo') = {id \in MongoIds : mongo'[id] \in Strategy}
      /\ Living(memory') = {id \in MemoryIds : memory'[id] \in Strategy}
  BY <1>1, LivingAreStrategies
<1>3. StatusTellsLastValidation'
  BY <1>2 DEF StatusTellsLastValidation, MemoryFine, Tells
<1>. QED
  BY <1>2, <1>3

(* Strategies come, go, or stay as they are, and attachments rest.         *)
LEMMA StoreStepKeeps ==
  ASSUME LabInv, UNCHANGED <<attaching, kept, raced>>, StoresTyped', MemoryFine',
         \A id \in MongoIds : mongo'[id] = Unused => mongo[id] = Unused,
         \A id \in MongoIds : mongo'[id] \in Strategy =>
           mongo'[id] = mongo[id] \/ (mongo[id] = Unused /\ Tells(mongo'[id]))
  PROVE  LabInv'
<1>1. /\ StoresTyped /\ AttachmentsTyped /\ NamedWasUsed /\ OwedAreListed /\ WritersHaveRead /\ MemoryFine
      /\ Living(mongo) = {id \in MongoIds : mongo[id] \in Strategy}
      /\ \A id \in MongoIds : mongo[id] \in Strategy => Tells(mongo[id])
  BY LabParts
<1>2. \A id \in MongoIds : mongo'[id] \in Strategy => Tells(mongo'[id])
  BY <1>1
<1>3. StatusTellsLastValidation' /\ Living(mongo)' = {id \in MongoIds : mongo'[id] \in Strategy}
  BY <1>2, NextStatus
<1>4. AttachmentsTyped'
  BY <1>1 DEF AttachmentsTyped
<1>5. NamedWasUsed'
  BY <1>1 DEF NamedWasUsed, AttachmentsTyped, Attachment, NoAttachment, StoresTyped
<1>6. \A id \in MongoIds, kind \in ResultKinds, n \in 1 .. MaxResults :
        Attests(id, kind, n) => mongo[id] # Unused
  BY <1>1 DEF Attests, NamedWasUsed
<1>7. \A id \in MongoIds, kind \in ResultKinds, n \in 1 .. MaxResults :
        Owed(id, kind, n)' => Owed(id, kind, n) /\ mongo'[id] = mongo[id]
  BY <1>1, <1>3, <1>6 DEF Owed, Attests
<1>8. OwedAreListed'
  BY <1>1, <1>7 DEF OwedAreListed
<1>9. WritersHaveRead'
  BY <1>1, <1>7 DEF WritersHaveRead
<1>. QED
  BY <1>3, <1>4, <1>5, <1>8, <1>9 DEF LabInv

(* Attachments come, read, fail or end, and MongoDB rests.                 *)
LEMMA AttachmentStepKeeps ==
  ASSUME LabInv, UNCHANGED <<mongo, raced>>, StoresTyped', MemoryFine', AttachmentsTyped', NamedWasUsed',
         \A id \in MongoIds, kind \in ResultKinds, n \in 1 .. MaxResults :
           Attests(id, kind, n)' => Attests(id, kind, n),
         \A b \in Attachments : attaching'[b].at \in {"updating", "lost"} =>
           \/ attaching'[b].seen = mongo[attaching'[b].id]
           \/ /\ attaching[b].at \in {"updating", "lost"} /\ attaching'[b].id = attaching[b].id
              /\ attaching'[b].kind = attaching[b].kind /\ attaching'[b].seen = attaching[b].seen
  PROVE  LabInv'
<1>1. /\ StoresTyped /\ OwedAreListed /\ WritersHaveRead
      /\ \A id \in MongoIds : mongo[id] \in Strategy => Tells(mongo[id])
  BY LabParts
<1>2. StatusTellsLastValidation'
  BY <1>1, NextStatus
<1>3. \A id \in MongoIds, kind \in ResultKinds, n \in 1 .. MaxResults : Owed(id, kind, n)' => Owed(id, kind, n)
  BY DEF Owed
<1>4. OwedAreListed'
  BY <1>1, <1>3 DEF OwedAreListed
<1>5. WritersHaveRead'
  <2>. SUFFICES ASSUME NEW id \in MongoIds, NEW kind \in ResultKinds, NEW n \in 1 .. MaxResults, NEW b \in Attachments,
                       Owed(id, kind, n)', attaching'[b].at \in {"updating", "lost"},
                       attaching'[b].id = id, attaching'[b].kind = kind
       PROVE  Lists(attaching'[b].seen, kind, n)
    BY DEF WritersHaveRead
  <2>1. Owed(id, kind, n)
    BY <1>3
  <2>2. Lists(mongo[id], kind, n)
    BY <1>1, <2>1 DEF OwedAreListed
  <2>. QED
    BY <1>1, <2>1, <2>2 DEF WritersHaveRead
<1>. QED
  BY <1>2, <1>4, <1>5 DEF LabInv

(* Writing a result back changes its own list, which then ends with it.    *)
Adds(new, now, seen, kind, result) ==
  /\ new \in Strategy /\ Tells(new)
  /\ \A other \in ResultKinds \ {kind} : new[other] = now[other]
  /\ new[kind] = Append(seen[kind], result)

LEMMA AttachedAdds ==
  ASSUME NEW now \in Strategy, NEW seen \in Strategy, NEW kind \in ResultKinds, NEW result \in Result, Tells(now)
  PROVE  Adds(Attached(now, seen, kind, result), now, seen, kind, result)
<1>1. /\ seen.backtest \in Seq(Result) /\ seen.validation \in Seq(Result)
      /\ Append(seen.backtest, result) \in Seq(Result) /\ Append(seen.validation, result) \in Seq(Result)
  BY DEF Strategy
<1>2. CASE kind = "backtest"
  <2>1. Attached(now, seen, kind, result) = [now EXCEPT !.backtest = Append(seen.backtest, result)]
    BY <1>2 DEF Attached
  <2>. QED
    BY <1>1, <1>2, <2>1 DEF Strategy, ResultKinds, Tells, Adds
<1>3. CASE kind = "validation"
  <2>. DEFINE status == IF result.met THEN "validated" ELSE "needs_validation"
              list == Append(seen.validation, result)
  <2>1. Attached(now, seen, kind, result) = [now EXCEPT !.validation = list, !.status = status]
    BY <1>3 DEF Attached, StatusAfter
  <2>2. list \in Seq(Result) /\ list # <<>> /\ list[Len(list)] = result
    BY <1>1
  <2>3. result.met \in BOOLEAN /\ status \in {"validated", "needs_validation"} /\ (status = "validated" <=> result.met)
    BY DEF Result
  <2>. HIDE DEF list, status
  <2>4. Attached(now, seen, kind, result) \in Strategy
    BY <2>1, <2>2, <2>3 DEF Strategy
  <2>5. /\ Attached(now, seen, kind, result).validation = list
        /\ Attached(now, seen, kind, result).status = status
        /\ Attached(now, seen, kind, result).backtest = now.backtest
    BY <2>1 DEF Strategy
  <2>. QED
    BY <1>3, <2>2, <2>3, <2>4, <2>5 DEF Tells, ResultKinds, list, Adds
<1>. QED
  BY <1>2, <1>3 DEF ResultKinds

LEMMA AppendLists ==
  ASSUME NEW old \in Strategy, NEW new \in Strategy, NEW kind \in ResultKinds, NEW result \in Result,
         new[kind] = Append(old[kind], result)
  PROVE  /\ Lists(new, kind, result.number)
         /\ \A n : Lists(old, kind, n) => Lists(new, kind, n)
<1>1. old[kind] \in Seq(Result) /\ new[kind] \in Seq(Result)
  BY DEF Strategy, ResultKinds
<1>2. /\ DOMAIN old[kind] = 1 .. Len(old[kind]) /\ Len(old[kind]) \in Nat
      /\ DOMAIN new[kind] = 1 .. Len(old[kind]) + 1
      /\ new[kind][Len(old[kind]) + 1] = result
      /\ \A i \in 1 .. Len(old[kind]) : new[kind][i] = old[kind][i]
  BY <1>1
<1>3. /\ Len(old[kind]) + 1 \in DOMAIN new[kind]
      /\ \A i \in DOMAIN old[kind] : i \in DOMAIN new[kind] /\ new[kind][i] = old[kind][i]
  BY <1>2
<1>4. ASSUME NEW n, Lists(old, kind, n)
      PROVE  Lists(new, kind, n)
  <2>1. PICK i \in DOMAIN old[kind] : old[kind][i].number = n
    BY <1>4 DEF Lists
  <2>. QED
    BY <1>3, <2>1 DEF Lists
<1>. QED
  BY <1>2, <1>3, <1>4 DEF Lists

LEMMA MongoWithout ==
  ASSUME NEW Ids, NEW store \in [Ids -> Strategy \cup {Unused, Gone}], NEW ids
  PROVE  /\ Removed(store, ids) \in [Ids -> Strategy \cup {Unused, Gone}]
         /\ \A id \in Ids : /\ Removed(store, ids)[id] = Unused => store[id] = Unused
                            /\ Removed(store, ids)[id] \in Strategy => Removed(store, ids)[id] = store[id]
BY MarkAssumption DEF Removed, Living

LEMMA StoreWith ==
  ASSUME NEW Ids, NEW store \in [Ids -> Strategy \cup {Unused, Gone}], NEW status \in SavedStatuses,
         NEW next \in Put(store, status)
  PROVE  /\ next \in [Ids -> Strategy \cup {Unused, Gone}]
         /\ \A id \in Ids : /\ next[id] = Unused => store[id] = Unused
                            /\ next[id] \in Strategy =>
                                 \/ next[id] = store[id]
                                 \/ store[id] = Unused /\ Tells(next[id]) /\ next[id].status # "validated"
<1>1. PICK id \in Ids : store[id] = Unused /\ next = [store EXCEPT ![id] = Saved(status)]
  BY DEF Put
<1>2. Saved(status) \in Strategy /\ Tells(Saved(status)) /\ Saved(status).status # "validated"
  BY DEF Saved, SavedStatuses, Strategy, Tells
<1>. QED
  BY <1>1, <1>2, MarkAssumption

(* Saving, deleting and clearing.                                          *)
LEMMA SaveKeeps ==
  ASSUME LabInv, NEW status \in SavedStatuses, Save(status)
  PROVE  LabInv'
<1>1. StoresTyped /\ MemoryFine
  BY LabParts
<1>2. /\ mongo' = mongo \/ mongo' \in Put(mongo, status)
      /\ memory' = memory \/ memory' \in Put(memory, status)
      /\ UNCHANGED <<connected, attaching, results, kept, raced>>
  BY DEF Save
<1>3. /\ mongo' \in [MongoIds -> Strategy \cup {Unused, Gone}]
      /\ \A id \in MongoIds : mongo'[id] = Unused => mongo[id] = Unused
      /\ \A id \in MongoIds : mongo'[id] \in Strategy =>
           mongo'[id] = mongo[id] \/ (mongo[id] = Unused /\ Tells(mongo'[id]))
  BY <1>1, <1>2, StoreWith DEF StoresTyped
<1>4. MemoryFine'
  BY <1>1, <1>2, StoreWith DEF MemoryFine
<1>5. StoresTyped'
  BY <1>1, <1>2, <1>3, <1>4 DEF StoresTyped, MemoryFine
<1>. QED
  BY <1>2, <1>3, <1>4, <1>5, StoreStepKeeps

LEMMA RemoveKeeps ==
  ASSUME LabInv, Clear \/ \E id \in MongoIds \cup MemoryIds : Delete(id)
  PROVE  LabInv'
<1>1. StoresTyped /\ MemoryFine
  BY LabParts
<1>2. /\ mongo' = mongo \/ \E ids : mongo' = Removed(mongo, ids)
      /\ memory' = memory \/ \E ids : memory' = Removed(memory, ids)
      /\ UNCHANGED <<connected, attaching, results, kept, raced>>
  BY DEF Clear, Delete
<1>3. /\ mongo' \in [MongoIds -> Strategy \cup {Unused, Gone}]
      /\ \A id \in MongoIds : mongo'[id] = Unused => mongo[id] = Unused
      /\ \A id \in MongoIds : mongo'[id] \in Strategy => mongo'[id] = mongo[id]
  BY <1>1, <1>2, MongoWithout DEF StoresTyped
<1>4. MemoryFine'
  BY <1>1, <1>2, MongoWithout DEF MemoryFine
<1>5. StoresTyped'
  BY <1>1, <1>2, <1>3, <1>4 DEF StoresTyped, MemoryFine
<1>. QED
  BY <1>2, <1>3, <1>4, <1>5, StoreStepKeeps

LEMMA AttachInMemoryKeeps ==
  ASSUME LabInv, NEW id \in MemoryIds, NEW kind \in ResultKinds, NEW met \in Criteria(kind),
         AttachInMemory(id, kind, met)
  PROVE  LabInv'
<1>1. StoresTyped /\ MemoryFine
  BY LabParts
<1>2. /\ results < MaxResults /\ results' = results + 1 /\ UNCHANGED <<connected, mongo, attaching, kept, raced>>
      /\ memory' = [memory EXCEPT ![id] = Sanitized(Attached(memory[id], memory[id], kind, NextResult(met)))]
      /\ id \in Living(memory)
  BY DEF AttachInMemory, CountResult
<1>3. met \in BOOLEAN
  BY DEF Criteria
<1>4. memory[id] \in Strategy
  BY <1>1, <1>2, LivingAreStrategies DEF StoresTyped
<1>5. NextResult(met) \in Result /\ results' \in 0 .. MaxResults
  BY <1>1, <1>2, <1>3, ResultAssumption DEF NextResult, Result, StoresTyped
<1>6. Attached(memory[id], memory[id], kind, NextResult(met)) \in Strategy
  <2>. DEFINE new == Attached(memory[id], memory[id], kind, NextResult(met))
              list == Append(memory[id][kind], NextResult(met))
  <2>1. list \in Seq(Result)
    BY <1>4, <1>5 DEF Strategy, ResultKinds
  <2>2. kind = "backtest" => new = [memory[id] EXCEPT !.backtest = list]
    BY DEF Attached
  <2>3. kind = "validation" => \E status \in {"validated", "needs_validation"} :
                                 new = [memory[id] EXCEPT !.validation = list, !.status = status]
    BY DEF Attached, StatusAfter
  <2>. HIDE DEF new, list
  <2>4. new \in Strategy
    BY <1>4, <2>1, <2>2, <2>3 DEF Strategy, ResultKinds
  <2>. QED
    BY <2>4 DEF new
<1>7. /\ Sanitized(Attached(memory[id], memory[id], kind, NextResult(met))) \in Strategy
      /\ Sanitized(Attached(memory[id], memory[id], kind, NextResult(met))).status # "validated"
  BY <1>6 DEF Sanitized, Strategy
<1>8. MemoryFine'
  BY <1>1, <1>2, <1>7 DEF MemoryFine
<1>9. StoresTyped'
  BY <1>1, <1>2, <1>5, <1>8 DEF StoresTyped, MemoryFine
<1>. QED
  BY <1>1, <1>2, <1>8, <1>9, StoreStepKeeps

LEMMA ConnectionKeeps ==
  ASSUME LabInv, Connection
  PROVE  LabInv'
<1>1. StoresTyped /\ MemoryFine
  BY LabParts
<1>2. StoresTyped' /\ MemoryFine'
  BY <1>1 DEF Connection, StoresTyped, MemoryFine
<1>. QED
  BY <1>2, StoreStepKeeps DEF Connection

LEMMA StartAttachKeeps ==
  ASSUME LabInv, NEW a \in Attachments, NEW id \in MongoIds, NEW kind \in ResultKinds, NEW met \in Criteria(kind),
         StartAttach(a, id, kind, met)
  PROVE  LabInv'
<1>1. StoresTyped /\ MemoryFine /\ AttachmentsTyped /\ NamedWasUsed
  BY LabParts
<1>. DEFINE x == [at |-> "finding", id |-> id, kind |-> kind, result |-> NextResult(met), seen |-> Unused]
<1>2. /\ attaching[a].at = "idle" /\ mongo[id] # Unused /\ results < MaxResults /\ results' = results + 1
      /\ attaching' = [attaching EXCEPT ![a] = x] /\ UNCHANGED <<connected, mongo, memory, kept, raced>>
  BY DEF StartAttach, CountResult, Living
<1>3. met \in BOOLEAN
  BY DEF Criteria
<1>4. NextResult(met) \in Result /\ results' \in 0 .. MaxResults
  BY <1>1, <1>2, <1>3, ResultAssumption DEF NextResult, Result, StoresTyped
<1>5. x \in Attachment /\ x.at = "finding" /\ x.id = id
  BY <1>4 DEF Attachment
<1>. HIDE DEF x
<1>6. \A b \in Attachments : attaching'[b] = IF b = a THEN x ELSE attaching[b]
  BY <1>1, <1>2 DEF AttachmentsTyped
<1>7. AttachmentsTyped'
  BY <1>1, <1>2, <1>5, <1>6 DEF AttachmentsTyped
<1>8. NamedWasUsed' /\ StoresTyped' /\ MemoryFine'
  BY <1>1, <1>2, <1>4, <1>5, <1>6 DEF NamedWasUsed, StoresTyped, MemoryFine
<1>9. \A i \in MongoIds, k \in ResultKinds, n \in 1 .. MaxResults : Attests(i, k, n)' => Attests(i, k, n)
  BY <1>2, <1>5, <1>6 DEF Attests
<1>. QED
  BY <1>2, <1>5, <1>6, <1>7, <1>8, <1>9, AttachmentStepKeeps

LEMMA FoundKeeps ==
  ASSUME LabInv, NEW a \in Attachments, Found(a)
  PROVE  LabInv'
<1>1. StoresTyped /\ MemoryFine /\ AttachmentsTyped /\ NamedWasUsed
      /\ Living(mongo) = {id \in MongoIds : mongo[id] \in Strategy}
  BY LabParts
<1>2. attaching[a].at = "finding" /\ attaching[a] \in Attachment /\ UNCHANGED <<connected, mongo, memory, results, kept, raced>>
  BY <1>1 DEF Found, AttachmentsTyped, NoAttachment
<1>. DEFINE x == [[attaching[a] EXCEPT !.at = "updating"] EXCEPT !.seen = mongo[attaching[a].id]]
<1>3. CASE attaching' = [attaching EXCEPT ![a] = NoAttachment]
  <2>1. AttachmentsTyped' /\ \A b \in Attachments : attaching'[b] = IF b = a THEN NoAttachment ELSE attaching[b]
    BY <1>1, <1>3 DEF AttachmentsTyped, NoAttachment
  <2>2. NamedWasUsed' /\ StoresTyped' /\ MemoryFine'
    BY <1>1, <1>2, <2>1 DEF NamedWasUsed, StoresTyped, MemoryFine, NoAttachment
  <2>3. \A i \in MongoIds, k \in ResultKinds, n \in 1 .. MaxResults : Attests(i, k, n)' => Attests(i, k, n)
    BY <1>2, <2>1 DEF Attests, NoAttachment
  <2>. QED
    BY <1>2, <2>1, <2>2, <2>3, AttachmentStepKeeps DEF NoAttachment
<1>4. CASE attaching[a].id \in Living(mongo) /\ attaching' = [attaching EXCEPT ![a] = x]
  <2>1. mongo[attaching[a].id] \in Strategy
    BY <1>1, <1>4
  <2>2. /\ x \in Attachment /\ x.at = "updating" /\ x.id = attaching[a].id /\ x.seen = mongo[attaching[a].id]
    BY <1>2, <2>1 DEF Attachment
  <2>. HIDE DEF x
  <2>3. \A b \in Attachments : attaching'[b] = IF b = a THEN x ELSE attaching[b]
    BY <1>1, <1>4 DEF AttachmentsTyped
  <2>4. AttachmentsTyped'
    BY <1>1, <1>4, <2>1, <2>2, <2>3 DEF AttachmentsTyped
  <2>5. NamedWasUsed' /\ StoresTyped' /\ MemoryFine'
    BY <1>1, <1>2, <2>2, <2>3 DEF NamedWasUsed, StoresTyped, MemoryFine
  <2>6. \A i \in MongoIds, k \in ResultKinds, n \in 1 .. MaxResults : Attests(i, k, n)' => Attests(i, k, n)
    BY <1>2, <2>2, <2>3 DEF Attests
  <2>. QED
    BY <1>2, <2>2, <2>3, <2>4, <2>5, <2>6, AttachmentStepKeeps
<1>5. [attaching EXCEPT ![a].at = "updating", ![a].seen = mongo[attaching[a].id]] = [attaching EXCEPT ![a] = x]
  BY <1>1 DEF AttachmentsTyped
<1>. HIDE DEF x
<1>. QED
  BY <1>3, <1>4, <1>5 DEF Found

(* The request is answered, or fails: nothing new is attested.             *)
LEMMA AnswerKeeps ==
  ASSUME LabInv, NEW a \in Attachments, Answer(a)
  PROVE  LabInv'
<1>1. StoresTyped /\ MemoryFine /\ AttachmentsTyped /\ NamedWasUsed
  BY LabParts
<1>2. attaching[a].at = "written" /\ attaching[a] \in Attachment /\ UNCHANGED <<connected, mongo, memory, results, raced>>
      /\ kept' = kept \cup {<<attaching[a].id, attaching[a].kind, attaching[a].result.number>>}
      /\ attaching' = [attaching EXCEPT ![a] = NoAttachment]
  BY <1>1 DEF Answer, AttachmentsTyped, NoAttachment
<1>3. \A b \in Attachments : attaching'[b] = IF b = a THEN NoAttachment ELSE attaching[b]
  BY <1>1, <1>2 DEF AttachmentsTyped
<1>4. NoAttachment.at = "idle" /\ attaching[a].id \in MongoIds /\ attaching[a].kind \in ResultKinds
      /\ attaching[a].result.number \in 1 .. MaxResults
  BY <1>2 DEF NoAttachment, Attachment, Result
<1>5. AttachmentsTyped'
  BY <1>1, <1>2, <1>3, <1>4 DEF AttachmentsTyped
<1>6. StoresTyped' /\ MemoryFine'
  BY <1>1, <1>2, <1>4 DEF StoresTyped, MemoryFine
<1>7. mongo[attaching[a].id] # Unused
  BY <1>1, <1>2 DEF NamedWasUsed
<1>8. NamedWasUsed'
  BY <1>1, <1>2, <1>3, <1>4, <1>7 DEF NamedWasUsed
<1>9. \A i \in MongoIds, k \in ResultKinds, n \in 1 .. MaxResults : Attests(i, k, n)' => Attests(i, k, n)
  BY <1>2, <1>3, <1>4 DEF Attests
<1>. QED
  BY <1>2, <1>3, <1>4, <1>5, <1>6, <1>8, <1>9, AttachmentStepKeeps

LEMMA UpdateFailsKeeps ==
  ASSUME LabInv, NEW a \in Attachments, UpdateFails(a)
  PROVE  LabInv'
<1>1. StoresTyped /\ MemoryFine /\ AttachmentsTyped /\ NamedWasUsed
  BY LabParts
<1>2. attaching[a].at \in {"updating", "written"} /\ attaching[a] \in Attachment
      /\ UNCHANGED <<connected, mongo, memory, results, kept, raced>>
  BY <1>1 DEF UpdateFails, AttachmentsTyped, NoAttachment
<1>. DEFINE y == IF attaching[a].at = "updating" THEN [attaching[a] EXCEPT !.at = "lost"] ELSE NoAttachment
<1>3. attaching' = [attaching EXCEPT ![a] = y]
  BY DEF UpdateFails
<1>4. /\ y \in Attachment \cup {NoAttachment} /\ y.at \in {"lost", "idle"}
      /\ y.at = "lost" => /\ attaching[a].at = "updating" /\ y.id = attaching[a].id
                          /\ y.kind = attaching[a].kind /\ y.seen = attaching[a].seen
  BY <1>2 DEF Attachment, NoAttachment
<1>. HIDE DEF y
<1>5. \A b \in Attachments : attaching'[b] = IF b = a THEN y ELSE attaching[b]
  BY <1>1, <1>3 DEF AttachmentsTyped
<1>6. AttachmentsTyped'
  BY <1>1, <1>3, <1>4, <1>5 DEF AttachmentsTyped
<1>7. NamedWasUsed' /\ StoresTyped' /\ MemoryFine'
  BY <1>1, <1>2, <1>4, <1>5 DEF NamedWasUsed, StoresTyped, MemoryFine
<1>8. \A i \in MongoIds, k \in ResultKinds, n \in 1 .. MaxResults : Attests(i, k, n)' => Attests(i, k, n)
  BY <1>2, <1>4, <1>5 DEF Attests
<1>. QED
  BY <1>2, <1>4, <1>5, <1>6, <1>7, <1>8, AttachmentStepKeeps

LEMMA LabRestartKeeps ==
  ASSUME LabInv, LabRestart
  PROVE  LabInv'
<1>1. StoresTyped /\ MemoryFine /\ AttachmentsTyped /\ NamedWasUsed
  BY LabParts
<1>2. UNCHANGED <<mongo, results, kept, raced>> /\ connected' = FALSE /\ memory' = Removed(memory, MemoryIds)
  BY DEF LabRestart
<1>. DEFINE y(b) == IF attaching[b].at \in {"updating", "lost"}
                      THEN [attaching[b] EXCEPT !.at = "lost"] ELSE NoAttachment
<1>3. attaching' = [b \in Attachments |-> y(b)]
  BY DEF LabRestart
<1>4. ASSUME NEW b \in Attachments
      PROVE  /\ y(b) \in Attachment \cup {NoAttachment} /\ y(b).at \in {"lost", "idle"}
             /\ y(b).at = "lost" => /\ attaching[b].at \in {"updating", "lost"} /\ y(b).id = attaching[b].id
                                    /\ y(b).kind = attaching[b].kind /\ y(b).seen = attaching[b].seen
  <2>1. attaching[b] \in Attachment \cup {NoAttachment}
    BY <1>1 DEF AttachmentsTyped
  <2>2. attaching[b].at \in {"updating", "lost"} => attaching[b] \in Attachment
    BY <2>1 DEF NoAttachment
  <2>. QED
    BY <2>2 DEF Attachment, NoAttachment
<1>5. \A b \in Attachments : attaching'[b] = y(b)
  BY <1>3
<1>. HIDE DEF y
<1>6. AttachmentsTyped'
  BY <1>1, <1>3, <1>4, <1>5 DEF AttachmentsTyped
<1>7. MemoryFine'
  BY <1>1, <1>2, MongoWithout DEF MemoryFine
<1>8. NamedWasUsed' /\ StoresTyped'
  <2>1. NamedWasUsed'
    BY <1>1, <1>2, <1>4, <1>5 DEF NamedWasUsed
  <2>2. StoresTyped'
    BY <1>1, <1>2, <1>7 DEF StoresTyped, MemoryFine
  <2>. QED
    BY <2>1, <2>2
<1>9. \A i \in MongoIds, k \in ResultKinds, n \in 1 .. MaxResults : Attests(i, k, n)' => Attests(i, k, n)
  BY <1>2, <1>4, <1>5 DEF Attests
<1>. QED
  BY <1>2, <1>4, <1>5, <1>6, <1>7, <1>8, <1>9, AttachmentStepKeeps

(* What MongoDB's application of a write does to the strategies.           *)
LEMMA AppliedAdds ==
  ASSUME LabInv, NEW a \in Attachments, attaching[a].at \in {"updating", "lost"}, Applied(a),
         attaching[a].id \in Living(mongo)
  PROVE  LET x == attaching[a]
         IN /\ mongo' \in [MongoIds -> Strategy \cup {Unused, Gone}]
            /\ \A id \in MongoIds : /\ id # x.id => mongo'[id] = mongo[id]
                                    /\ mongo'[id] \in Strategy => Tells(mongo'[id])
            /\ mongo[x.id] \in Strategy /\ mongo'[x.id] \in Strategy
            /\ \A other \in ResultKinds \ {x.kind} : mongo'[x.id][other] = mongo[x.id][other]
            /\ Lists(mongo'[x.id], x.kind, x.result.number)
            /\ \A n : Lists(x.seen, x.kind, n) => Lists(mongo'[x.id], x.kind, n)
            /\ raced \subseteq raced' /\ raced' \subseteq 1 .. MaxResults
            /\ Rivals(a) # {} => x.result.number \in raced'
<1>. DEFINE x == attaching[a]
            new == Attached(mongo[x.id], x.seen, x.kind, x.result)
<1>1. /\ StoresTyped /\ AttachmentsTyped /\ Living(mongo) = {id \in MongoIds : mongo[id] \in Strategy}
      /\ \A id \in MongoIds : mongo[id] \in Strategy => Tells(mongo[id])
  BY LabParts
<1>2. /\ x \in Attachment /\ x.id \in MongoIds /\ x.kind \in ResultKinds /\ x.result \in Result /\ x.seen \in Strategy
      /\ mongo[x.id] \in Strategy /\ Tells(mongo[x.id])
  BY <1>1 DEF AttachmentsTyped, Attachment, NoAttachment
<1>3. /\ mongo' = [mongo EXCEPT ![x.id] = new]
      /\ raced' = IF Rivals(a) # {} THEN raced \cup {x.result.number} ELSE raced
  BY DEF Applied
<1>. HIDE DEF x
<1>4. /\ new \in Strategy /\ Tells(new) /\ new[x.kind] = Append(x.seen[x.kind], x.result)
      /\ \A other \in ResultKinds \ {x.kind} : new[other] = mongo[x.id][other]
  <2>1. Adds(new, mongo[x.id], x.seen, x.kind, x.result)
    BY <1>2, AttachedAdds
  <2>. QED
    BY <2>1 DEF Adds
<1>. HIDE DEF new
<1>5. Lists(new, x.kind, x.result.number) /\ \A n : Lists(x.seen, x.kind, n) => Lists(new, x.kind, n)
  BY <1>2, <1>4, AppendLists
<1>6. mongo'[x.id] = new /\ \A id \in MongoIds : id # x.id => mongo'[id] = mongo[id]
  BY <1>1, <1>2, <1>3 DEF StoresTyped
<1>7. mongo' \in [MongoIds -> Strategy \cup {Unused, Gone}]
  BY <1>1, <1>2, <1>3, <1>4 DEF StoresTyped
<1>8. x.result.number \in 1 .. MaxResults
  BY <1>2 DEF Result
<1>9. raced \subseteq raced' /\ raced' \subseteq 1 .. MaxResults /\ (Rivals(a) # {} => x.result.number \in raced')
  BY <1>1, <1>3, <1>8 DEF StoresTyped
<1>. QED
  BY <1>1, <1>2, <1>4, <1>5, <1>6, <1>7, <1>9 DEF x

(* The write reaches MongoDB, in time or late; then the attachment waits   *)
(* to be answered, or nobody waits for it.                                 *)
LEMMA AppliedKeeps ==
  ASSUME LabInv, NEW a \in Attachments, attaching[a].at \in {"updating", "lost"}, Applied(a),
         attaching[a].id \in Living(mongo),
         attaching' = [attaching EXCEPT ![a].at = "written"] \/ attaching' = [attaching EXCEPT ![a] = NoAttachment],
         UNCHANGED <<connected, memory, results, kept>>
  PROVE  LabInv'
<1>. DEFINE x == attaching[a]
<1>1. /\ StoresTyped /\ MemoryFine /\ AttachmentsTyped /\ NamedWasUsed /\ OwedAreListed /\ WritersHaveRead
      /\ Living(mongo) = {id \in MongoIds : mongo[id] \in Strategy}
  BY LabParts
<1>2. /\ mongo' \in [MongoIds -> Strategy \cup {Unused, Gone}]
      /\ \A id \in MongoIds : /\ id # x.id => mongo'[id] = mongo[id]
                              /\ mongo'[id] \in Strategy => Tells(mongo'[id])
      /\ mongo[x.id] \in Strategy /\ mongo'[x.id] \in Strategy
      /\ \A other \in ResultKinds \ {x.kind} : mongo'[x.id][other] = mongo[x.id][other]
      /\ Lists(mongo'[x.id], x.kind, x.result.number)
      /\ \A n : Lists(x.seen, x.kind, n) => Lists(mongo'[x.id], x.kind, n)
      /\ raced \subseteq raced' /\ raced' \subseteq 1 .. MaxResults
      /\ Rivals(a) # {} => x.result.number \in raced'
  BY AppliedAdds
<1>3. x \in Attachment /\ x.id \in MongoIds /\ x.kind \in ResultKinds
  BY <1>1 DEF AttachmentsTyped, Attachment, NoAttachment
<1>4. \A b \in Attachments \ {a} : attaching'[b] = attaching[b]
  BY <1>1 DEF AttachmentsTyped
<1>5. \/ attaching'[a] = NoAttachment
      \/ /\ attaching'[a] \in Attachment /\ attaching'[a].at = "written" /\ attaching'[a].id = x.id
         /\ attaching'[a].kind = x.kind /\ attaching'[a].result = x.result
  BY <1>1, <1>3 DEF AttachmentsTyped, Attachment
<1>6. AttachmentsTyped'
  <2>1. attaching' \in [Attachments -> Attachment \cup {NoAttachment}]
    BY <1>1, <1>3 DEF AttachmentsTyped, Attachment
  <2>. QED
    BY <1>1, <1>4, <1>5, <2>1 DEF AttachmentsTyped, NoAttachment
<1>7. StoresTyped' /\ MemoryFine'
  BY <1>1, <1>2 DEF StoresTyped, MemoryFine
<1>8. StatusTellsLastValidation' /\ Living(mongo)' = {id \in MongoIds : mongo'[id] \in Strategy}
  BY <1>2, <1>7, NextStatus
<1>9. Living(mongo)' = Living(mongo) /\ \A id \in MongoIds : mongo'[id] = Unused => mongo[id] = Unused
  BY <1>1, <1>2, <1>8, MarkAssumption
<1>10. NamedWasUsed'
  BY <1>1, <1>3, <1>4, <1>5, <1>9 DEF NamedWasUsed, AttachmentsTyped, Attachment, NoAttachment, StoresTyped
<1>. HIDE DEF x
<1>11. ASSUME NEW id \in MongoIds, NEW kind \in ResultKinds, NEW n \in 1 .. MaxResults, Owed(id, kind, n)'
       PROVE  \/ Owed(id, kind, n)
              \/ id = x.id /\ kind = x.kind /\ n = x.result.number /\ Rivals(a) = {}
  <2>1. n \notin raced /\ id \in Living(mongo) /\ n \notin raced'
    BY <1>2, <1>9, <1>11 DEF Owed
  <2>2. Attests(id, kind, n) \/ (id = x.id /\ kind = x.kind /\ n = x.result.number)
    BY <1>4, <1>5, <1>11 DEF Owed, Attests, NoAttachment
  <2>. QED
    BY <1>2, <2>1, <2>2 DEF Owed
<1>12. OwedAreListed'
  <2>. SUFFICES ASSUME NEW id \in MongoIds, NEW kind \in ResultKinds, NEW n \in 1 .. MaxResults, Owed(id, kind, n)'
       PROVE  Lists(mongo'[id], kind, n)
    BY DEF OwedAreListed, Lists
  <2>1. CASE ~Owed(id, kind, n)
    BY <1>2, <1>11, <2>1
  <2>2. CASE Owed(id, kind, n)
    <3>1. Lists(mongo[id], kind, n)
      BY <1>1, <2>2 DEF OwedAreListed
    <3>2. CASE id = x.id /\ kind = x.kind
      BY <1>1, <1>2, <2>2, <3>2 DEF WritersHaveRead, x
    <3>3. CASE id = x.id /\ kind # x.kind
      BY <1>2, <3>1, <3>3 DEF Lists
    <3>. QED
      BY <1>2, <3>1, <3>2, <3>3
  <2>. QED
    BY <2>1, <2>2
<1>13. WritersHaveRead'
  <2>. SUFFICES ASSUME NEW id \in MongoIds, NEW kind \in ResultKinds, NEW n \in 1 .. MaxResults, NEW b \in Attachments,
                       Owed(id, kind, n)', attaching'[b].at \in {"updating", "lost"},
                       attaching'[b].id = id, attaching'[b].kind = kind
       PROVE  Lists(attaching'[b].seen, kind, n)
    BY DEF WritersHaveRead
  <2>1. b # a /\ attaching'[b] = attaching[b]
    BY <1>4, <1>5 DEF NoAttachment
  <2>2. Owed(id, kind, n)
    <3>1. CASE id = x.id /\ kind = x.kind /\ Rivals(a) = {}
      BY <2>1, <3>1 DEF Rivals, x
    <3>. QED
      BY <1>11, <3>1
  <2>. QED
    BY <1>1, <2>1, <2>2 DEF WritersHaveRead
<1>. QED
  BY <1>6, <1>7, <1>8, <1>10, <1>12, <1>13 DEF LabInv

(* An attachment that has read its strategy ends without a trace.          *)
LEMMA ForgottenKeeps ==
  ASSUME LabInv, NEW a \in Attachments, attaching[a].at \in {"updating", "lost"},
         attaching' = [attaching EXCEPT ![a] = NoAttachment],
         UNCHANGED <<connected, mongo, memory, results, kept, raced>>
  PROVE  LabInv'
<1>1. StoresTyped /\ MemoryFine /\ AttachmentsTyped /\ NamedWasUsed
  BY LabParts
<1>2. \A b \in Attachments : attaching'[b] = IF b = a THEN NoAttachment ELSE attaching[b]
  BY <1>1 DEF AttachmentsTyped
<1>3. AttachmentsTyped' /\ NamedWasUsed' /\ StoresTyped' /\ MemoryFine'
  BY <1>1, <1>2 DEF AttachmentsTyped, NamedWasUsed, StoresTyped, MemoryFine, NoAttachment
<1>4. \A i \in MongoIds, k \in ResultKinds, n \in 1 .. MaxResults : Attests(i, k, n)' => Attests(i, k, n)
  BY <1>2 DEF Attests, NoAttachment
<1>. QED
  BY <1>2, <1>3, <1>4, AttachmentStepKeeps DEF NoAttachment

LEMMA WriteKeeps ==
  ASSUME LabInv, NEW a \in Attachments, Update(a) \/ LateUpdate(a)
  PROVE  LabInv'
<1>1. attaching[a].at \in {"updating", "lost"} /\ UNCHANGED <<connected, memory, results, kept>>
  BY DEF Update, LateUpdate
<1>2. CASE Applied(a) /\ attaching[a].id \in Living(mongo)
  BY <1>1, <1>2, AppliedKeeps DEF Update, LateUpdate
<1>3. CASE ~(Applied(a) /\ attaching[a].id \in Living(mongo))
  <2>1. UNCHANGED <<mongo, raced>> /\ attaching' = [attaching EXCEPT ![a] = NoAttachment]
    BY <1>3 DEF Update, LateUpdate, Applied
  <2>. QED
    BY <1>1, <2>1, ForgottenKeeps
<1>. QED
  BY <1>2, <1>3

LEMMA LabStarts == LabInit => LabInv
<1>. SUFFICES ASSUME LabInit PROVE LabInv
  OBVIOUS
<1>1. StoresTyped /\ MemoryFine /\ AttachmentsTyped /\ NamedWasUsed
  BY ResultAssumption, MarkAssumption
  DEF LabInit, StoresTyped, MemoryFine, AttachmentsTyped, NamedWasUsed, NoAttachment
<1>2. \A id \in MongoIds : mongo[id] \notin Strategy
  BY MarkAssumption DEF LabInit
<1>3. StatusTellsLastValidation
  BY <1>1, <1>2, StatusFromParts
<1>4. \A id, kind, n : ~Owed(id, kind, n)
  BY DEF LabInit, Owed, Living
<1>. QED
  BY <1>1, <1>3, <1>4 DEF LabInv, OwedAreListed, WritersHaveRead

LEMMA LabStepKeeps == LabInv /\ [LabNext]_labVars => LabInv'
<1>. SUFFICES ASSUME LabInv, [LabNext]_labVars PROVE LabInv'
  OBVIOUS
<1>1. CASE UNCHANGED labVars
  <2>1. StoresTyped /\ MemoryFine
    BY LabParts
  <2>2. StoresTyped' /\ MemoryFine'
    BY <1>1, <2>1 DEF labVars, StoresTyped, MemoryFine
  <2>. QED
    BY <1>1, <2>2, StoreStepKeeps DEF labVars
<1>2. ASSUME NEW id \in MemoryIds, NEW kind \in ResultKinds, NEW met \in Criteria(kind), AttachInMemory(id, kind, met)
      PROVE  LabInv'
  BY <1>2, AttachInMemoryKeeps
<1>3. ASSUME NEW a \in Attachments, NEW id \in MongoIds, NEW kind \in ResultKinds, NEW met \in Criteria(kind),
             StartAttach(a, id, kind, met)
      PROVE  LabInv'
  BY <1>3, StartAttachKeeps
<1>4. ASSUME NEW a \in Attachments, Found(a) \/ Update(a) \/ Answer(a) \/ UpdateFails(a) \/ LateUpdate(a)
      PROVE  LabInv'
  BY <1>4, FoundKeeps, WriteKeeps, AnswerKeeps, UpdateFailsKeeps
<1>5. CASE Clear \/ \E id \in MongoIds \cup MemoryIds : Delete(id)
  BY <1>5, RemoveKeeps
<1>. QED
  BY <1>1, <1>2, <1>3, <1>4, <1>5, SaveKeeps, ConnectionKeeps, LabRestartKeeps DEF LabNext

(* However many attachments overlap, whatever fails, comes late or is      *)
(* forgotten in a restart: a result that was answered for stays in its     *)
(* strategy unless it was raced by another of its kind, and the status     *)
(* tells of the last validation (strategyLabEngine.js:35-80,               *)
(* savedStrategy.js:5-12).                                                 *)
THEOREM ResultsStay == LabSpec => []LabHonest
<1>1. LabInv => LabHonest
  <2>. SUFFICES ASSUME LabInv PROVE LabHonest
    OBVIOUS
  <2>1. kept \subseteq MongoIds \X ResultKinds \X (1 .. MaxResults) /\ OwedAreListed
    BY DEF LabInv, StoresTyped
  <2>2. \A k \in kept : /\ k[1] \in MongoIds /\ k[2] \in ResultKinds /\ k[3] \in 1 .. MaxResults
                        /\ k = <<k[1], k[2], k[3]>>
    BY <2>1
  <2>3. ResultsKept
    BY <2>1, <2>2 DEF ResultsKept, OwedAreListed, Owed, Attests, Lists
  <2>. QED
    BY <2>3 DEF LabHonest, LabInv
<1>. QED
  BY <1>1, LabStarts, LabStepKeeps, PTL DEF LabSpec

LEMMA LabTypes == LabInv => LabTypeOK
<1>. SUFFICES ASSUME LabInv PROVE LabTypeOK
  OBVIOUS
<1>1. StoresTyped /\ AttachmentsTyped
  BY DEF LabInv
<1>2. /\ Living(mongo) = {id \in MongoIds : mongo[id] \in Strategy}
      /\ Living(memory) = {id \in MemoryIds : memory[id] \in Strategy}
  BY <1>1, LivingAreStrategies DEF StoresTyped
<1>. QED
  BY <1>1, <1>2 DEF LabTypeOK, StoresTyped, AttachmentsTyped, Attachment, NoAttachment

(* Stores, attachments and counters keep to their types                    *)
(* (strategyLabStore.js, savedStrategy.js).                                *)
THEOREM LabTypeCorrect == LabSpec => []LabTypeOK
<1>. QED
  BY LabTypes, LabStarts, LabStepKeeps, PTL DEF LabSpec

----------------------------------------------------------------------------
(* The inference process *)

(* The promise that a new call would await is not settled, unless there is *)
(* a worker to be asked at once.                                           *)
StartingWaits == starting # NoProc /\ ~alive => startup[starting] = "waiting"

(* A process has said it is ready only after it came up, and one whose     *)
(* startup is awaited has not been seen to end.                            *)
ToldByProcess ==
  \A p \in Procs :
    /\ "ready" \in stdout[p] => process[p] \in {"up", "gone", "reaped"}
    /\ startup[p] = "waiting" => process[p] \in {"booting", "up", "gone"}

InferenceInv == InferenceTypeOK /\ InferenceHonest /\ StartingWaits /\ ToldByProcess

Answered == {c \in Calls : call[c] = "ok"}

----------------------------------------------------------------------------
(* Types *)

LEMMA CallSetsFinite ==
  ASSUME NEW S \in SUBSET Calls
  PROVE  IsFiniteSet(S) /\ Cardinality(S) \in Nat
BY CallAssumption, FS_Subset, FS_CardinalityType

LEMMA AskTypes ==
  ASSUME InferenceTypeOK, NEW S \in SUBSET Calls, Ask(S)
  PROVE  /\ call' \in [Calls -> {"idle", "waiting", "pending", "ok", "failed", "timed_out"}]
         /\ pending' \subseteq Calls /\ timers' \subseteq Calls
         /\ asked' \in Nat /\ errors' \in Nat
         /\ stdin' \in [Procs -> SUBSET Calls]
<1>1. Cardinality(S) \in Nat
  BY CallSetsFinite
<1>2. CASE worker = NoProc
  BY <1>1, <1>2 DEF Ask, Settled, InferenceTypeOK
<1>3. CASE worker # NoProc
  BY <1>1, <1>3 DEF Ask, Settled, InferenceTypeOK
<1>. QED
  BY <1>2, <1>3

LEMMA RejectTypes ==
  ASSUME InferenceTypeOK, RejectAllPending
  PROVE  /\ call' \in [Calls -> {"idle", "waiting", "pending", "ok", "failed", "timed_out"}]
         /\ pending' \subseteq Calls /\ timers' \subseteq Calls
         /\ errors' \in Nat
<1>1. Cardinality(pending) \in Nat
  BY CallSetsFinite DEF InferenceTypeOK
<1>. QED
  BY <1>1 DEF RejectAllPending, Settled, InferenceTypeOK

LEMMA CallStepTypes ==
  ASSUME InferenceTypeOK, NEW c \in Calls, CallStep(c)
  PROVE  InferenceTypeOK'
<1>1. CASE InferAlive(c)
  BY <1>1, AskTypes DEF InferAlive, InferenceTypeOK, state
<1>2. CASE InferStarting(c)
  BY <1>2 DEF InferStarting, Wait, InferenceTypeOK, state, system
<1>3. CASE InferRefused(c)
  BY <1>3 DEF InferRefused, Settled, InferenceTypeOK, system
<1>4. CASE RequestTimeout(c)
  BY <1>4 DEF RequestTimeout, InferenceTypeOK, state, system
<1>5. ASSUME NEW p \in Procs, InferSpawn(c, p)
      PROVE  InferenceTypeOK'
  <2>1. restarts' \in Nat
    BY <1>5 DEF InferSpawn, InferenceTypeOK
  <2>. QED
    BY <2>1, <1>5 DEF InferSpawn, Wait, Spawn, InferenceTypeOK
<1>. QED
  BY <1>1, <1>2, <1>3, <1>4, <1>5 DEF CallStep

LEMMA EndedTypes ==
  ASSUME InferenceTypeOK, NEW p \in Procs, Ended(p)
  PROVE  InferenceTypeOK'
<1>1. CASE startup[p] = "waiting"
  <2>1. /\ process' \in [Procs -> {"none", "booting", "up", "gone", "reaped"}]
        /\ worker' = NoProc /\ starting' = NoProc /\ alive' = FALSE
    BY DEF Ended, Cleared, InferenceTypeOK
  <2>2. startup' \in [Procs -> {"none", "waiting", "ready", "failed"}] /\ stopped' \subseteq Procs
    BY <1>1 DEF Ended, InferenceTypeOK
  <2>3. call' \in [Calls -> {"idle", "waiting", "pending", "ok", "failed", "timed_out"}]
    BY <1>1 DEF Ended, Settled, InferenceTypeOK
  <2>4. UNCHANGED <<pending, timers, errors, awaits, asked, restarts, stdin, stdout>>
    BY <1>1 DEF Ended
  <2>. QED
    BY <2>1, <2>2, <2>3, <2>4 DEF InferenceTypeOK
<1>2. CASE startup[p] # "waiting"
  BY <1>2, RejectTypes DEF Ended, Cleared, InferenceTypeOK
<1>. QED
  BY <1>1, <1>2

LEMMA ProcStepTypes ==
  ASSUME InferenceTypeOK, NEW p \in Procs, ProcStep(p)
  PROVE  InferenceTypeOK'
<1>1. CASE HearReady(p)
  <2>1. CASE startup[p] = "waiting"
    <3>1. Awaiting(p) \subseteq Calls
      BY DEF Awaiting, Waiting
    <3>. QED
      BY <1>1, <2>1, <3>1, AskTypes DEF HearReady, InferenceTypeOK
  <2>2. CASE startup[p] # "waiting"
    BY <1>1, <2>2 DEF HearReady, InferenceTypeOK
  <2>. QED
    BY <2>1, <2>2
<1>2. CASE HearNotReady(p)
  <2>1. stdout' \in [Procs -> SUBSET (Calls \cup {"ready", "not_ready"})]
    BY <1>2 DEF HearNotReady, InferenceTypeOK
  <2>2. /\ startup' \in [Procs -> {"none", "waiting", "ready", "failed"}] /\ stopped' \subseteq Procs
        /\ alive' \in BOOLEAN /\ starting' \in Procs \cup {NoProc}
    BY <1>2 DEF HearNotReady, FailStartup, InferenceTypeOK
  <2>3. call' \in [Calls -> {"idle", "waiting", "pending", "ok", "failed", "timed_out"}]
    BY <1>2 DEF HearNotReady, FailStartup, Settled, InferenceTypeOK
  <2>4. UNCHANGED <<awaits, pending, timers, asked, errors, worker, restarts, process, stdin>>
    BY <1>2 DEF HearNotReady
  <2>. QED
    BY <2>1, <2>2, <2>3, <2>4 DEF InferenceTypeOK
<1>3. CASE StartupTimeout(p)
  BY <1>3 DEF StartupTimeout, FailStartup, Settled, InferenceTypeOK
<1>4. CASE ExitEvent(p) \/ SpawnError(p)
  BY <1>4, EndedTypes DEF ExitEvent, SpawnError
<1>5. CASE Exits(p)
  BY <1>5 DEF Exits, InferenceTypeOK, promises, state
<1>6. ASSUME NEW line \in {"ready", "not_ready"}, Boots(p, line)
      PROVE  InferenceTypeOK'
  BY <1>6 DEF Boots, InferenceTypeOK, promises, state
<1>7. ASSUME NEW c \in Calls, Answers(p, c)
      PROVE  InferenceTypeOK'
  BY <1>7 DEF Answers, InferenceTypeOK, promises, state
<1>8. ASSUME NEW c \in Calls, NEW ok \in BOOLEAN, HearAnswer(p, c, ok)
      PROVE  InferenceTypeOK'
  BY <1>8 DEF HearAnswer, Settled, InferenceTypeOK, state
<1>. QED
  BY <1>1, <1>2, <1>3, <1>4, <1>5, <1>6, <1>7, <1>8 DEF ProcStep

LEMMA ShutdownTypes ==
  ASSUME InferenceTypeOK, Shutdown
  PROVE  InferenceTypeOK'
BY RejectTypes DEF Shutdown, InferenceTypeOK

----------------------------------------------------------------------------
(* Counting *)

(* Calls that are asked at once are counted once: pending or as errors.    *)
LEMMA AskCounts ==
  ASSUME InferenceTypeOK, Accounted, NoneStranded, NEW S \in SUBSET Calls,
         \A c \in S : call[c] \in {"idle", "waiting"}, Ask(S)
  PROVE  /\ Accounted'
         /\ pending' = {c \in Calls : call'[c] = "pending"} /\ timers' = pending'
<1>1. Answered' = Answered
  BY DEF Answered, Ask, Settled, InferenceTypeOK
<1>2. /\ Cardinality(S) \in Nat /\ IsFiniteSet(S)
      /\ Cardinality(pending) \in Nat /\ IsFiniteSet(pending) /\ Cardinality(Answered) \in Nat
  BY CallSetsFinite DEF Answered, InferenceTypeOK
<1>3. S \cap pending = {}
  BY DEF NoneStranded
<1>4. Cardinality(pending \cup S) = Cardinality(pending) + Cardinality(S)
  <2>1. Cardinality(pending \cap S) = 0
    BY <1>3, FS_EmptySet
  <2>2. Cardinality(pending \cup S) = Cardinality(pending) + Cardinality(S) - Cardinality(pending \cap S)
    BY <1>2, FS_Union
  <2>. QED
    BY <1>2, <2>1, <2>2
<1>5. asked = Cardinality(pending) + Cardinality(Answered) + errors /\ errors \in Nat
  BY DEF Accounted, Answered, InferenceTypeOK
<1>6. asked' = Cardinality(pending') + Cardinality(Answered') + errors'
  <2>1. CASE worker = NoProc
    <3>1. /\ asked' = asked + Cardinality(S) /\ pending' = pending
          /\ errors' = errors + Cardinality(S)
      BY <2>1 DEF Ask
    <3>. QED
      BY <1>1, <1>2, <1>5, <3>1
  <2>2. CASE worker # NoProc
    <3>1. asked' = asked + Cardinality(S) /\ pending' = pending \cup S /\ errors' = errors
      BY <2>2 DEF Ask
    <3>. QED
      BY <1>1, <1>2, <1>4, <1>5, <3>1
  <2>. QED
    BY <2>1, <2>2
<1>7. pending' = {c \in Calls : call'[c] = "pending"} /\ timers' = pending'
  <2>1. CASE worker = NoProc
    <3>1. /\ call' = [c \in Calls |-> IF c \in S THEN "failed" ELSE call[c]]
          /\ pending' = pending /\ timers' = timers
      BY <2>1 DEF Ask, Settled
    <3>2. pending = {c \in Calls : call[c] = "pending"} /\ timers = pending
      BY DEF NoneStranded
    <3>3. \A c \in Calls : c \in pending <=> call'[c] = "pending"
      BY <1>3, <3>1, <3>2
    <3>. QED
      BY <3>1, <3>2, <3>3
  <2>2. CASE worker # NoProc
    <3>1. /\ call' = [c \in Calls |-> IF c \in S THEN "pending" ELSE call[c]]
          /\ pending' = pending \cup S /\ timers' = timers \cup S
      BY <2>2 DEF Ask, Settled
    <3>2. pending = {c \in Calls : call[c] = "pending"} /\ timers = pending
      BY DEF NoneStranded
    <3>. QED
      BY <3>1, <3>2
  <2>. QED
    BY <2>1, <2>2
<1>. QED
  BY <1>6, <1>7 DEF Accounted, Answered

(* A rejection of all that is pending counts each of them as an error.     *)
LEMMA RejectCounts ==
  ASSUME InferenceTypeOK, Accounted, NoneStranded, RejectAllPending, UNCHANGED asked
  PROVE  /\ Accounted'
         /\ pending' = {c \in Calls : call'[c] = "pending"} /\ timers' = pending'
<1>1. Answered' = Answered
  BY DEF Answered, RejectAllPending, Settled, NoneStranded, InferenceTypeOK
<1>2. Cardinality(pending) \in Nat /\ Cardinality(Answered) \in Nat
  BY CallSetsFinite DEF Answered, InferenceTypeOK
<1>3. asked = Cardinality(pending) + Cardinality(Answered) + errors /\ errors \in Nat
  BY DEF Accounted, Answered, InferenceTypeOK
<1>4. Cardinality(pending') = 0
  BY FS_EmptySet DEF RejectAllPending
<1>5. asked' = Cardinality(pending') + Cardinality(Answered') + errors'
  BY <1>1, <1>2, <1>3, <1>4 DEF RejectAllPending
<1>6. pending' = {c \in Calls : call'[c] = "pending"} /\ timers' = pending'
  BY DEF RejectAllPending, Settled, NoneStranded, InferenceTypeOK
<1>. QED
  BY <1>5, <1>6 DEF Accounted, Answered

(* Calls that were never asked fail without being counted.                 *)
LEMMA UnaskedFail ==
  ASSUME InferenceTypeOK, Accounted, NoneStranded, NEW S \in SUBSET Calls,
         \A c \in S : call[c] \in {"idle", "waiting"},
         NEW as \in {"failed", "waiting"},
         Settled(S, as), UNCHANGED <<asked, errors, pending, timers>>
  PROVE  /\ Accounted'
         /\ pending' = {c \in Calls : call'[c] = "pending"} /\ timers' = pending'
<1>1. Answered' = Answered
  BY DEF Answered, Settled, InferenceTypeOK
<1>2. pending' = {c \in Calls : call'[c] = "pending"} /\ timers' = pending'
  BY DEF Settled, NoneStranded, InferenceTypeOK
<1>. QED
  BY <1>1, <1>2 DEF Accounted, Answered

(* One pending call that is answered or given up.                          *)
LEMMA OneSettles ==
  ASSUME InferenceTypeOK, Accounted, NoneStranded, NEW c \in pending,
         NEW as \in {"ok", "failed", "timed_out"},
         call' = [call EXCEPT ![c] = as],
         pending' = pending \ {c}, timers' = timers \ {c},
         errors' = (IF as = "ok" THEN errors ELSE errors + 1), UNCHANGED asked
  PROVE  /\ Accounted'
         /\ pending' = {x \in Calls : call'[x] = "pending"} /\ timers' = pending'
<1>1. c \in Calls /\ call[c] = "pending"
  BY DEF NoneStranded, InferenceTypeOK
<1>2. Answered' = IF as = "ok" THEN Answered \cup {c} ELSE Answered
  BY <1>1 DEF Answered, InferenceTypeOK
<1>3. /\ Cardinality(pending) \in Nat /\ IsFiniteSet(pending)
      /\ Cardinality(Answered) \in Nat /\ IsFiniteSet(Answered) /\ c \notin Answered
  BY <1>1, CallSetsFinite DEF Answered, InferenceTypeOK
<1>4. Cardinality(pending') = Cardinality(pending) - 1
  BY <1>3, FS_RemoveElement
<1>5. Cardinality(Answered \cup {c}) = Cardinality(Answered) + 1
  BY <1>3, FS_AddElement
<1>6. asked = Cardinality(pending) + Cardinality(Answered) + errors /\ errors \in Nat /\ asked \in Nat
  BY DEF Accounted, Answered, InferenceTypeOK
<1>7. asked' = Cardinality(pending') + Cardinality(Answered') + errors'
  <2>1. CASE as = "ok"
    BY <1>2, <1>3, <1>4, <1>5, <1>6, <2>1
  <2>2. CASE as # "ok"
    BY <1>2, <1>3, <1>4, <1>6, <2>2
  <2>. QED
    BY <2>1, <2>2
<1>8. pending' = {x \in Calls : call'[x] = "pending"} /\ timers' = pending'
  BY <1>1 DEF NoneStranded, InferenceTypeOK
<1>. QED
  BY <1>7, <1>8 DEF Accounted, Answered

----------------------------------------------------------------------------
(* No call is stranded, and health is honest *)

(* What is left to show once the counts are settled. *)
Watched ==
  /\ \A c \in Waiting : startup[awaits[c]] = "waiting"
  /\ HealthHonest /\ StartingWaits /\ ToldByProcess

LEMMA InferenceStarts == InferenceInit => InferenceInv
<1>. SUFFICES ASSUME InferenceInit PROVE InferenceInv
  OBVIOUS
<1>1. InferenceTypeOK
  BY DEF InferenceInit, InferenceTypeOK
<1>2. {c \in Calls : call[c] = "ok"} = {} /\ {c \in Calls : call[c] = "pending"} = {} /\ Waiting = {}
  BY DEF InferenceInit, Waiting
<1>3. Accounted
  BY <1>2, FS_EmptySet DEF Accounted, InferenceInit
<1>. QED
  BY <1>1, <1>2, <1>3 DEF InferenceInit, InferenceInv, InferenceHonest, NoneStranded, HealthHonest,
                          StartingWaits, ToldByProcess

(* A call begins: asked at once, waiting, or refused; or it is given up.   *)
LEMMA CallStepKeeps ==
  ASSUME InferenceInv, NEW c \in Calls, CallStep(c)
  PROVE  InferenceInv'
<1>1. /\ InferenceTypeOK /\ Accounted /\ NoneStranded /\ Watched
      /\ pending = {x \in Calls : call[x] = "pending"} /\ timers = pending
  BY DEF InferenceInv, InferenceHonest, NoneStranded, Watched
<1>2. InferenceTypeOK'
  BY <1>1, CallStepTypes
<1>3. CASE InferAlive(c)
  <2>1. /\ Accounted' /\ pending' = {x \in Calls : call'[x] = "pending"} /\ timers' = pending'
    BY <1>1, <1>3, AskCounts DEF InferAlive
  <2>2. Watched'
    <3>1. \A x \in Calls : call'[x] = "waiting" => call[x] = "waiting"
      BY <1>1, <1>3 DEF InferAlive, Ask, Settled, InferenceTypeOK
    <3>. QED
      BY <1>1, <1>3, <3>1 DEF InferAlive, state, Watched, Waiting, HealthHonest, StartingWaits, ToldByProcess
  <2>. QED
    BY <1>2, <2>1, <2>2 DEF InferenceInv, InferenceHonest, NoneStranded, Watched
<1>4. CASE InferStarting(c)
  <2>1. Settled({c}, "waiting") /\ call[c] = "idle" /\ UNCHANGED <<asked, errors, pending, timers>>
    BY <1>1, <1>4 DEF InferStarting, Wait, Settled, InferenceTypeOK
  <2>2. /\ Accounted' /\ pending' = {x \in Calls : call'[x] = "pending"} /\ timers' = pending'
    BY <1>1, <2>1, UnaskedFail
  <2>3. Watched'
    BY <1>1, <1>4 DEF InferStarting, Wait, state, system, Watched, Waiting, HealthHonest, StartingWaits,
                      ToldByProcess, InferenceTypeOK
  <2>. QED
    BY <1>2, <2>2, <2>3 DEF InferenceInv, InferenceHonest, NoneStranded, Watched
<1>5. CASE InferRefused(c)
  <2>1. /\ Accounted' /\ pending' = {x \in Calls : call'[x] = "pending"} /\ timers' = pending'
    BY <1>1, <1>5, UnaskedFail DEF InferRefused
  <2>2. Watched'
    BY <1>1, <1>5 DEF InferRefused, Settled, system, Watched, Waiting, HealthHonest, StartingWaits,
                      ToldByProcess, InferenceTypeOK
  <2>. QED
    BY <1>2, <2>1, <2>2 DEF InferenceInv, InferenceHonest, NoneStranded, Watched
<1>6. CASE RequestTimeout(c)
  <2>1. c \in pending /\ call[c] = "pending"
    BY <1>1, <1>6 DEF RequestTimeout
  <2>2. /\ Accounted' /\ pending' = {x \in Calls : call'[x] = "pending"} /\ timers' = pending'
    BY <1>1, <1>6, <2>1, OneSettles DEF RequestTimeout
  <2>3. Watched'
    BY <1>1, <1>6 DEF RequestTimeout, state, system, Watched, Waiting, HealthHonest, StartingWaits,
                      ToldByProcess, InferenceTypeOK
  <2>. QED
    BY <1>2, <2>2, <2>3 DEF InferenceInv, InferenceHonest, NoneStranded, Watched
<1>7. ASSUME NEW p \in Procs, InferSpawn(c, p)
      PROVE  InferenceInv'
  <2>1. Settled({c}, "waiting") /\ call[c] = "idle" /\ UNCHANGED <<asked, errors, pending, timers>>
    BY <1>1, <1>7 DEF InferSpawn, Wait, Settled, InferenceTypeOK
  <2>2. /\ Accounted' /\ pending' = {x \in Calls : call'[x] = "pending"} /\ timers' = pending'
    BY <1>1, <2>1, UnaskedFail
  <2>3. Watched'
    <3>1. /\ process' = [process EXCEPT ![p] = "booting"] /\ startup' = [startup EXCEPT ![p] = "waiting"]
          /\ starting' = p /\ alive' = FALSE /\ stdout' = stdout /\ process[p] = "none"
          /\ awaits' = [awaits EXCEPT ![c] = p] /\ call' = [call EXCEPT ![c] = "waiting"]
      BY <1>7 DEF InferSpawn, Wait, Spawn
    <3>2. HealthHonest' /\ StartingWaits' /\ ToldByProcess'
      BY <1>1, <3>1 DEF Watched, HealthHonest, StartingWaits, ToldByProcess, InferenceTypeOK
    <3>3. \A x \in Calls : call'[x] = "waiting" => startup'[awaits'[x]] = "waiting"
      BY <1>1, <3>1 DEF Watched, Waiting, InferenceTypeOK
    <3>. QED
      BY <3>2, <3>3 DEF Watched, Waiting
  <2>. QED
    BY <1>2, <2>2, <2>3 DEF InferenceInv, InferenceHonest, NoneStranded, Watched
<1>. QED
  BY <1>3, <1>4, <1>5, <1>6, <1>7 DEF CallStep

(* A process is heard of, or ends.                                         *)
LEMMA EndedKeeps ==
  ASSUME InferenceInv, NEW p \in Procs, Ended(p)
  PROVE  InferenceInv'
<1>1. /\ InferenceTypeOK /\ Accounted /\ NoneStranded /\ Watched
      /\ pending = {x \in Calls : call[x] = "pending"} /\ timers = pending
  BY DEF InferenceInv, InferenceHonest, NoneStranded, Watched
<1>2. InferenceTypeOK'
  BY <1>1, EndedTypes
<1>3. /\ process' = [process EXCEPT ![p] = "reaped"] /\ alive' = FALSE /\ starting' = NoProc
      /\ stdout' = stdout /\ awaits' = awaits /\ asked' = asked
  BY DEF Ended, Cleared
<1>4. CASE startup[p] = "waiting"
  <2>1. /\ Settled(Awaiting(p), "failed") /\ startup' = [startup EXCEPT ![p] = "failed"]
        /\ UNCHANGED <<pending, timers, errors>>
    BY <1>4 DEF Ended
  <2>2. /\ Accounted' /\ pending' = {x \in Calls : call'[x] = "pending"} /\ timers' = pending'
    <3>1. Awaiting(p) \subseteq Calls /\ \A c \in Awaiting(p) : call[c] = "waiting"
      BY DEF Awaiting, Waiting
    <3>. QED
      BY <1>1, <1>3, <2>1, <3>1, UnaskedFail
  <2>3. \A x \in Calls : call'[x] = "waiting" => startup'[awaits'[x]] = "waiting"
    BY <1>1, <1>3, <2>1 DEF Settled, Awaiting, Waiting, Watched, InferenceTypeOK
  <2>4. HealthHonest' /\ StartingWaits' /\ ToldByProcess'
    BY <1>1, <1>3, <2>1 DEF Watched, HealthHonest, StartingWaits, ToldByProcess, InferenceTypeOK
  <2>. QED
    BY <1>2, <2>2, <2>3, <2>4 DEF InferenceInv, InferenceHonest, NoneStranded, Waiting
<1>5. CASE startup[p] # "waiting"
  <2>1. RejectAllPending /\ startup' = startup
    BY <1>5 DEF Ended
  <2>2. /\ Accounted' /\ pending' = {x \in Calls : call'[x] = "pending"} /\ timers' = pending'
    BY <1>1, <1>3, <2>1, RejectCounts
  <2>3. \A x \in Calls : call'[x] = "waiting" => startup'[awaits'[x]] = "waiting"
    BY <1>1, <1>3, <2>1 DEF RejectAllPending, Settled, Waiting, Watched, InferenceTypeOK
  <2>4. HealthHonest' /\ StartingWaits' /\ ToldByProcess'
    BY <1>1, <1>3, <1>5, <2>1 DEF Watched, HealthHonest, StartingWaits, ToldByProcess, InferenceTypeOK
  <2>. QED
    BY <1>2, <2>2, <2>3, <2>4 DEF InferenceInv, InferenceHonest, NoneStranded, Waiting
<1>. QED
  BY <1>4, <1>5

LEMMA FailStartupKeeps ==
  ASSUME InferenceInv, InferenceTypeOK', NEW p \in Procs, startup[p] = "waiting", FailStartup(p),
         UNCHANGED <<awaits, pending, timers, asked, errors, process>>,
         \A q \in Procs : stdout'[q] \subseteq stdout[q]
  PROVE  InferenceInv'
<1>1. InferenceTypeOK /\ Accounted /\ NoneStranded /\ Watched
  BY DEF InferenceInv, InferenceHonest, NoneStranded, Watched
<1>2. /\ Settled(Awaiting(p), "failed") /\ startup' = [startup EXCEPT ![p] = "failed"]
      /\ alive' = FALSE /\ starting' = NoProc
  BY DEF FailStartup
<1>3. /\ Accounted' /\ pending' = {x \in Calls : call'[x] = "pending"} /\ timers' = pending'
  <2>1. Awaiting(p) \subseteq Calls /\ \A c \in Awaiting(p) : call[c] = "waiting"
    BY DEF Awaiting, Waiting
  <2>. QED
    BY <1>1, <1>2, <2>1, UnaskedFail
<1>4. \A x \in Calls : call'[x] = "waiting" => startup'[awaits'[x]] = "waiting"
  BY <1>1, <1>2 DEF Settled, Awaiting, Waiting, Watched, InferenceTypeOK
<1>5. HealthHonest' /\ StartingWaits' /\ ToldByProcess'
  BY <1>1, <1>2 DEF Watched, HealthHonest, StartingWaits, ToldByProcess, InferenceTypeOK
<1>. QED
  BY <1>3, <1>4, <1>5 DEF InferenceInv, InferenceHonest, NoneStranded, Waiting

(* The calls that waited for this process are asked; others wait on.       *)
LEMMA HearReadyKeeps ==
  ASSUME InferenceInv, NEW p \in Procs, HearReady(p)
  PROVE  InferenceInv'
<1>1. /\ InferenceTypeOK /\ Accounted /\ NoneStranded /\ Watched
      /\ pending = {x \in Calls : call[x] = "pending"} /\ timers = pending
  BY DEF InferenceInv, InferenceHonest, NoneStranded, Watched
<1>2. InferenceTypeOK'
  BY <1>1, ProcStepTypes DEF ProcStep
<1>3. /\ "ready" \in stdout[p] /\ stdout' = [stdout EXCEPT ![p] = @ \ {"ready"}]
      /\ UNCHANGED <<awaits, starting, process>>
  BY DEF HearReady
<1>4. CASE startup[p] = "waiting"
  <2>1. Ask(Awaiting(p)) /\ startup' = [startup EXCEPT ![p] = "ready"] /\ alive' = TRUE
    BY <1>4 DEF HearReady
  <2>2. Awaiting(p) \subseteq Calls /\ \A c \in Awaiting(p) : call[c] = "waiting"
    BY DEF Awaiting, Waiting
  <2>3. /\ Accounted' /\ pending' = {x \in Calls : call'[x] = "pending"} /\ timers' = pending'
    BY <1>1, <2>1, <2>2, AskCounts
  <2>4. \A x \in Calls : call'[x] = "waiting" => startup'[awaits'[x]] = "waiting"
    <3>1. \A x \in Calls : call'[x] = "waiting" => call[x] = "waiting" /\ x \notin Awaiting(p)
      BY <1>1, <2>1, <2>2 DEF Ask, Settled, InferenceTypeOK
    <3>. QED
      BY <1>1, <1>3, <2>1, <3>1 DEF Awaiting, Waiting, Watched, InferenceTypeOK
  <2>5. HealthHonest'
    <3>1. process[p] \in {"up", "gone"}
      BY <1>1, <1>3, <1>4 DEF Watched, ToldByProcess
    <3>. QED
      BY <1>1, <1>3, <2>1, <3>1 DEF HealthHonest, InferenceTypeOK
  <2>6. StartingWaits' /\ ToldByProcess'
    BY <1>1, <1>3, <2>1 DEF Watched, StartingWaits, ToldByProcess, InferenceTypeOK
  <2>. QED
    BY <1>2, <2>3, <2>4, <2>5, <2>6 DEF InferenceInv, InferenceHonest, NoneStranded, Waiting
<1>5. CASE startup[p] # "waiting"
  <2>1. UNCHANGED <<startup, alive, call, pending, timers, asked, errors>>
    BY <1>5 DEF HearReady
  <2>2. ToldByProcess'
    BY <1>1, <1>3, <2>1 DEF Watched, ToldByProcess, InferenceTypeOK
  <2>3. Accounted' /\ NoneStranded' /\ HealthHonest' /\ StartingWaits'
    BY <1>1, <1>3, <2>1 DEF Accounted, NoneStranded, Waiting, Watched, HealthHonest, StartingWaits
  <2>. QED
    BY <1>2, <2>2, <2>3 DEF InferenceInv, InferenceHonest
<1>. QED
  BY <1>4, <1>5

LEMMA HearAnswerKeeps ==
  ASSUME InferenceInv, NEW p \in Procs, NEW c \in Calls, NEW ok \in BOOLEAN, HearAnswer(p, c, ok)
  PROVE  InferenceInv'
<1>1. /\ InferenceTypeOK /\ Accounted /\ NoneStranded /\ Watched
      /\ pending = {x \in Calls : call[x] = "pending"} /\ timers = pending
  BY DEF InferenceInv, InferenceHonest, NoneStranded, Watched
<1>2. InferenceTypeOK'
  BY <1>1, ProcStepTypes DEF ProcStep
<1>3. /\ Accounted' /\ pending' = {x \in Calls : call'[x] = "pending"} /\ timers' = pending'
  <2>1. CASE c \in pending
    <3>1. call' = [call EXCEPT ![c] = IF ok THEN "ok" ELSE "failed"]
      BY <1>1, <2>1 DEF HearAnswer, Settled, InferenceTypeOK
    <3>2. /\ pending' = pending \ {c} /\ timers' = timers \ {c} /\ asked' = asked
          /\ errors' = (IF (IF ok THEN "ok" ELSE "failed") = "ok" THEN errors ELSE errors + 1)
      BY <2>1 DEF HearAnswer
    <3>. QED
      BY <1>1, <2>1, <3>1, <3>2, OneSettles
  <2>2. CASE c \notin pending
    BY <1>1, <2>2 DEF HearAnswer, Accounted
  <2>. QED
    BY <2>1, <2>2
<1>4. \A x \in Calls : call'[x] = "waiting" => call[x] = "waiting"
  BY <1>1 DEF HearAnswer, Settled, InferenceTypeOK
<1>5. Watched'
  <2>1. /\ UNCHANGED <<awaits, starting, alive, process, startup>>
        /\ stdout' = [stdout EXCEPT ![p] = @ \ {c}]
    BY DEF HearAnswer, state
  <2>. QED
    BY <1>1, <1>4, <2>1 DEF Watched, Waiting, HealthHonest, StartingWaits, ToldByProcess, InferenceTypeOK
<1>. QED
  BY <1>2, <1>3, <1>5 DEF InferenceInv, InferenceHonest, NoneStranded, Watched

(* What a process does by itself is seen by nobody yet.                    *)
LEMMA UnseenKeeps ==
  ASSUME InferenceInv, NEW p \in Procs,
         \/ Exits(p)
         \/ \E line \in {"ready", "not_ready"} : Boots(p, line)
         \/ \E c \in Calls : Answers(p, c)
  PROVE  InferenceInv'
<1>1. InferenceTypeOK /\ Accounted /\ NoneStranded /\ Watched
  BY DEF InferenceInv, InferenceHonest, NoneStranded, Watched
<1>2. InferenceTypeOK'
  BY <1>1, ProcStepTypes DEF ProcStep
<1>3. UNCHANGED <<promises, state, startup>>
  BY DEF Exits, Boots, Answers
<1>4. Accounted' /\ NoneStranded' /\ StartingWaits'
  BY <1>1, <1>3 DEF promises, state, Accounted, NoneStranded, Waiting, Watched, StartingWaits
<1>5. HealthHonest' /\ ToldByProcess'
  <2>1. CASE Exits(p)
    BY <1>1, <1>3, <2>1 DEF Exits, state, Watched, HealthHonest, ToldByProcess, InferenceTypeOK
  <2>2. ASSUME NEW line \in {"ready", "not_ready"}, Boots(p, line)
        PROVE  HealthHonest' /\ ToldByProcess'
    BY <1>1, <1>3, <2>2 DEF Boots, state, Watched, HealthHonest, ToldByProcess, InferenceTypeOK
  <2>3. ASSUME NEW c \in Calls, Answers(p, c)
        PROVE  HealthHonest' /\ ToldByProcess'
    BY <1>1, <1>3, <2>3 DEF Answers, state, Watched, HealthHonest, ToldByProcess, InferenceTypeOK
  <2>. QED
    BY <2>1, <2>2, <2>3
<1>. QED
  BY <1>2, <1>4, <1>5 DEF InferenceInv, InferenceHonest

LEMMA ProcStepKeeps ==
  ASSUME InferenceInv, NEW p \in Procs, ProcStep(p)
  PROVE  InferenceInv'
<1>1. InferenceTypeOK' /\ InferenceTypeOK
  BY ProcStepTypes DEF InferenceInv
<1>2. CASE HearNotReady(p)
  <2>1. CASE startup[p] = "waiting"
    BY <1>1, <1>2, <2>1, FailStartupKeeps DEF HearNotReady, InferenceTypeOK
  <2>2. CASE startup[p] # "waiting"
    <3>1. /\ UNCHANGED <<call, awaits, pending, timers, asked, errors, alive, starting, startup, process>>
          /\ \A q \in Procs : stdout'[q] \subseteq stdout[q]
      BY <1>1, <1>2, <2>2 DEF HearNotReady, InferenceTypeOK
    <3>2. Accounted' /\ NoneStranded' /\ HealthHonest' /\ StartingWaits' /\ ToldByProcess'
      BY <3>1 DEF InferenceInv, InferenceHonest, Accounted, NoneStranded, Waiting, HealthHonest,
                  StartingWaits, ToldByProcess
    <3>. QED
      BY <1>1, <3>2 DEF InferenceInv, InferenceHonest
  <2>. QED
    BY <2>1, <2>2
<1>3. CASE StartupTimeout(p)
  BY <1>1, <1>3, FailStartupKeeps DEF StartupTimeout
<1>4. CASE HearReady(p)
  BY <1>4, HearReadyKeeps
<1>5. CASE ExitEvent(p) \/ SpawnError(p)
  BY <1>5, EndedKeeps DEF ExitEvent, SpawnError
<1>. QED
  BY <1>2, <1>3, <1>4, <1>5, UnseenKeeps, HearAnswerKeeps DEF ProcStep

LEMMA ShutdownKeeps ==
  ASSUME InferenceInv, Shutdown
  PROVE  InferenceInv'
<1>1. /\ InferenceTypeOK /\ Accounted /\ NoneStranded /\ Watched
      /\ pending = {x \in Calls : call[x] = "pending"} /\ timers = pending
  BY DEF InferenceInv, InferenceHonest, NoneStranded, Watched
<1>2. InferenceTypeOK'
  BY <1>1, ShutdownTypes
<1>3. /\ Accounted' /\ pending' = {x \in Calls : call'[x] = "pending"} /\ timers' = pending'
  BY <1>1, RejectCounts DEF Shutdown
<1>4. \A x \in Calls : call'[x] = "waiting" => startup'[awaits'[x]] = "waiting"
  BY <1>1 DEF Shutdown, RejectAllPending, Settled, Waiting, Watched, InferenceTypeOK
<1>5. HealthHonest' /\ StartingWaits' /\ ToldByProcess'
  BY <1>1 DEF Shutdown, Watched, HealthHonest, StartingWaits, ToldByProcess
<1>. QED
  BY <1>2, <1>3, <1>4, <1>5 DEF InferenceInv, InferenceHonest, NoneStranded, Waiting

LEMMA InferenceStepKeeps ==
  ASSUME InferenceInv, [InferenceNext]_inferenceVars
  PROVE  InferenceInv'
<1>1. CASE UNCHANGED inferenceVars
  <2>1. UNCHANGED <<call, awaits, pending, timers, asked, errors, worker, starting, alive, restarts,
                    process, startup, stopped, stdin, stdout>>
    BY <1>1 DEF inferenceVars, promises, state, system
  <2>2. InferenceTypeOK'
    BY <2>1 DEF InferenceInv, InferenceTypeOK
  <2>3. Accounted' /\ NoneStranded'
    BY <2>1 DEF InferenceInv, InferenceHonest, Accounted, NoneStranded, Waiting
  <2>4. HealthHonest' /\ StartingWaits' /\ ToldByProcess'
    BY <2>1 DEF InferenceInv, InferenceHonest, HealthHonest, StartingWaits, ToldByProcess
  <2>. QED
    BY <2>2, <2>3, <2>4 DEF InferenceInv, InferenceHonest
<1>2. CASE InferenceNext
  BY <1>2, CallStepKeeps, ProcStepKeeps, ShutdownKeeps DEF InferenceNext
<1>. QED
  BY <1>1, <1>2

(* The inductive invariant of the process manager holds of every behaviour *)
(* (server/api/pythonInference.js).                                        *)
THEOREM InferenceInductive == InferenceSpec => []InferenceInv
<1>1. InferenceInv /\ [InferenceNext]_inferenceVars => InferenceInv'
  BY InferenceStepKeeps
<1>. QED
  BY InferenceStarts, <1>1, PTL DEF InferenceSpec

(* Whatever the processes and the timers do, each call that was asked is   *)
(* pending, answered or counted as an error, once; a call that waits can   *)
(* still be settled; health() tells of a living worker only while there is *)
(* one (settleRequest, the exit handler, shutdown, health).                *)
THEOREM CallsAreHonest == InferenceSpec => []InferenceHonest
<1>1. InferenceInv => InferenceHonest
  BY DEF InferenceInv
<1>. QED
  BY InferenceInductive, <1>1, PTL

----------------------------------------------------------------------------
(* Side by side.  The four share the datasets only; a step of one leaves   *)
(* what is known of the others, whichever is in focus.                     *)

ResearchInv == TrainInv /\ LabInv /\ InferenceInv

LEMMA ResearchStarts == Init => ResearchInv
BY TrainStarts, LabStarts, InferenceStarts DEF Init, ResearchInv

LEMMA ResearchStepKeeps == ResearchInv /\ [Next]_vars => ResearchInv'
<1>. SUFFICES ASSUME ResearchInv, [Next]_vars PROVE ResearchInv'
  OBVIOUS
<1>1. TrainInv /\ IInv /\ LabInv /\ InferenceInv
  BY DEF ResearchInv, TrainInv
<1>2. ([DataNext]_dataVars /\ UNCHANGED trainVars) \/ [TrainNext]_allTrainVars
  BY DEF Next, vars, allTrainVars
<1>3. [LabNext]_labVars
  BY DEF Next, vars
<1>4. [InferenceNext]_inferenceVars
  BY DEF Next, vars
<1>5. TrainInv'
  <2>1. CASE [DataNext]_dataVars /\ UNCHANGED trainVars
    <3>1. IInv'
      BY <1>1, <2>1, NextKeeps
    <3>. QED
      BY <1>1, <2>1, <3>1, DataStepKeepsTraining
  <2>2. CASE [TrainNext]_allTrainVars
    BY <1>1, <2>2, TrainStepKeeps
  <2>. QED
    BY <1>2, <2>1, <2>2
<1>6. LabInv'
  BY <1>1, <1>3, LabStepKeeps
<1>7. InferenceInv'
  BY <1>1, <1>4, InferenceStepKeeps
<1>. QED
  BY <1>5, <1>6, <1>7 DEF ResearchInv

(* Every variable of the four keeps to its type while they run side by     *)
(* side: rows, files and requests of the datasets, trainings and models,   *)
(* strategies and attachments, and the calls, timers and processes of      *)
(* inference.                                                              *)
THEOREM ResearchTypeCorrect == Spec => []TypeOK
<1>1. ResearchInv => TypeOK
  <2>. SUFFICES ASSUME ResearchInv PROVE TypeOK
    OBVIOUS
  <2>1. DataTypeOK
    BY DEF ResearchInv, TrainInv, IInv
  <2>2. TrainTypeOK /\ LabTypeOK
    BY TrainTypes, LabTypes DEF ResearchInv
  <2>3. InferenceTypeOK
    BY DEF ResearchInv, InferenceInv
  <2>. QED
    BY <2>1, <2>2, <2>3 DEF TypeOK
<1>. QED
  BY <1>1, ResearchStarts, ResearchStepKeeps, PTL DEF Spec

(* And so do rows keep their files, models their data, strategies their    *)
(* results and calls their count.                                          *)
THEOREM ResearchIsHonest == Spec => [](FilesBehindRows /\ ModelTellsItsData /\ InferenceHonest)
<1>1. ResearchInv => FilesBehindRows /\ ModelTellsItsData /\ InferenceHonest
  BY DEF ResearchInv, TrainInv, IInv, InferenceInv
<1>. QED
  BY <1>1, ResearchStarts, ResearchStepKeeps, PTL DEF Spec
=============================================================================
