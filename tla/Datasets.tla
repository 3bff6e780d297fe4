------------------------------ MODULE Datasets ------------------------------
(***************************************************************************)
(* Historical datasets (server/historical/historicalDataService.js,        *)
(* historicalDatasetRegistry.js, the routes of api/historicalRoutes.js).   *)
(* A dataset is a row of the registry file and two files, an archive in    *)
(* JSON and a CSV for training, in the directory of the purpose it was     *)
(* downloaded for.  Its id is made of the symbol, the dates and the        *)
(* provider: the purpose is not in it, and a download for another purpose  *)
(* takes the row over.                                                     *)
(*                                                                         *)
(* A download awaits the provider and then writes both files and the row   *)
(* without a pause.  A delete awaits the removal of each file and removes  *)
(* the row at the end.  Any number of both are under way together.         *)
(***************************************************************************)
EXTENDS Integers, Sequences, FiniteSets

CONSTANTS
  DatasetIds,
  Dirs,          \* the directories of the purposes
  Extents,       \* what a provider may bring: how many rows, from when to when
  Downloads,     \* requests to download that may be under way at once
  Deletes,       \* requests to delete that may be under way at once
  NoRow,
  MaxFetches     \* bound: answers of a provider

ASSUME FetchAssumption == MaxFetches \in Nat
ASSUME RowAssumption   == NoRow \notin Dirs
ASSUME ExtentAssumption == {"missing", "empty"} \cap Extents = {}

VARIABLES
  rows,       \* the registry: the directory of each dataset's files
  files,      \* the files on the disk
  download,   \* each download: the datasets still to fetch, and where to
  removal,    \* each delete: the record it has read, and how far it is
  fetches,    \* how many fetches have been answered
  torn        \* datasets that a crash or a failing write has left half done

dataVars == <<rows, files, download, removal, fetches, torn>>

Kinds == {"json", "csv"}

(* What a file holds besides an extent. *)
Missing == "missing"
Empty   == "empty"

File(id, dir, kind) == <<id, dir, kind>>

Download == [left : Seq(DatasetIds), dir : Dirs \cup {NoRow}]
Removal  == [id : DatasetIds \cup {NoRow}, dir : Dirs \cup {NoRow},
             at : {"idle", "unlinks_json", "json_gone", "unlinks_csv", "csv_gone"}]

NoDownload == [left |-> <<>>, dir |-> NoRow]
NoRemoval  == [id |-> NoRow, dir |-> NoRow, at |-> "idle"]

(* A delete is removing the files that the dataset's row names. *)
UnlinkedBy(d, id) == removal[d].at # "idle" /\ removal[d].id = id /\ removal[d].dir = rows[id]
Removing(id)      == \E d \in Deletes : UnlinkedBy(d, id)

Exists(f) == files[f] # Missing
Filled(f) == files[f] \in Extents

DataTypeOK ==
  /\ rows \in [DatasetIds -> Dirs \cup {NoRow}]
  /\ files \in [DatasetIds \X Dirs \X Kinds -> Extents \cup {Missing, Empty}]
  /\ download \in [Downloads -> Download]
  /\ \A q \in Downloads : download[q].left # <<>> => download[q].dir \in Dirs
  /\ removal \in [Deletes -> Removal]
  /\ \A d \in Deletes : removal[d].at # "idle" => removal[d].id \in DatasetIds /\ removal[d].dir \in Dirs
  /\ fetches \in 0 .. MaxFetches /\ torn \subseteq DatasetIds

DataInit ==
  /\ rows = [id \in DatasetIds |-> NoRow]
  /\ files = [f \in DatasetIds \X Dirs \X Kinds |-> Missing]
  /\ download = [q \in Downloads |-> NoDownload]
  /\ removal = [d \in Deletes |-> NoRemoval]
  /\ fetches = 0 /\ torn = {}

----------------------------------------------------------------------------
(* Downloads.  A request names one or more symbols, one dataset each, and  *)
(* fetches them one after the other.                                       *)

RequestDownload(q, ids, dir) ==
  /\ download[q] = NoDownload
  /\ download' = [download EXCEPT ![q] = [left |-> ids, dir |-> dir]]
  /\ UNCHANGED <<rows, files, removal, fetches, torn>>

FetchUnderWay(q) == download[q].left # <<>> /\ fetches < MaxFetches /\ fetches' = fetches + 1

AfterThis(q) ==
  LET rest == Tail(download[q].left)
  IN download' = [download EXCEPT ![q] = IF rest = <<>> THEN NoDownload ELSE [@ EXCEPT !.left = rest]]

(* Both files are written, then the row: a row that is there is replaced,  *)
(* and with it the only record of the files in another directory.          *)
FetchOk(q, extent) ==
  /\ FetchUnderWay(q)
  /\ LET id == Head(download[q].left)
         dir == download[q].dir
         written == {File(id, dir, "json"), File(id, dir, "csv")}
     IN /\ files' = [f \in DOMAIN files |-> IF f \in written THEN extent ELSE files[f]]
        /\ rows' = [rows EXCEPT ![id] = dir]
        /\ torn' = torn \ {id}
  /\ AfterThis(q)
  /\ UNCHANGED removal

(* The provider has no candles or an error: the next symbol is fetched all *)
(* the same, and what was fetched before stays.                            *)
FetchFails(q) ==
  /\ FetchUnderWay(q) /\ AfterThis(q)
  /\ UNCHANGED <<rows, files, removal, torn>>

(* A write throws.  The file it was writing is left empty or cut short,    *)
(* the request is over, and the row stays as it was.                       *)
WriteFails(q, kind, extent) ==
  /\ FetchUnderWay(q)
  /\ LET id == Head(download[q].left)
         dir == download[q].dir
     IN /\ \E left \in {Empty, extent} :
             files' = [files EXCEPT ![File(id, dir, kind)] = left,
                                    ![File(id, dir, "json")] =
                                      IF kind = "csv" THEN extent ELSE left]
        /\ torn' = IF rows[id] = dir THEN torn \cup {id} ELSE torn
  /\ download' = [download EXCEPT ![q] = NoDownload]
  /\ UNCHANGED <<rows, removal>>

----------------------------------------------------------------------------
(* Deletes.  The record is read once; whether a file is there is asked     *)
(* when its turn comes.                                                    *)

\* Mutant: the files go and the row stays.
FinishKept(d, id) ==
  /\ UNCHANGED rows
  /\ removal' = [removal EXCEPT ![d] = NoRemoval]

Finish(d, id) ==
  /\ rows' = [rows EXCEPT ![id] = NoRow]
  /\ removal' = [removal EXCEPT ![d] = NoRemoval]

(* kinds: the files whose turn is still to come; the archive goes first. *)
Proceed(d, id, dir, kinds) ==
  LET there == {k \in kinds : Exists(File(id, dir, k))}
  IN IF there = {}
       THEN Finish(d, id)
       ELSE /\ removal' = [removal EXCEPT ![d] =
                             [id |-> id, dir |-> dir,
                              at |-> IF "json" \in there THEN "unlinks_json" ELSE "unlinks_csv"]]
            /\ UNCHANGED rows

StartDelete(d, id) ==
  /\ removal[d].at = "idle" /\ rows[id] # NoRow
  /\ Proceed(d, id, rows[id], Kinds)
  /\ UNCHANGED <<files, download, fetches, torn>>

(* The thread pool removes the file; one that has gone is no error. *)
Unlink(d, kind) ==
  /\ removal[d].at = (IF kind = "json" THEN "unlinks_json" ELSE "unlinks_csv")
  /\ files' = [files EXCEPT ![File(removal[d].id, removal[d].dir, kind)] = Missing]
  /\ removal' = [removal EXCEPT ![d].at = IF kind = "json" THEN "json_gone" ELSE "csv_gone"]
  /\ UNCHANGED <<rows, download, fetches, torn>>

Unlinked(d) ==
  /\ removal[d].at \in {"json_gone", "csv_gone"}
  /\ Proceed(d, removal[d].id, removal[d].dir,
             IF removal[d].at = "json_gone" THEN {"csv"} ELSE {})
  /\ UNCHANGED <<files, download, fetches, torn>>

(* A restart forgets the requests.  Files and rows stay. *)
DataRestart ==
  /\ download' = [q \in Downloads |-> NoDownload]
  /\ removal' = [d \in Deletes |-> NoRemoval]
  /\ torn' = torn \cup {id \in DatasetIds : Removing(id)}
  /\ UNCHANGED <<rows, files, fetches>>

(* A request names its symbols without repetition. *)
Wishes == {<<id>> : id \in DatasetIds} \cup {w \in DatasetIds \X DatasetIds : w[1] # w[2]}

DataStep ==
  \/ \E q \in Downloads :
       \/ \E ids \in Wishes, dir \in Dirs : RequestDownload(q, ids, dir)
       \/ \E extent \in Extents :
            \/ FetchOk(q, extent)
            \/ \E kind \in Kinds : WriteFails(q, kind, extent)
       \/ FetchFails(q)
  \/ \E d \in Deletes :
       \/ \E id \in DatasetIds : StartDelete(d, id)
       \/ \E kind \in Kinds : Unlink(d, kind)
       \/ Unlinked(d)

DataNext == DataStep \/ DataRestart

DataSpec == DataInit /\ [][DataNext]_dataVars

----------------------------------------------------------------------------
(* A registered dataset has both its files, full.  Only while a delete of  *)
(* them is under way, or after a crash or a failing write cut one of its     *)
(* steps short, may it be otherwise: no interleaving of downloads, for     *)
(* whatever purpose, with deletes leaves a row without its files           *)
(* (historicalDataService.js:139-168 and :404-417).                        *)
FilesBehindRows ==
  \A id \in DatasetIds :
    rows[id] # NoRow /\ ~Removing(id) /\ id \notin torn
      => \A kind \in Kinds : Filled(File(id, rows[id], kind))
=============================================================================
