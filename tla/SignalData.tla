----------------------------- MODULE SignalData -----------------------------
(***************************************************************************)
(* What the Python models are trained on: the labels of the bars           *)
(* (server/ai/training/label_builder.py), the dataset that is saved        *)
(* (dataset_builder.py) and the split of training (train_pipeline.py).     *)
(* A bar has an open and a close, in cents, and may lack features, as the  *)
(* first bars of a file do.  NoPrice is a price that is not finite.        *)
(***************************************************************************)
EXTENDS Integers, Filter, SequencesExt

CONSTANTS
  BarFiles,   \* the sequences of bars a file may hold
  Horizons,
  Ratios,     \* the shares of training and validation, in hundredths
  NoPrice,
  Tau,        \* the threshold of a move, in thousandths
  NoLabel,
  NoPrepared

ASSUME HorizonAssumption == Horizons \subseteq Nat \ {0} /\ Tau \in Nat \ {0}
ASSUME RatioAssumption == Ratios \subseteq [train : Int, val : Int]
ASSUME BarAssumption ==
  BarFiles \subseteq Seq([open : Nat \cup {NoPrice}, close : Nat \cup {NoPrice},
                         features : {"some", "all"}])

VARIABLES
  file,      \* the bars of the file
  prepared   \* what the last preparation gave

dataPrepVars == <<file, prepared>>

Labels == {"short", "neutral", "long"}

----------------------------------------------------------------------------
(* The labels of bar t: bought at the next open, sold horizon bars on. *)

Labelled(bars, horizon) == 1 .. Len(bars) - horizon

Fill(bars, t)          == bars[t + 1].open
Sale(bars, t, horizon) == bars[t + horizon].close

Tradable(bars, t, horizon) ==
  Fill(bars, t) \notin {NoPrice, 0} /\ Sale(bars, t, horizon) # NoPrice

Outcome(fill, sale) ==
  IF (sale - fill) * 1000 >= Tau * fill THEN "long"
  ELSE IF (sale - fill) * 1000 <= -Tau * fill THEN "short" ELSE "neutral"

\* Mutant: one bar more is labelled.
P1LabelOneMore(bars, t, horizon) ==
  IF t \notin 1 .. Len(bars) - horizon + 1 THEN NoLabel
  ELSE IF t \in Labelled(bars, horizon) /\ Tradable(bars, t, horizon)
  THEN Outcome(Fill(bars, t), Sale(bars, t, horizon)) ELSE "neutral"

(* For training a bar that cannot be traded is neutral. *)
P1Label(bars, t, horizon) ==
  IF t \notin Labelled(bars, horizon) THEN NoLabel
  ELSE IF Tradable(bars, t, horizon) THEN Outcome(Fill(bars, t), Sale(bars, t, horizon)) ELSE "neutral"

(* For a dataset it has no label. *)
DatasetLabel(bars, t, horizon) ==
  IF t \in Labelled(bars, horizon) /\ Tradable(bars, t, horizon)
  THEN Outcome(Fill(bars, t), Sale(bars, t, horizon)) ELSE NoLabel

----------------------------------------------------------------------------
(* The rows, by the number of their bar: those with a label and every      *)
(* feature.                                                                *)

HasFeatures(bars, t) == bars[t].features = "all"

Rows(bars, label) ==
  Filtered([t \in DOMAIN bars |-> t], {t \in DOMAIN bars : label[t] # NoLabel /\ HasFeatures(bars, t)})

(* The cuts of the split: the whole part of a share of the rows, and where *)
(* it is, from the end of the rows when negative.                          *)
WholePart(n, share)  == IF share < 0 THEN -((n * (-share)) \div 100) ELSE (n * share) \div 100
TrainEnd(n, r) == WholePart(n, r.train)
ValEnd(n, r)   == WholePart(n, r.train + r.val)
Place(n, k)    == IF k < 0 THEN n + k ELSE k

\* Mutant: the row before a cut is in both parts.
PartsOverlap(rows, r) ==
  LET n == Len(rows)
      a == Place(n, TrainEnd(n, r))
      b == Place(n, ValEnd(n, r))
  IN  [train |-> SubSeq(rows, 1, a), val |-> SubSeq(rows, a, b), test |-> SubSeq(rows, b, n)]

Parts(rows, r) ==
  LET n == Len(rows)
      a == Place(n, TrainEnd(n, r))
      b == Place(n, ValEnd(n, r))
  IN  [train |-> SubSeq(rows, 1, a), val |-> SubSeq(rows, a + 1, b), test |-> SubSeq(rows, b + 1, n)]

(* A cut has a row before it and one after, in this order. *)
CutsRows(n, k) == k - 1 >= -n /\ k < n /\ Place(n, k - 1) < Place(n, k)

(* Training goes on when both cuts do, the validation rows are as many as  *)
(* the horizon, and there are rows to evaluate.                            *)
SplitAccepted(rows, r, horizon) ==
  LET n == Len(rows) IN
  /\ CutsRows(n, TrainEnd(n, r)) /\ CutsRows(n, ValEnd(n, r))
  /\ ValEnd(n, r) - TrainEnd(n, r) >= horizon
  /\ Parts(rows, r).val # <<>>

----------------------------------------------------------------------------
PrepInit == file \in BarFiles /\ prepared = NoPrepared

(* The head of train_pipeline. *)
PreparesTraining(horizon, r) ==
  LET rows == Rows(file, [t \in DOMAIN file |-> P1Label(file, t, horizon)]) IN
  /\ prepared' = IF SplitAccepted(rows, r, horizon)
                 THEN [for |-> "training", horizon |-> horizon, rows |-> rows, parts |-> Parts(rows, r)]
                 ELSE NoPrepared
  /\ UNCHANGED file

(* build_dataset, and load_dataset of what it saved: one part. *)
BuildsDataset(horizon) ==
  LET rows == Rows(file, [t \in DOMAIN file |-> DatasetLabel(file, t, horizon)]) IN
  /\ prepared' = [for |-> "dataset", horizon |-> horizon, rows |-> rows,
                  parts |-> [train |-> rows, val |-> <<>>, test |-> <<>>]]
  /\ UNCHANGED file

PrepNext == \E h \in Horizons : (\E r \in Ratios : PreparesTraining(h, r)) \/ BuildsDataset(h)

PrepSpec == PrepInit /\ [][PrepNext]_dataPrepVars

PrepTypeOK ==
  prepared # NoPrepared =>
    /\ prepared.for \in {"training", "dataset"} /\ prepared.horizon \in Horizons
    /\ \A i \in DOMAIN prepared.rows : prepared.rows[i] \in DOMAIN file

----------------------------------------------------------------------------
(* The rows of a dataset or a training are in the order of their bars,     *)
(* every one's sale is a bar of the file, and the parts together are the   *)
(* rows, each once and in order, whatever the ratios (train_pipeline.py:   *)
(* 143-160, label_builder.py:180-197).  There is no gap between the parts: *)
(* the labels of the last horizon rows of one may be prices of the next,   *)
(* and only theirs.                                                        *)
EveryRowOnce ==
  prepared # NoPrepared =>
    /\ prepared.parts.train \o prepared.parts.val \o prepared.parts.test = prepared.rows
    /\ \A i \in DOMAIN prepared.rows :
         /\ prepared.rows[i] + prepared.horizon \in DOMAIN file
         /\ i > 1 => prepared.rows[i - 1] < prepared.rows[i]
    /\ \A part \in {prepared.parts.train, prepared.parts.val} :
         \A i \in DOMAIN part : i + prepared.horizon <= Len(part) =>
           part[i] + prepared.horizon <= Last(part)
=============================================================================
