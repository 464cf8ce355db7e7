----------------------------- MODULE MiniTrainer -----------------------------
(***************************************************************************)
(* MiniTrainer.train (mini_trainer.py lines 38-122) and the script around  *)
(* it (lines 128-145): for every operating-unit data set read from the     *)
(* input CSV files, train every method with every target transformer,      *)
(* keep the model with the lowest test error on the elapsed-time target    *)
(* among those trained with the last transformer, record its predictions,  *)
(* and finally pickle the map of selected models.  Training is abstracted  *)
(* to the test error it yields, a value of a small set; the values below   *)
(* One stand for errors below 1.0, the initial min_percentage_error.       *)
(***************************************************************************)
EXTENDS Naturals, Sequences, FiniteSets

CONSTANTS
    Opunits,            \* operating units
    ArithmeticOpunits,  \* data_info.arithmetic_opunits
    TransformedOpunits, \* opunits with a modeling transformer
    MLModels,           \* --ml_models, a sequence of method names
    Errors,             \* test errors a trained model may have
    One,                \* the error 1.0
    MaxData             \* data sets read from the input files

ASSUME MiniTrainerAssumption ==
    /\ ArithmeticOpunits \subseteq Opunits
    /\ TransformedOpunits \subseteq Opunits
    /\ MLModels \in Seq({"lr", "rf", "nn"}) /\ Len(MLModels) > 0
    /\ Errors \subseteq Nat /\ One \in Nat
    /\ MaxData \in Nat \ {0}

\* Lines 63-66: the methods tried for an opunit.
MethodsOf(op) == IF op \in ArithmeticOpunits THEN <<"lr">> ELSE MLModels

\* Lines 69-72: no transformer, then the opunit's modeling transformer.
TransformersOf(op) ==
    IF op \in TransformedOpunits THEN <<"none", "target">> ELSE <<"none">>

\* A trained regressor: the data set, transformer and method it was trained
\* with and its test error on elapsed_us.
Candidate == [data : 1..MaxData, transformer : {"none", "target"},
              method : {"lr", "rf", "nn"}, err : Errors]
NoModel == [data |-> 0, transformer |-> "none", method |-> "lr", err |-> One]

PCs == {"data", "train", "record", "done", "saved"}

VARIABLES
    dataList,   \* data_list (lines 44-49)
    pc,
    di,         \* index into data_list (line 53)
    ti, mi,     \* indices of the transformer and method loops (78-79)
    minErr,     \* min_percentage_error (line 74)
    predResults,\* pred_results (line 75): the candidate it came from
    modelMap,   \* model_map (line 51)
    trained,    \* the candidates trained on the current data set (history)
    predictions,\* what record_predictions wrote, per data set
    saved       \* the map pickled at line 145

vars == <<dataList, pc, di, ti, mi, minErr, predResults, modelMap, trained,
          predictions, saved>>

Op == dataList[di]

Init ==
    /\ dataList \in UNION {[1..n -> Opunits] : n \in 1..MaxData}
    /\ pc = "data"
    /\ di = 1
    /\ ti = 1
    /\ mi = 1
    /\ minErr = One
    /\ predResults = NoModel
    /\ modelMap = [op \in Opunits |-> NoModel]
    /\ trained = {}
    /\ predictions = [j \in 1..MaxData |-> NoModel]
    /\ saved = [op \in Opunits |-> NoModel]

-----------------------------------------------------------------------------
\* Mutant: min_percentage_error is initialised once, before the data loop.
StartDataKeepsMin ==
    /\ pc = "data"
    /\ ti' = 1
    /\ mi' = 1
    /\ predResults' = NoModel
    /\ trained' = {}
    /\ pc' = "train"
    /\ UNCHANGED <<dataList, di, minErr, modelMap, predictions, saved>>

(* Lines 53-76: the next data set; the metrics and prediction files are    *)
(* created, the loops start, no model is selected yet.                     *)
StartData ==
    /\ pc = "data"
    /\ ti' = 1
    /\ mi' = 1
    /\ minErr' = One
    /\ predResults' = NoModel
    /\ trained' = {}
    /\ pc' = "train"
    /\ UNCHANGED <<dataList, di, modelMap, predictions, saved>>

\* Mutant: the method loop runs one index past the end of the list.
MethodLoopDoneLate == mi = Len(MethodsOf(Op)) + 1

\* Line 79: the method just trained is the last of methods.
MethodLoopDone == mi = Len(MethodsOf(Op))

(* Lines 80-113 and the end of the method loop (117): train one method     *)
(* with one transformer; its test error on elapsed_us (i == 1) replaces    *)
(* the selected model when it is lower than the lowest so far and the      *)
(* transformer is the last one of the list (lines 103-107).                *)
TrainModel ==
    LET ts == TransformersOf(Op)
        ms == MethodsOf(Op)
    IN
    /\ pc = "train"
    /\ \E e \in Errors :
          LET c == [data |-> di, transformer |-> ts[ti], method |-> ms[mi],
                    err |-> e]
          IN  /\ trained' = trained \cup {c}
              /\ IF e < minErr /\ ti = Len(ts)
                 THEN /\ minErr' = e
                      /\ modelMap' = [modelMap EXCEPT ![Op] = c]
                      /\ predResults' = c
                 ELSE UNCHANGED <<minErr, modelMap, predResults>>
    /\ IF ~MethodLoopDone
       THEN mi' = mi + 1 /\ UNCHANGED <<ti, pc>>
       ELSE /\ mi' = 1
            /\ ti' = ti + 1
            /\ pc' = IF ti = Len(ts) THEN "record" ELSE "train"
    /\ UNCHANGED <<dataList, di, predictions, saved>>

(* Line 120: record_predictions(pred_results, prediction_path), then the   *)
(* next data set or the end of train (line 122).                           *)
RecordPredictions ==
    /\ pc = "record"
    /\ predictions' = [predictions EXCEPT ![di] = predResults]
    /\ IF di < Len(dataList)
       THEN di' = di + 1 /\ pc' = "data"
       ELSE pc' = "done" /\ UNCHANGED di
    /\ UNCHANGED <<dataList, ti, mi, minErr, predResults, modelMap, trained,
                   saved>>

\* Lines 143-145: pickle the map train returned.
SaveModelMap ==
    /\ pc = "done"
    /\ saved' = modelMap
    /\ pc' = "saved"
    /\ UNCHANGED <<dataList, di, ti, mi, minErr, predResults, modelMap,
                   trained, predictions>>

Terminated ==
    /\ pc = "saved"
    /\ UNCHANGED vars

Next ==
    StartData \/ TrainModel \/ RecordPredictions \/ SaveModelMap \/ Terminated

Spec == Init /\ [][Next]_vars

-----------------------------------------------------------------------------
(* Properties                                                              *)

TypeOK ==
    /\ dataList \in Seq(Opunits) /\ Len(dataList) \in 1..MaxData
    /\ pc \in PCs
    /\ di \in 1..Len(dataList)
    /\ ti \in 1..3
    /\ mi \in 1..Len(MethodsOf(Op))
    /\ minErr \in Errors \cup {One}
    /\ predResults \in Candidate \cup {NoModel}
    /\ modelMap \in [Opunits -> Candidate \cup {NoModel}]
    /\ trained \subseteq Candidate
    /\ predictions \in [1..MaxData -> Candidate \cup {NoModel}]
    /\ saved \in [Opunits -> Candidate \cup {NoModel}]

\* The candidates of the current data set that the selection may pick.
Eligible ==
    {c \in trained : c.transformer = TransformersOf(Op)[Len(TransformersOf(Op))]
                     /\ c.err < One}

(* When the predictions of a data set are recorded (line 120), the model   *)
(* stored for its opunit is the eligible candidate of this data set with   *)
(* the lowest test error, and the predictions recorded are that model's;   *)
(* with no eligible candidate, no prediction is recorded.                  *)
SelectedIsBest ==
    pc = "record" =>
        IF Eligible = {}
        THEN predResults = NoModel
        ELSE /\ modelMap[Op] \in Eligible
             /\ \A c \in Eligible : modelMap[Op].err <= c.err
             /\ predResults = modelMap[Op]

=============================================================================
