--------------------------- MODULE MiniTrainer_proofs ---------------------------
(***************************************************************************)
(* Proofs about MiniTrainer.train (mini_trainer.py): the state stays well  *)
(* typed, and whenever the predictions of a data set are recorded the      *)
(* model stored for its opunit is the best eligible candidate of that data *)
(* set, for every set of opunits, methods, errors and data sets.           *)
(***************************************************************************)
EXTENDS MiniTrainer, TLAPS

\* The loop state of a data set being trained: the selection so far is the
\* eligible candidate with the lowest error, min_percentage_error is its
\* error, and pred_results are its predictions; with no eligible candidate
\* yet, min_percentage_error is still 1.0 and nothing is predicted.
BestSoFar ==
    IF Eligible = {}
    THEN predResults = NoModel /\ minErr = One
    ELSE /\ modelMap[Op] \in Eligible
         /\ \A c \in Eligible : modelMap[Op].err <= c.err
         /\ predResults = modelMap[Op]
         /\ minErr = modelMap[Op].err

(***************************************************************************)
(* The inductive invariant: the types, the transformer loop within the     *)
(* opunit's transformers while training, and the selection so far.         *)
(***************************************************************************)
IInv ==
    /\ TypeOK
    /\ pc = "train" => ti \in 1..Len(TransformersOf(Op))
    /\ pc # "train" => mi = 1
    /\ pc \in {"train", "record"} => BestSoFar

-----------------------------------------------------------------------------
(* Facts about the loops' lists.                                           *)

\* Lines 63-66: every opunit has at least one method.
LEMMA MethodsFacts ==
    ASSUME NEW op
    PROVE  /\ MethodsOf(op) \in Seq({"lr", "rf", "nn"})
           /\ Len(MethodsOf(op)) \in Nat \ {0}
<1>1. CASE op \in ArithmeticOpunits
  <2>1. MethodsOf(op) = <<"lr">>
    BY <1>1 DEF MethodsOf
  <2>. QED BY <2>1
<1>2. CASE op \notin ArithmeticOpunits
  <2>1. MethodsOf(op) = MLModels
    BY <1>2 DEF MethodsOf
  <2>. QED BY <2>1, MiniTrainerAssumption
<1>. QED BY <1>1, <1>2

\* Lines 69-72: one or two transformers, the last one different from the
\* others.
LEMMA TransformersFacts ==
    ASSUME NEW op
    PROVE  /\ TransformersOf(op) \in Seq({"none", "target"})
           /\ Len(TransformersOf(op)) \in {1, 2}
           /\ \A t \in 1..Len(TransformersOf(op)) :
                 TransformersOf(op)[t] = TransformersOf(op)[Len(TransformersOf(op))]
                    => t = Len(TransformersOf(op))
<1>1. CASE op \in TransformedOpunits
  <2>1. TransformersOf(op) = <<"none", "target">>
    BY <1>1 DEF TransformersOf
  <2>. QED BY <2>1
<1>2. CASE op \notin TransformedOpunits
  <2>1. TransformersOf(op) = <<"none">>
    BY <1>2 DEF TransformersOf
  <2>. QED BY <2>1
<1>. QED BY <1>1, <1>2

\* The candidate trained with the current transformer and method.
Cand(e) == [data |-> di, transformer |-> TransformersOf(Op)[ti],
            method |-> MethodsOf(Op)[mi], err |-> e]

-----------------------------------------------------------------------------
LEMMA InitIInv == Init => IInv
<1> SUFFICES ASSUME Init PROVE IInv
  OBVIOUS
<1>1. PICK n \in 1..MaxData : dataList \in [1..n -> Opunits]
  BY DEF Init
<1>2. dataList \in Seq(Opunits) /\ Len(dataList) = n
  BY <1>1, MiniTrainerAssumption
<1>3. Op \in Opunits
  BY <1>1, <1>2, MiniTrainerAssumption DEF Init, Op
<1>4. mi \in 1..Len(MethodsOf(Op))
  BY MethodsFacts DEF Init
<1>. QED BY <1>2, <1>3, <1>4, MiniTrainerAssumption
         DEF Init, IInv, TypeOK, PCs, NoModel, Candidate

LEMMA NextIInv == IInv /\ [Next]_vars => IInv'
<1> SUFFICES ASSUME IInv, [Next]_vars PROVE IInv'
  OBVIOUS
<1>0. /\ Op \in Opunits
      /\ Len(dataList) \in 1..MaxData
      /\ di \in 1..Len(dataList)
  BY DEF IInv, TypeOK, Op
<1>1. CASE StartData
  <2>1. Eligible' = {}
    BY <1>1 DEF StartData, Eligible
  <2>2. TypeOK'
    BY <1>1, <1>0, MethodsFacts, MiniTrainerAssumption
       DEF StartData, IInv, TypeOK, PCs, NoModel, Op
  <2>3. ti' \in 1..Len(TransformersOf(Op'))
    BY <1>1, TransformersFacts DEF StartData, Op
  <2>. QED BY <1>1, <2>1, <2>2, <2>3 DEF StartData, IInv, BestSoFar
<1>2. CASE TrainModel
  <2>1. PICK e \in Errors :
            /\ pc = "train"
            /\ trained' = trained \cup {Cand(e)}
            /\ IF e < minErr /\ ti = Len(TransformersOf(Op))
               THEN /\ minErr' = e
                    /\ modelMap' = [modelMap EXCEPT ![Op] = Cand(e)]
                    /\ predResults' = Cand(e)
               ELSE UNCHANGED <<minErr, modelMap, predResults>>
            /\ IF ~MethodLoopDone
               THEN mi' = mi + 1 /\ UNCHANGED <<ti, pc>>
               ELSE /\ mi' = 1
                    /\ ti' = ti + 1
                    /\ pc' = IF ti = Len(TransformersOf(Op)) THEN "record"
                             ELSE "train"
            /\ UNCHANGED <<dataList, di, predictions, saved>>
    BY <1>2 DEF TrainModel, Cand
  <2>2. /\ ti \in 1..Len(TransformersOf(Op))
        /\ mi \in 1..Len(MethodsOf(Op))
        /\ Op' = Op
    BY <2>1 DEF IInv, TypeOK, Op
  <2>3. Cand(e) \in Candidate
    BY <2>2, <1>0, MethodsFacts, TransformersFacts, MiniTrainerAssumption
       DEF Cand, Candidate
  <2>4. TypeOK'
    <3>1. /\ minErr' \in Errors \cup {One}
          /\ predResults' \in Candidate \cup {NoModel}
          /\ modelMap' \in [Opunits -> Candidate \cup {NoModel}]
          /\ trained' \subseteq Candidate
      BY <2>1, <2>3, <1>0 DEF IInv, TypeOK
    <3>2. /\ ti' \in 1..3
          /\ mi' \in 1..Len(MethodsOf(Op'))
          /\ pc' \in PCs
          /\ pc' # "train" => mi' = 1
      BY <2>1, <2>2, MethodsFacts, TransformersFacts DEF MethodLoopDone, PCs
    <3>. QED BY <2>1, <3>1, <3>2 DEF IInv, TypeOK
  <2>5. /\ pc' = "train" => ti' \in 1..Len(TransformersOf(Op'))
        /\ pc' # "train" => mi' = 1
    BY <2>1, <2>2, TransformersFacts DEF MethodLoopDone
  <2>6. BestSoFar'
    <3> DEFINE last == TransformersOf(Op)[Len(TransformersOf(Op))]
    <3>1. /\ Eligible = {c \in trained : c.transformer = last /\ c.err < One}
          /\ Eligible' = {c \in trained' : c.transformer = last /\ c.err < One}
      BY <2>2 DEF Eligible
    <3>2. BestSoFar
      BY <2>1 DEF IInv
    <3>3. /\ trained \subseteq Candidate
          /\ \A c \in Candidate : c.err \in Nat
          /\ e \in Nat /\ One \in Nat
      BY MiniTrainerAssumption DEF IInv, TypeOK, Candidate
    <3>4. minErr \in Nat /\ minErr <= One
      <4>1. CASE Eligible = {}
        BY <3>2, <4>1, <3>3 DEF BestSoFar
      <4>2. CASE Eligible # {}
        BY <3>1, <3>2, <3>3, <4>2 DEF BestSoFar
      <4>. QED BY <4>1, <4>2
    <3>5. CASE e < minErr /\ ti = Len(TransformersOf(Op))
      <4>1. Cand(e).transformer = last /\ Cand(e).err = e /\ e < One
        BY <3>3, <3>4, <3>5 DEF Cand
      <4>2. Eligible' = Eligible \cup {Cand(e)}
        BY <2>1, <3>1, <4>1
      <4>3. \A c \in Eligible : e <= c.err
        <5>1. CASE Eligible = {}
          BY <5>1
        <5>2. CASE Eligible # {}
          BY <5>2, <3>1, <3>2, <3>3, <3>5 DEF BestSoFar
        <5>. QED BY <5>1, <5>2
      <4>4. /\ modelMap'[Op'] = Cand(e)
            /\ predResults' = Cand(e)
            /\ minErr' = e
        BY <2>1, <2>2, <3>5, <1>0 DEF IInv, TypeOK
      <4>5. \A c \in Eligible' : Cand(e).err <= c.err
        BY <4>1, <4>2, <4>3, <3>3
      <4>. QED BY <4>1, <4>2, <4>4, <4>5 DEF BestSoFar
    <3>6. CASE ~(e < minErr /\ ti = Len(TransformersOf(Op)))
      <4>1. UNCHANGED <<minErr, modelMap, predResults>>
        BY <2>1, <3>6
      <4>2. Cand(e) \in Eligible' =>
                Eligible # {} /\ modelMap[Op].err <= Cand(e).err
        <5>1. SUFFICES ASSUME Cand(e) \in Eligible'
                       PROVE  Eligible # {} /\ modelMap[Op].err <= Cand(e).err
          OBVIOUS
        <5>2. Cand(e).transformer = last /\ Cand(e).err = e /\ e < One
          BY <5>1, <3>1, <2>1 DEF Cand
        <5>3. ti = Len(TransformersOf(Op))
          BY <5>2, <2>2, TransformersFacts DEF Cand
        <5>4. ~(e < minErr)
          BY <5>3, <3>6
        <5>5. Eligible # {}
          <6>1. SUFFICES ASSUME Eligible = {} PROVE FALSE
            OBVIOUS
          <6>2. minErr = One
            BY <6>1, <3>2 DEF BestSoFar
          <6>. QED BY <6>2, <5>2, <5>4, <3>3
        <5>. QED BY <5>2, <5>4, <5>5, <3>2, <3>3, <3>4 DEF BestSoFar
      <4>3. Eligible' = Eligible \/ Eligible' = Eligible \cup {Cand(e)}
        BY <2>1, <3>1
      <4>4. CASE Eligible' = Eligible
        BY <4>1, <4>4, <3>2, <2>2 DEF BestSoFar
      <4>5. CASE Eligible' = Eligible \cup {Cand(e)} /\ Eligible' # Eligible
        <5>1. Cand(e) \in Eligible'
          BY <4>5
        <5>2. Eligible # {} /\ modelMap[Op].err <= Cand(e).err
          BY <5>1, <4>2
        <5>. QED BY <5>2, <4>1, <4>5, <3>2, <2>2 DEF BestSoFar
      <4>. QED BY <4>3, <4>4, <4>5
    <3>. QED BY <3>5, <3>6
  <2>. QED BY <2>4, <2>5, <2>6 DEF IInv
<1>3. CASE RecordPredictions
  <2>1. Op' \in Opunits /\ mi' = 1
    BY <1>3, <1>0 DEF RecordPredictions, IInv, TypeOK, Op
  <2>2. Len(MethodsOf(Op')) \in Nat \ {0}
    BY <2>1, MethodsFacts
  <2>4. predictions' \in [1..MaxData -> Candidate \cup {NoModel}]
    BY <1>3, <1>0 DEF RecordPredictions, IInv, TypeOK
  <2>5. di' \in 1..Len(dataList') /\ pc' \in PCs
    BY <1>3, <1>0 DEF RecordPredictions, PCs
  <2>3. TypeOK'
    BY <1>3, <2>1, <2>2, <2>4, <2>5 DEF RecordPredictions, IInv, TypeOK
  <2>. QED BY <1>3, <2>3 DEF RecordPredictions, IInv
<1>4. CASE SaveModelMap
  BY <1>4 DEF SaveModelMap, IInv, TypeOK, PCs, Op
<1>5. CASE Terminated \/ UNCHANGED vars
  BY <1>5 DEF Terminated, vars, IInv, TypeOK, BestSoFar, Eligible, Op
<1>. QED BY <1>1, <1>2, <1>3, <1>4, <1>5 DEF Next

-----------------------------------------------------------------------------
(* Every reachable state of train is well typed: the data, transformer and *)
(* method loop indices stay within their lists (lines 53, 78-79).          *)
THEOREM TypeCorrect == Spec => []TypeOK
<1>1. IInv => TypeOK
  BY DEF IInv
<1>. QED BY <1>1, InitIInv, NextIInv, PTL DEF Spec

(* SelectedIsBest, which MiniTrainerSafety checks, holds for every value   *)
(* of the constants: when line 120 records the predictions of a data set,  *)
(* they are those of the eligible model with the lowest test error, the    *)
(* model stored for the opunit at lines 105-107.                           *)
THEOREM SelectedIsBestHolds == Spec => []SelectedIsBest
<1>1. IInv => SelectedIsBest
  BY DEF IInv, BestSoFar, SelectedIsBest
<1>. QED BY <1>1, InitIInv, NextIInv, PTL DEF Spec

================================================================================
