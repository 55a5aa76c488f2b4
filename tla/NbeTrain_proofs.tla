---------------------------- MODULE NbeTrain_proofs ----------------------------
(***************************************************************************)
(* Proofs about NbeTrain, for all data, command lines and likelihoods.     *)
(*                                                                         *)
(* That no undefined model and no empty training set is ever kept as the   *)
(* best rests on the order of the likelihoods (LevelsOK): what a round     *)
(* begins with is never above the best one.                                *)
(***************************************************************************)
EXTENDS NbeTrain, TLAPS, FiniteSetTheorems

(* The lengths of the two loops do not matter to the invariants.           *)
LevelsOK ==
    /\ bestModelll # NaN
    /\ bestll <= bestModelll /\ currll <= bestModelll
    /\ pc \in {"split", "load", "measure"} => bestll # NaN

(* Training data may be empty only if they were so from the beginning.     *)
EmptyFromTheBeginning(data) == data = {} => Examples \subseteq holdoutSet

DataLeft ==
    /\ pc \in {"load", "measure", "em", "restore", "prune", "final"} =>
           EmptyFromTheBeginning(bestTrainSet)
    /\ pc = "load" => EmptyFromTheBeginning(trainSet)
    /\ pc \in {"measure", "em", "restore", "prune"} /\ sampledAbs =>
           EmptyFromTheBeginning(trainSet)

(* Where the weights may be undefined.                                     *)
WeightsOK ==
    /\ pc \in {"split", "load", "measure", "em"} =>
           model.weights # "undefined"
    /\ pc = "restore" /\ model.weights = "undefined" =>
           trainSet = {} /\ ~weightMoves
    /\ pc = "prune" /\ model.weights = "undefined" => ~weightMoves
    /\ pc \in {"prune", "final", "write", "done"}
       /\ model.weights = "undefined" => holdoutSet = {} /\ trainSet = {}
    /\ bestAsMeasured.weights # "undefined"

StartsEmpty ==
    pc = "split" =>
        /\ model = NullModel /\ bestModel = NullModel
        /\ trainSet = {} /\ holdoutSet = {}

IInv == TypeOK /\ StartsEmpty /\ DataAccounted /\ LevelsOK /\ DataLeft
        /\ WeightsOK /\ BadEndsExplained
-----------------------------------------------------------------------------
(* What the operations on a model keep.                                    *)

LEMMA CopyKeeps ==
    ASSUME NEW m \in ModelType, Null \in m.clusters
    PROVE  /\ Copy(m) \in ModelType /\ Null \in Copy(m).clusters
           /\ Copy(m).clusters = m.clusters /\ Copy(m).taken = m.taken
           /\ Copy(m).weights = "even"
BY DEF Copy, ModelType

LEMMA AddKeeps ==
    ASSUME NEW m \in ModelType, Null \in m.clusters,
           NEW picked \in SUBSET Examples
    PROVE  LET a == AddAbstractions(m, picked) IN
           /\ a \in ModelType /\ Null \in a.clusters
           /\ a.clusters = m.clusters \cup picked
           /\ a.taken = m.taken \cup picked
           /\ a.weights = m.weights
BY DEF AddAbstractions, ModelType

LEMMA EMStepKeeps ==
    ASSUME NEW m \in ModelType, Null \in m.clusters, NEW data
    PROVE  LET e == EMStep(m, data) IN
           /\ e \in ModelType /\ Null \in e.clusters
           /\ e.clusters = m.clusters /\ e.taken = m.taken
           /\ e.weights = "undefined" <=>
                  data = {} \/ m.weights = "undefined"
BY DEF EMStep, ModelType

LEMMA PrunedKeeps ==
    ASSUME NEW m \in ModelType, Null \in m.clusters, NEW p \in Pruned(m)
    PROVE  /\ p \in ModelType /\ Null \in p.clusters
           /\ p.clusters \subseteq m.clusters
           /\ p.taken = m.taken /\ p.weights = m.weights
<1>1. CASE m.weights = "undefined"
    BY <1>1 DEF Pruned, ModelType
<1>2. CASE m.weights # "undefined"
    <2>1. PICK kept \in SUBSET m.clusters :
              p = [m EXCEPT !.clusters = kept \cup {Null}]
        BY <1>2 DEF Pruned
    <2> QED BY <2>1 DEF ModelType
<1> QED BY <1>1, <1>2
-----------------------------------------------------------------------------
(* Every step keeps the invariant.                                         *)

LEMMA InitOK == Init => IInv
<1> SUFFICES ASSUME Init
             PROVE  IInv
    OBVIOUS
<1>1. settings \in SettingType
    BY SettingsAssumption DEF Init
<1>2. NullModel \in ModelType /\ Null \in NullModel.clusters
      /\ NullModel.weights # "undefined"
    BY DEF NullModel, ModelType
<1>3. TypeOK
    BY <1>1, <1>2 DEF Init, TypeOK, SettingType, Level, Lowest, NaN, Where
<1>4. StartsEmpty /\ DataAccounted /\ DataLeft /\ BadEndsExplained
    BY <1>2 DEF Init, StartsEmpty, DataAccounted, DataLeft, BadEndsExplained
<1>5. LevelsOK /\ WeightsOK
    BY <1>2 DEF Init, LevelsOK, WeightsOK, Lowest, NaN
<1> QED
    BY <1>3, <1>4, <1>5 DEF IInv

LEMMA FormHoldoutOK == IInv /\ FormHoldout => IInv'
<1> SUFFICES ASSUME IInv, FormHoldout
             PROVE  IInv'
    OBVIOUS
<1> USE DEF IInv
<1>1. PICK held \in SUBSET Examples, rows \in SUBSET HoldoutRows :
          trainSet' = Examples \ held /\ holdoutSet' = held \cup rows
    BY DEF FormHoldout
<1>2. /\ pc = "split" /\ pc' = "load"
      /\ bestTrainSet' = trainSet'
      /\ UNCHANGED <<settings, model, bestModel, bestModelll, bestAsMeasured,
                     bestOverall, bestll, currll, absToLoad, sampledAbs,
                     EMitersLeft, iter, weightMoves>>
    BY DEF FormHoldout, llVars, loadVars, emVars
<1>3. TypeOK'
    BY <1>1, <1>2 DEF TypeOK, Where
<1>4. NullModel.taken = {} /\ NullModel.clusters = {Null}
    BY DEF NullModel
<1>5. (Examples \ holdoutSet') = trainSet'
    BY <1>1, DataAssumption
<1>6. DataAccounted'
    BY <1>2, <1>4, <1>5 DEF StartsEmpty, DataAccounted, Belongs
<1>7. DataLeft'
    BY <1>2, <1>5 DEF DataLeft, EmptyFromTheBeginning
<1>8. (StartsEmpty /\ LevelsOK /\ WeightsOK /\ BadEndsExplained)'
    BY <1>2 DEF StartsEmpty, LevelsOK, WeightsOK, BadEndsExplained
<1> QED
    BY <1>3, <1>6, <1>7, <1>8

LEMMA LoadClustersOK == IInv /\ LoadClusters => IInv'
<1> SUFFICES ASSUME IInv, LoadClusters
             PROVE  IInv'
    OBVIOUS
<1> USE DEF IInv
<1>1. /\ pc = "load" /\ pc' = "measure"
      /\ EMitersLeft' = settings.fixed /\ iter' = 0
      /\ bestOverall' = bestModelll
      /\ UNCHANGED <<settings, holdoutSet, bestModel, bestTrainSet,
                     bestModelll, bestAsMeasured, bestll, currll, weightMoves>>
    BY DEF LoadClusters, BeginRound, bestVars
<1>2. PICK picked \in SUBSET trainSet : Draw(picked)
    BY DEF LoadClusters
<1>3. /\ model' = AddAbstractions(model, picked)
      /\ trainSet' = trainSet \ picked
      /\ sampledAbs' = (picked = {} \/ trainSet' # {})
      /\ absToLoad' = IF picked = {} THEN 0
                      ELSE absToLoad + Cardinality(picked)
    BY <1>2 DEF Draw
<1>4. trainSet = (Examples \ holdoutSet) \ model.taken
      /\ model.clusters \ {Null} \subseteq model.taken
      /\ model.taken \cap holdoutSet = {}
    BY <1>1 DEF DataAccounted, Belongs
<1>5. picked \in SUBSET Examples /\ Cardinality(picked) \in Nat
    BY <1>4, DataAssumption, FS_Subset, FS_CardinalityType
<1>6. model \in ModelType /\ Null \in model.clusters
    BY DEF TypeOK
<1>7. /\ model' \in ModelType /\ Null \in model'.clusters
      /\ model'.clusters = model.clusters \cup picked
      /\ model'.taken = model.taken \cup picked
      /\ model'.weights = model.weights
    BY <1>3, <1>5, <1>6, AddKeeps
<1>8. TypeOK'
    <2>1. sampledAbs' \in BOOLEAN
        BY <1>3
    <2>2. absToLoad' \in Nat /\ EMitersLeft' \in {-1} \cup Nat
        BY <1>1, <1>3, <1>5 DEF TypeOK, SettingType
    <2>3. trainSet' \subseteq Examples \cup HoldoutRows
        BY <1>3 DEF TypeOK
    <2> QED
        BY <1>1, <1>7, <2>1, <2>2, <2>3 DEF TypeOK, Where
<1>9. Belongs(trainSet, model)'
    BY <1>1, <1>3, <1>4, <1>5, <1>7 DEF Belongs
<1>10. DataAccounted'
    BY <1>1, <1>9 DEF DataAccounted, Belongs
<1>11. DataLeft'
    BY <1>1, <1>3 DEF DataLeft, EmptyFromTheBeginning
<1>12. (StartsEmpty /\ LevelsOK /\ BadEndsExplained)'
    BY <1>1 DEF StartsEmpty, LevelsOK, BadEndsExplained
<1>13. WeightsOK'
    BY <1>1, <1>7 DEF WeightsOK
<1> QED
    BY <1>8, <1>10, <1>11, <1>12, <1>13

(* DivideBySize, DivideByFrequency and HoldoutUnreadable.                  *)
LEMMA StopsOK ==
    IInv /\ (DivideBySize \/ DivideByFrequency \/ HoldoutUnreadable) => IInv'
<1> SUFFICES ASSUME IInv, DivideBySize \/ DivideByFrequency \/ HoldoutUnreadable
             PROVE  IInv'
    OBVIOUS
<1> USE DEF IInv
<1>1. UNCHANGED <<settings, trainSet, holdoutSet, model, bestModel,
                  bestTrainSet, bestModelll, bestAsMeasured, bestOverall,
                  bestll, currll, absToLoad, sampledAbs, EMitersLeft, iter,
                  weightMoves>>
    BY DEF DivideBySize, DivideByFrequency, HoldoutUnreadable, Crash, bestVars,
           llVars, loadVars, emVars
<1>2. \/ /\ pc' = "crashed" /\ pc # "split" /\ pc # "failed"
         /\ \/ settings.prunes /\ settings.pruneFreq = 0
            \/ Examples \subseteq holdoutSet
      \/ pc' = "failed"
    BY DEF DivideBySize, DivideByFrequency, HoldoutUnreadable, Crash, DataLeft,
           EmptyFromTheBeginning
<1>3. TypeOK'
    BY <1>1, <1>2 DEF TypeOK, Where
<1>4. DataAccounted'
    BY <1>1, <1>2 DEF DataAccounted, Belongs
<1>5. (StartsEmpty /\ LevelsOK /\ DataLeft /\ WeightsOK /\ BadEndsExplained)'
    BY <1>1, <1>2 DEF StartsEmpty, LevelsOK, DataLeft, WeightsOK,
                      BadEndsExplained
<1> QED
    BY <1>3, <1>4, <1>5

(* What is measured when new clusters have been loaded is not above the    *)
(* best likelihood.                                                        *)
LEMMA NothingSavedAfterLoading ==
    IInv /\ MeasureNew => UNCHANGED bestVars /\ currll' <= bestModelll
                          /\ currll' \in Level \cup {Lowest, NaN}
<1> SUFFICES ASSUME IInv, MeasureNew
             PROVE  UNCHANGED bestVars /\ currll' <= bestModelll
                    /\ currll' \in Level \cup {Lowest, NaN}
    OBVIOUS
<1>1. bestll # NaN /\ bestModelll # NaN /\ bestll <= bestModelll
      /\ currll <= bestModelll
    BY DEF MeasureNew, IInv, LevelsOK
<1>2. {bestll, bestModelll, currll} \subseteq Level \cup {Lowest, NaN}
    BY DEF IInv, TypeOK
<1>3. CASE holdoutSet = {}
    BY <1>1, <1>2, <1>3 DEF MeasureNew
<1>4. CASE holdoutSet # {}
    <2>1. PICK l \in Likelihoods(model) :
              /\ currll' = IF Above(l, bestll) THEN bestll ELSE l
              /\ SaveIfBetter(currll', model)
        BY <1>4 DEF MeasureNew
    <2>2. l \in Level \cup {NaN}
        BY DEF Likelihoods
    <2>3. currll' <= bestModelll /\ currll' \in Level \cup {Lowest, NaN}
        BY <1>1, <1>2, <2>1, <2>2, LevelAssumption
           DEF Above, Level, Lowest, NaN
    <2>4. ~Above(currll', bestModelll)
        BY <1>2, <2>3, LevelAssumption DEF Above, Level, Lowest, NaN
    <2> QED
        BY <2>1, <2>3, <2>4 DEF SaveIfBetter
<1> QED
    BY <1>3, <1>4

LEMMA MeasureNewOK == IInv /\ MeasureNew => IInv'
<1> SUFFICES ASSUME IInv, MeasureNew
             PROVE  IInv'
    OBVIOUS
<1> USE DEF IInv
<1>1. /\ pc = "measure" /\ pc' = "em"
      /\ UNCHANGED <<settings, trainSet, holdoutSet, model, bestOverall,
                     bestll, absToLoad, sampledAbs, EMitersLeft, iter,
                     weightMoves>>
    BY DEF MeasureNew, loadVars, emVars
<1>2. /\ UNCHANGED <<bestModel, bestTrainSet, bestModelll, bestAsMeasured>>
      /\ currll' <= bestModelll
      /\ currll' \in Level \cup {Lowest, NaN}
    BY NothingSavedAfterLoading DEF bestVars
<1>3. TypeOK'
    BY <1>1, <1>2 DEF TypeOK, Where
<1>4. DataAccounted'
    BY <1>1, <1>2 DEF DataAccounted, Belongs
<1>5. (StartsEmpty /\ LevelsOK /\ DataLeft /\ WeightsOK /\ BadEndsExplained)'
    BY <1>1, <1>2 DEF StartsEmpty, LevelsOK, DataLeft, WeightsOK,
                      BadEndsExplained, EmptyFromTheBeginning
<1> QED
    BY <1>3, <1>4, <1>5

(* An EM step either keeps the best model or saves one that it has         *)
(* measured, and that comes from training data that are not empty.         *)
LEMMA EMIterationOK == IInv /\ EMIteration => IInv'
<1> SUFFICES ASSUME IInv, EMIteration
             PROVE  IInv'
    OBVIOUS
<1> USE DEF IInv
<1> DEFINE m == EMStep(model, trainSet)
<1>1. /\ pc = "em" /\ pc' \in {"em", "restore"}
      /\ pc' = "em" => weightMoves'
      /\ settings.prunes => settings.pruneFreq # 0
      /\ EMitersLeft' = Decremented(EMitersLeft)
      /\ weightMoves' \in BOOLEAN
      /\ m.weights = "undefined" => ~weightMoves'
      /\ iter' = IF settings.prunes THEN (iter + 1) % settings.pruneFreq
                 ELSE iter
      /\ model' = m \/ model' \in Pruned(m)
      /\ UNCHANGED <<settings, trainSet, holdoutSet, bestOverall, absToLoad,
                     sampledAbs>>
    BY DEF EMIteration, loadVars
<1>2. model \in ModelType /\ Null \in model.clusters
      /\ model.weights # "undefined"
    BY <1>1 DEF TypeOK, WeightsOK
<1>3. /\ m \in ModelType /\ Null \in m.clusters
      /\ m.clusters = model.clusters /\ m.taken = model.taken
      /\ m.weights = "undefined" <=> trainSet = {}
    BY <1>2, EMStepKeeps
<1>4. /\ model' \in ModelType /\ Null \in model'.clusters
      /\ model'.clusters \subseteq model.clusters
      /\ model'.taken = model.taken /\ model'.weights = m.weights
    BY <1>1, <1>3, PrunedKeeps
<1>5. {bestModelll, bestll, currll} \subseteq Level \cup {Lowest, NaN}
      /\ bestModelll # NaN /\ bestll <= bestModelll /\ currll <= bestModelll
    BY DEF TypeOK, LevelsOK
<1>6. \/ /\ UNCHANGED <<bestModel, bestTrainSet, bestModelll, bestAsMeasured>>
         /\ bestll' \in {bestll, currll}
         /\ currll' \in Level \cup {Lowest, NaN}
         /\ currll' <= bestModelll
      \/ /\ bestll' = currll
         /\ currll' \in Level /\ bestModelll' = currll'
         /\ bestModelll < bestModelll'
         /\ bestModel' = Copy(m) /\ bestAsMeasured' = m
         /\ bestTrainSet' = trainSet /\ trainSet # {}
    <2>1. CASE holdoutSet = {}
        BY <1>5, <2>1 DEF EMIteration, bestVars
    <2>2. CASE holdoutSet # {}
        <3>1. /\ bestll' = currll /\ currll' \in Likelihoods(m)
              /\ SaveIfBetter(currll', m)
            BY <2>2 DEF EMIteration
        <3>2. currll' \in Level \cup {NaN}
              /\ (m.weights = "undefined" => currll' = NaN)
            BY <3>1 DEF Likelihoods
        <3>3. CASE Above(currll', bestModelll)
            BY <1>3, <1>5, <3>1, <3>2, <3>3, LevelAssumption
               DEF SaveIfBetter, Above, Level, Lowest, NaN
        <3>4. CASE ~Above(currll', bestModelll)
            <4>1. currll' <= bestModelll
                BY <1>5, <3>2, <3>4, LevelAssumption
                   DEF Above, Level, Lowest, NaN
            <4> QED
                BY <3>1, <3>2, <3>4, <4>1 DEF SaveIfBetter, bestVars
        <3> QED
            BY <3>3, <3>4
    <2> QED
        BY <2>1, <2>2
<1>7. /\ Copy(m) \in ModelType /\ Null \in Copy(m).clusters
      /\ Copy(m).clusters = m.clusters /\ Copy(m).taken = m.taken
    BY <1>3, CopyKeeps
<1> HIDE DEF m
<1>8. trainSet = (Examples \ holdoutSet) \ model.taken
      /\ model.clusters \ {Null} \subseteq model.taken
      /\ model.taken \cap holdoutSet = {}
    BY <1>1 DEF DataAccounted, Belongs
<1>9. TypeOK'
    <2>1. EMitersLeft' \in {-1} \cup Nat
        BY <1>1 DEF TypeOK, Decremented
    <2>2. iter' \in Nat
        BY <1>1 DEF TypeOK, SettingType
    <2>3. bestTrainSet' \subseteq Examples
        BY <1>6, <1>8 DEF TypeOK
    <2>4. \A x \in {model', bestModel', bestAsMeasured'} :
              x \in ModelType /\ Null \in x.clusters
        BY <1>3, <1>4, <1>6, <1>7 DEF TypeOK
    <2>5. {bestModelll', bestOverall', bestll', currll'} \subseteq
              Level \cup {Lowest, NaN}
        BY <1>1, <1>6 DEF TypeOK
    <2> QED
        BY <1>1, <2>1, <2>2, <2>3, <2>4, <2>5 DEF TypeOK, Where
<1>10. DataAccounted'
    <2>1. Belongs(trainSet, model)'
        BY <1>1, <1>4, <1>8 DEF Belongs
    <2>2. Belongs(bestTrainSet, bestModel)'
        <3>1. CASE UNCHANGED <<bestModel, bestTrainSet>>
            BY <1>1, <3>1 DEF DataAccounted, Belongs
        <3>2. CASE bestModel' = Copy(m) /\ bestTrainSet' = trainSet
            BY <1>1, <1>3, <1>7, <1>8, <3>2 DEF Belongs
        <3> QED
            BY <1>6, <3>1, <3>2
    <2> QED
        BY <2>1, <2>2 DEF DataAccounted, Belongs
<1>11. LevelsOK'
    BY <1>1, <1>5, <1>6, LevelAssumption DEF LevelsOK, Level, Lowest, NaN
<1>12. DataLeft'
    BY <1>1, <1>6 DEF DataLeft, EmptyFromTheBeginning
<1>13. WeightsOK'
    BY <1>1, <1>3, <1>4, <1>6 DEF WeightsOK
<1>14. (StartsEmpty /\ BadEndsExplained)'
    BY <1>1, <1>13 DEF StartsEmpty, BadEndsExplained, WeightsOK
<1> QED
    BY <1>9, <1>10, <1>11, <1>12, <1>13, <1>14

(* The best model comes back with the training data it was made from.      *)
LEMMA RestoreBestOK == IInv /\ RestoreBest => IInv'
<1> SUFFICES ASSUME IInv, RestoreBest
             PROVE  IInv'
    OBVIOUS
<1> USE DEF IInv
<1>1. /\ pc = "restore" /\ pc' = "prune"
      /\ UNCHANGED <<settings, holdoutSet, bestModel, bestTrainSet,
                     bestModelll, bestAsMeasured, bestOverall, bestll, currll,
                     absToLoad, sampledAbs, EMitersLeft, iter, weightMoves>>
    BY DEF RestoreBest, bestVars, llVars, loadVars, emVars
<1>2. \/ holdoutSet = {} /\ UNCHANGED <<model, trainSet>>
      \/ /\ model' = Copy(bestModel) /\ trainSet' = bestTrainSet
         /\ holdoutSet # {}
    BY DEF RestoreBest
<1>3. bestModel \in ModelType /\ Null \in bestModel.clusters
    BY DEF TypeOK
<1>4. /\ Copy(bestModel) \in ModelType /\ Null \in Copy(bestModel).clusters
      /\ Copy(bestModel).clusters = bestModel.clusters
      /\ Copy(bestModel).taken = bestModel.taken
      /\ Copy(bestModel).weights # "undefined"
    BY <1>3, CopyKeeps
<1>5. TypeOK'
    BY <1>1, <1>2, <1>4 DEF TypeOK, Where
<1>6. DataAccounted'
    BY <1>1, <1>2, <1>4 DEF DataAccounted, Belongs
<1>7. DataLeft'
    BY <1>1, <1>2 DEF DataLeft, EmptyFromTheBeginning
<1>8. WeightsOK'
    BY <1>1, <1>2, <1>4 DEF WeightsOK
<1>9. (StartsEmpty /\ LevelsOK /\ BadEndsExplained)'
    BY <1>1 DEF StartsEmpty, LevelsOK, BadEndsExplained
<1> QED
    BY <1>5, <1>6, <1>7, <1>8, <1>9

LEMMA EndRoundOK == IInv /\ EndRound => IInv'
<1> SUFFICES ASSUME IInv, EndRound
             PROVE  IInv'
    OBVIOUS
<1> USE DEF IInv
<1>1. /\ pc = "prune" /\ pc' \in {"load", "final"}
      /\ pc' = "load" => sampledAbs /\ weightMoves /\ bestll # NaN
      /\ model' = model \/ model' \in Pruned(model)
      /\ UNCHANGED <<settings, trainSet, holdoutSet, bestModel, bestTrainSet,
                     bestModelll, bestAsMeasured, bestOverall, bestll, currll,
                     absToLoad, sampledAbs, EMitersLeft, iter, weightMoves>>
    BY DEF EndRound, Gains, bestVars, llVars, loadVars, emVars
<1>2. /\ model' \in ModelType /\ Null \in model'.clusters
      /\ model'.clusters \subseteq model.clusters
      /\ model'.taken = model.taken /\ model'.weights = model.weights
    BY <1>1, PrunedKeeps DEF TypeOK
<1>3. TypeOK'
    BY <1>1, <1>2 DEF TypeOK, Where
<1>4. DataAccounted'
    BY <1>1, <1>2 DEF DataAccounted, Belongs
<1>5. (DataLeft /\ WeightsOK)'
    BY <1>1, <1>2 DEF DataLeft, EmptyFromTheBeginning, WeightsOK
<1>6. (StartsEmpty /\ LevelsOK /\ BadEndsExplained)'
    BY <1>1 DEF StartsEmpty, LevelsOK, BadEndsExplained
<1> QED
    BY <1>3, <1>4, <1>5, <1>6

LEMMA FinalStepsOK == IInv /\ FinalSteps => IInv'
<1> SUFFICES ASSUME IInv, FinalSteps
             PROVE  IInv'
    OBVIOUS
<1> USE DEF IInv
<1>1. /\ pc = "final" /\ pc' = "write"
      /\ trainSet' = trainSet \cup holdoutSet
      /\ UNCHANGED <<settings, holdoutSet, bestModel, bestTrainSet,
                     bestModelll, bestAsMeasured, bestOverall, bestll, currll,
                     absToLoad, sampledAbs, EMitersLeft, iter, weightMoves>>
    BY DEF FinalSteps, bestVars, llVars, loadVars, emVars
<1>2. /\ model' \in ModelType /\ Null \in model'.clusters
      /\ model'.weights = "undefined" => holdoutSet = {} /\ trainSet = {}
    <2>1. CASE holdoutSet = {}
        BY <1>1, <2>1 DEF FinalSteps, TypeOK, WeightsOK
    <2>2. CASE holdoutSet # {}
        <3> DEFINE e == EMStep(model, trainSet')
        <3>1. model \in ModelType /\ Null \in model.clusters
              /\ model.weights # "undefined"
            BY <1>1, <2>2 DEF TypeOK, WeightsOK
        <3>2. e \in ModelType /\ Null \in e.clusters
              /\ e.weights # "undefined"
            BY <1>1, <2>2, <3>1, EMStepKeeps
        <3> HIDE DEF e
        <3>3. LET f == EMStep(e, trainSet') IN
              f \in ModelType /\ Null \in f.clusters
              /\ f.weights # "undefined"
            BY <1>1, <2>2, <3>2, EMStepKeeps
        <3> QED
            BY <2>2, <3>3 DEF FinalSteps, e
    <2> QED
        BY <2>1, <2>2
<1>3. TypeOK'
    BY <1>1, <1>2 DEF TypeOK, Where
<1>4. DataAccounted'
    BY <1>1 DEF DataAccounted, Belongs
<1>5. (DataLeft /\ WeightsOK)'
    BY <1>1, <1>2 DEF DataLeft, WeightsOK
<1>6. (StartsEmpty /\ LevelsOK /\ BadEndsExplained)'
    BY <1>1 DEF StartsEmpty, LevelsOK, BadEndsExplained
<1> QED
    BY <1>3, <1>4, <1>5, <1>6

(* The model is written; and nothing happens any more, or nothing at all.  *)
LEMMA LastStepsOK == IInv /\ (WriteModel \/ UNCHANGED vars) => IInv'
<1> SUFFICES ASSUME IInv, WriteModel \/ UNCHANGED vars
             PROVE  IInv'
    OBVIOUS
<1> USE DEF IInv
<1>1. UNCHANGED <<settings, trainSet, holdoutSet, model, bestModel,
                  bestTrainSet, bestModelll, bestAsMeasured, bestOverall,
                  bestll, currll, absToLoad, sampledAbs, EMitersLeft, iter,
                  weightMoves>>
    BY DEF WriteModel, vars, bestVars, llVars, loadVars, emVars
<1>2. pc' = pc \/ (pc = "write" /\ pc' \in {"done", "failed"})
    BY DEF WriteModel, vars
<1>3. TypeOK'
    BY <1>1, <1>2 DEF TypeOK, Where
<1>4. DataAccounted'
    BY <1>1, <1>2 DEF DataAccounted, Belongs
<1>5. (DataLeft /\ WeightsOK)'
    BY <1>1, <1>2 DEF DataLeft, EmptyFromTheBeginning, WeightsOK
<1>6. (StartsEmpty /\ LevelsOK)'
    BY <1>1, <1>2 DEF StartsEmpty, LevelsOK
<1>7. BadEndsExplained'
    BY <1>1, <1>2 DEF BadEndsExplained, WeightsOK
<1> QED
    BY <1>3, <1>4, <1>5, <1>6, <1>7

LEMMA Invariance == Spec => []IInv
<1>1. IInv /\ [Next]_vars => IInv'
    BY FormHoldoutOK, LoadClustersOK, StopsOK, MeasureNewOK, EMIterationOK,
       RestoreBestOK, EndRoundOK, FinalStepsOK, LastStepsOK
       DEF Next, Terminated
<1> QED
    BY InitOK, <1>1, PTL DEF Spec
-----------------------------------------------------------------------------
(* Types; a model always has its first cluster.                            *)
THEOREM TypeCorrect == Spec => []TypeOK
BY Invariance, PTL DEF IInv

(* No model is trained with, or measured by, the examples its clusters     *)
(* were made from, also when main goes back to an earlier model.           *)
THEOREM NoCenterInTheData == Spec => []DataAccounted
BY Invariance, PTL DEF IInv

(* The bad ends of the training are the ones BadEndsExplained names: an    *)
(* undefined model is never the best, and empty data are never restored.   *)
THEOREM BadEnds == Spec => []BadEndsExplained
BY Invariance, PTL DEF IInv

(* New clusters are never saved as the best model before an EM step: the   *)
(* lines 466-472 of main are dead.                                         *)
THEOREM NewClustersNotSaved == Spec => LoadedNeverBest
<1>1. IInv /\ [Next]_vars => [pc = "measure" => UNCHANGED bestVars]_vars
    BY NothingSavedAfterLoading
       DEF Next, FormHoldout, HoldoutUnreadable, LoadClusters, BeginRound,
           DivideBySize, DivideByFrequency, Crash, EMIteration, RestoreBest,
           EndRound, FinalSteps, WriteModel, Terminated
<1> QED
    BY Invariance, <1>1, PTL DEF Spec, LoadedNeverBest
=============================================================================
