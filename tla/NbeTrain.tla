------------------------------- MODULE NbeTrain -------------------------------
(***************************************************************************)
(* nbetrain, which learns the naive Bayes model: examples are split into   *)
(* training and hold-out data; each round makes clusters out of examples   *)
(* drawn from the training data, runs EM until the likelihood of the       *)
(* hold-out data stops growing, and goes back to the best model seen.      *)
(*                                                                         *)
(* A model is its clusters, the state of their weights and, as history,    *)
(* the examples that were taken for its clusters, pruned ones included.    *)
(* Likelihoods are levels; a step up of EMGain or AddGain levels is an     *)
(* improvement by the fractions minllChangeEM or minllChangeAdd.  Data are *)
(* discrete: then only undefined weights make a likelihood undefined.      *)
(* Random restarts are left out: nothing sets randomRestarts.              *)
(***************************************************************************)
EXTENDS Integers, FiniteSets

CONSTANTS
    Examples,       \* observations: the rows of the training file
    HoldoutRows,    \* the rows of a hold-out file
    Null,           \* the first cluster, with the marginals of all variables
    Settings,       \* command lines, see SettingType
    MaxLevel,       \* the highest likelihood any model has
    EMGain, AddGain

(* file: a hold-out file is named; fraction: -h; weightStop: -wc is not 0; *)
(* clusters: -i; fixed: -wf, -1 if not given; prunes: -pw is below 1;      *)
(* pruneFreq: -pf.                                                         *)
SettingType ==
    [file : BOOLEAN, fraction : BOOLEAN, weightStop : BOOLEAN,
     clusters : Nat, fixed : {-1} \cup Nat, prunes : BOOLEAN, pruneFreq : Nat]

ASSUME DataAssumption ==
    /\ IsFiniteSet(Examples) /\ Examples # {}
    /\ IsFiniteSet(HoldoutRows)
    /\ HoldoutRows \cap Examples = {}
    /\ Null \notin Examples

ASSUME SettingsAssumption == Settings \subseteq SettingType

(* So neither -we0 nor -wa0, nor a negative value.                         *)
ASSUME LevelAssumption ==
    /\ MaxLevel \in Nat
    /\ EMGain \in Nat \ {0} /\ AddGain \in Nat \ {0}

VARIABLES
    settings,
    pc,             \* where main is
    trainSet, holdoutSet,
    model,
    bestModel, bestTrainSet, bestModelll,
    bestOverall, bestll, currll,
    absToLoad, sampledAbs,
    EMitersLeft, iter,
    weightMoves,    \* weightChange >= minWeightChange
    bestAsMeasured  \* history: the model that bestModel is a copy of

bestVars == <<bestModel, bestTrainSet, bestModelll, bestAsMeasured>>
llVars   == <<bestOverall, bestll, currll>>
loadVars == <<absToLoad, sampledAbs>>
emVars   == <<EMitersLeft, iter, weightMoves>>
vars     == <<settings, pc, trainSet, holdoutSet, model, bestVars, llVars,
              loadVars, emVars>>

Lowest == -1        \* -1e100
NaN    == -2
Level  == 0..MaxLevel

(* A comparison with NaN is false.                                         *)
(* Mutant: the comparison the other way round, negated.                    *)
MutantAboveOrNaN(a, b) == ~(a # NaN /\ b # NaN /\ a <= b)

Above(a, b) == a # NaN /\ b # NaN /\ a > b

(* Mutant: a likelihood that stays the same is a gain.                     *)
MutantGainsNothing(a, b, gain) == a # NaN /\ b # NaN /\ a >= b

(* (a - b)/fabs(a) >= gain, where gain is -1 without hold-out data.        *)
Gains(a, b, gain) ==
    /\ a # NaN /\ b # NaN
    /\ \/ holdoutSet = {}
       \/ b = Lowest /\ a # Lowest
       \/ b # Lowest /\ a - b >= gain
-----------------------------------------------------------------------------
(* AbstractionSet and AbsVarAbstractionSet.                                *)

NullModel == [clusters |-> {Null}, weights |-> "even", taken |-> {}]

(* addAbstraction, for the examples picked: a new cluster has the weight   *)
(* 1/numAbs and the others share the rest in the old proportions.          *)
AddAbstractions(m, picked) ==
    [m EXCEPT !.clusters = @ \cup picked, !.taken = @ \cup picked]

(* operator=, which adds the other model's clusters but not their weights: *)
(* addAbstraction gives all of them the same.                              *)
Copy(m) == [m EXCEPT !.weights = "even"]

(* EMStep: without data the weights are 0/0.                               *)
EMStep(m, data) ==
    [m EXCEPT !.weights = IF data = {} \/ @ = "undefined" THEN "undefined"
                          ELSE IF m.clusters = {Null} THEN "even"
                          ELSE "learned"]

(* Mutant: the zeroth cluster is pruned as any other.                      *)
MutantPruned(m) ==
    IF m.weights = "undefined" THEN {[m EXCEPT !.clusters = {Null}]}
    ELSE {[m EXCEPT !.clusters = kept] : kept \in SUBSET m.clusters \ {{}}}

(* prune: the zeroth cluster stays, and others until the weight is reached *)
(* that is to be kept, which with an undefined weight is never less.       *)
Pruned(m) ==
    IF m.weights = "undefined" THEN {[m EXCEPT !.clusters = {Null}]}
    ELSE {[m EXCEPT !.clusters = kept \cup {Null}] : kept \in SUBSET m.clusters}

(* getLogLikelihood of the hold-out data.                                  *)
Likelihoods(m) == IF m.weights = "undefined" THEN {NaN} ELSE Level
-----------------------------------------------------------------------------
Init ==
    /\ settings \in Settings
    /\ pc = "split"
    /\ trainSet = {} /\ holdoutSet = {}
    /\ model = NullModel
    /\ bestModel = NullModel /\ bestAsMeasured = NullModel
    /\ bestTrainSet = {}
    /\ bestModelll = Lowest
    /\ bestOverall = Lowest /\ bestll = Lowest /\ currll = Lowest
    /\ absToLoad = settings.clusters /\ sampledAbs = TRUE
    /\ EMitersLeft = settings.fixed /\ iter = 0
    /\ weightMoves = TRUE

(* Each example goes to either side at random, if there is a fraction; it  *)
(* is set by default when nothing else stops the training.                 *)
HoldsOutSome ==
    \/ settings.fraction
    \/ ~settings.file /\ ~settings.weightStop /\ settings.fixed = -1

FormHoldout ==
    /\ pc = "split"
    /\ \E held \in IF HoldsOutSome THEN SUBSET Examples ELSE {{}} :
       \E rows \in IF settings.file THEN SUBSET HoldoutRows ELSE {{}} :
           /\ trainSet' = Examples \ held
           /\ holdoutSet' = held \cup rows
    /\ bestTrainSet' = trainSet'
    /\ pc' = "load"
    /\ UNCHANGED <<settings, model, bestModel, bestModelll, bestAsMeasured,
                   llVars, loadVars, emVars>>

HoldoutUnreadable ==
    /\ pc = "split" /\ settings.file
    /\ pc' = "failed"
    /\ UNCHANGED <<settings, trainSet, holdoutSet, model, bestVars, llVars,
                   loadVars, emVars>>

(* A round begins; the examples that become clusters leave the training    *)
(* data.  The loop ends when there are enough or none is left.             *)
Draw(picked) ==
    /\ model' = AddAbstractions(model, picked)
    /\ trainSet' = trainSet \ picked
    /\ sampledAbs' = (picked = {} \/ trainSet' # {})
    /\ absToLoad' = IF picked = {} THEN 0 ELSE absToLoad + Cardinality(picked)

BeginRound ==
    /\ pc = "load"
    /\ EMitersLeft' = settings.fixed /\ iter' = 0
    /\ bestOverall' = bestModelll
    /\ UNCHANGED <<settings, holdoutSet, bestVars, bestll, currll, weightMoves>>

LoadClusters ==
    /\ BeginRound
    /\ absToLoad = 0 \/ trainSet # {}
    /\ \E picked \in SUBSET trainSet :
           /\ \/ Cardinality(picked) = absToLoad
              \/ picked = trainSet /\ Cardinality(trainSet) < absToLoad
           /\ Draw(picked)
    /\ pc' = "measure"

Crash(where) ==
    /\ pc = where
    /\ pc' = "crashed"
    /\ UNCHANGED <<settings, trainSet, holdoutSet, model, bestVars, llVars,
                   loadVars, emVars>>

(* rand() % trainSet.size() and ++iter % pruneFreq divide by zero.         *)
DivideBySize == absToLoad # 0 /\ trainSet = {} /\ Crash("load")
DivideByFrequency == settings.prunes /\ settings.pruneFreq = 0 /\ Crash("em")

SaveIfBetter(l, m) ==
    IF Above(l, bestModelll)
    THEN /\ bestModelll' = l
         /\ bestModel' = Copy(m) /\ bestAsMeasured' = m
         /\ bestTrainSet' = trainSet
    ELSE UNCHANGED bestVars

(* The first measurement of a round counts as bestll at most.              *)
MeasureNew ==
    /\ pc = "measure"
    /\ \/ holdoutSet = {} /\ UNCHANGED <<currll, bestVars>>
       \/ /\ holdoutSet # {}
          /\ \E l \in Likelihoods(model) :
                 /\ currll' = IF Above(l, bestll) THEN bestll ELSE l
                 /\ SaveIfBetter(currll', model)
    /\ pc' = "em"
    /\ UNCHANGED <<settings, trainSet, holdoutSet, model, bestOverall, bestll,
                   loadVars, emVars>>

(* A count that starts below 1 does not get to 0 before it overflows.      *)
Decremented(n) == IF n < 1 THEN -1 ELSE n - 1

(* One EM step: measure, keep the model if it is the best, prune now and   *)
(* then, and go on while the likelihood grows and the weights change.      *)
EMIteration ==
    LET m == EMStep(model, trainSet) IN
    /\ pc = "em"
    /\ settings.prunes => settings.pruneFreq # 0
    /\ EMitersLeft' = Decremented(EMitersLeft)
    /\ weightMoves' \in IF m.weights = "undefined" THEN {FALSE}
                        ELSE IF settings.weightStop THEN BOOLEAN ELSE {TRUE}
    /\ \/ holdoutSet = {} /\ UNCHANGED <<bestll, currll, bestVars>>
       \/ /\ holdoutSet # {}
          /\ bestll' = currll
          /\ currll' \in Likelihoods(m)
          /\ SaveIfBetter(currll', m)
    /\ iter' = IF settings.prunes THEN (iter + 1) % settings.pruneFreq ELSE iter
    /\ model' \in IF settings.prunes /\ iter' = 0 THEN Pruned(m) ELSE {m}
    /\ pc' = IF /\ EMitersLeft' # 0
                /\ Gains(currll', bestll', EMGain)
                /\ weightMoves'
             THEN "em" ELSE "restore"
    /\ UNCHANGED <<settings, trainSet, holdoutSet, bestOverall, loadVars>>

(* Mutant: the training data stay as they are.                             *)
MutantRestoreModelOnly ==
    /\ pc = "restore"
    /\ IF holdoutSet # {} THEN model' = Copy(bestModel) ELSE UNCHANGED model
    /\ pc' = "prune"
    /\ UNCHANGED <<settings, trainSet, holdoutSet, bestVars, llVars, loadVars,
                   emVars>>

RestoreBest ==
    /\ pc = "restore"
    /\ IF holdoutSet # {}
       THEN model' = Copy(bestModel) /\ trainSet' = bestTrainSet
       ELSE UNCHANGED <<model, trainSet>>
    /\ pc' = "prune"
    /\ UNCHANGED <<settings, holdoutSet, bestVars, llVars, loadVars, emVars>>

(* The round ends; there is another one if this one was worth it.          *)
EndRound ==
    /\ pc = "prune"
    /\ model' \in IF settings.prunes THEN Pruned(model) ELSE {model}
    /\ pc' = IF /\ settings.fixed < 0 /\ sampledAbs
                /\ Gains(bestll, bestOverall, AddGain)
                /\ weightMoves
             THEN "load" ELSE "final"
    /\ UNCHANGED <<settings, trainSet, holdoutSet, bestVars, llVars, loadVars,
                   emVars>>

(* Two EM steps with the hold-out data, too.                               *)
FinalSteps ==
    /\ pc = "final"
    /\ trainSet' = trainSet \cup holdoutSet
    /\ model' = IF holdoutSet = {} THEN model
                ELSE EMStep(EMStep(model, trainSet'), trainSet')
    /\ pc' = "write"
    /\ UNCHANGED <<settings, holdoutSet, bestVars, llVars, loadVars, emVars>>

WriteModel ==
    /\ pc = "write"
    /\ pc' \in {"done", "failed"}
    /\ UNCHANGED <<settings, trainSet, holdoutSet, model, bestVars, llVars,
                   loadVars, emVars>>

Over == pc \in {"done", "failed", "crashed"}

Terminated == Over /\ UNCHANGED vars

Next ==
    \/ FormHoldout \/ HoldoutUnreadable
    \/ LoadClusters \/ DivideBySize
    \/ MeasureNew
    \/ EMIteration \/ DivideByFrequency
    \/ RestoreBest \/ EndRound
    \/ FinalSteps \/ WriteModel
    \/ Terminated

Spec == Init /\ [][Next]_vars

(* One process that nothing blocks.                                        *)
FairSpec == Spec /\ WF_vars(Next)
-----------------------------------------------------------------------------
(* Properties.                                                             *)

ModelType ==
    [clusters : SUBSET (Examples \cup {Null}), taken : SUBSET Examples,
     weights : {"even", "learned", "undefined"}]

Where == {"split", "load", "measure", "em", "restore", "prune", "final",
          "write", "done", "failed", "crashed"}

(* Types; a model always has its first cluster.                            *)
TypeOK ==
    /\ settings \in SettingType
    /\ pc \in Where
    /\ trainSet \subseteq Examples \cup HoldoutRows
    /\ holdoutSet \subseteq Examples \cup HoldoutRows
    /\ bestTrainSet \subseteq Examples
    /\ \A m \in {model, bestModel, bestAsMeasured} :
           m \in ModelType /\ Null \in m.clusters
    /\ {bestModelll, bestOverall, bestll, currll} \subseteq
           Level \cup {Lowest, NaN}
    /\ absToLoad \in Nat /\ sampledAbs \in BOOLEAN
    /\ EMitersLeft \in {-1} \cup Nat /\ iter \in Nat
    /\ weightMoves \in BOOLEAN

(* An example is a hold-out, a training example or was taken for a cluster *)
(* of the model that is trained: no model learns from its own cluster      *)
(* centers or is measured with them, also when main goes back to an        *)
(* earlier model (lines 422-425 take the center out, 536-537 go back).     *)
Belongs(data, m) ==
    /\ data = (Examples \ holdoutSet) \ m.taken
    /\ m.clusters \ {Null} \subseteq m.taken
    /\ m.taken \cap holdoutSet = {}

DataAccounted ==
    /\ pc \in {"load", "measure", "em", "restore", "prune", "final"} =>
           Belongs(trainSet, model)
    /\ pc \notin {"split", "failed"} => Belongs(bestTrainSet, bestModel)

(* New clusters are never the best model before an EM step has been run:   *)
(* what main does in that case (lines 466-472) is never needed, because    *)
(* their likelihood is held down to bestll.                                *)
LoadedNeverBest == [][pc = "measure" => UNCHANGED bestVars]_vars

(* The bad ends of the training, and the only ones.  A crash: the pruning  *)
(* frequency of the command line is zero, or the training data were empty  *)
(* to begin with (a round that uses up the examples ends the drawing, lines*)
(* 438-440).  Undefined weights in the model that is written: all examples *)
(* became clusters, and there are no hold-out data.  With hold-out data an *)
(* undefined model is never the best (line 499).                           *)
BadEndsExplained ==
    /\ pc = "crashed" => \/ settings.prunes /\ settings.pruneFreq = 0
                         \/ Examples \subseteq holdoutSet
    /\ pc = "done" /\ model.weights = "undefined" =>
           holdoutSet = {} /\ trainSet = {}
    /\ holdoutSet # {} => bestAsMeasured.weights # "undefined"

(* Training ends if there are hold-out data or a number of iterations is   *)
(* given: each EM step and each round but the last has to gain something,  *)
(* and the likelihood is bounded.  (Without both, EM goes on for ever.)    *)
TrainingEnds ==
    pc = "load" /\ (holdoutSet # {} \/ settings.fixed > 0) ~> Over

(* "Restore best model" (line 534): the model that main goes back to is    *)
(* the one that was measured.                                              *)
RestoredAsMeasured ==
    pc = "prune" /\ holdoutSet # {} => model = bestAsMeasured
=============================================================================
