------------------------------- MODULE JamAgent -------------------------------
(***************************************************************************)
(* One learning agent of a node: execute.py and the objects it owns, a     *)
(* linker (Ns3gymLinker on a live simulation, DatasetLinker on a recorded  *)
(* one), the QoS computer and evaluator, and a bandit algorithm.           *)
(*                                                                         *)
(* A window of node data is known by its Context id, the value of linker.i *)
(* when it was read; window 0 is the one init_execute reads.  What the     *)
(* properties tell apart of a window is its label and its QoS.  What the   *)
(* algorithm has learned is the sequence of update_reward calls it got:    *)
(* its matrices are a function of that sequence.                           *)
(***************************************************************************)
EXTENDS Integers, Sequences, FiniteSets

CONSTANTS Modes,       \* the modes agents are started in, see Mode
          QoSValues,   \* the values computeQOS can take
          Epsilon,     \* fluctuation accepted by the evaluator
          Windows      \* length of the dataset; bound on a live episode

(* name_algo; "other" is one whose scores can name any arm (linucb, egreedy,*)
(* ts, exp3).                                                               *)
Algorithms == {"random", "ucb1", "lints", "other"}

(* execute's live (simulation or dataset) and whether it was handed a model *)
(* of the pretraining, which itself starts from nothing.                    *)
Mode == {m \in [live : BOOLEAN, pretrained : BOOLEAN, algo : Algorithms] :
            m.pretrained => m.live /\ m.algo # "lints"}

ASSUME JamAgentAssumption ==
    /\ Modes \subseteq Mode /\ Modes # {}
    /\ QoSValues \subseteq Nat /\ QoSValues # {}
    /\ Epsilon \in Nat
    /\ Windows \in Nat \ {0}

(* The two arms of classes.txt; an arm predicts a jam if its second feature *)
(* is "1".                                                                  *)
Arms == {0, 1}
PredictsJam(arm) == arm = 1

NoQoS  == -1     \* 'current_QOS' and 'previous_QOS' before any window
NoPred == "-1"   \* 'previous_pred' before any round
NoCls  == -1     \* 'previous_cls' before any round (None)

VARIABLES
  mode,     \* the mode this agent was started in; never changes
  pc,       \* "start", "loop", "results", "sent" (q.put done), "crashed"
  i,        \* linker.i
  done,     \* linker.done
  contexts, \* windows the algorithm keeps, in its own order
  round,    \* the algorithm's round
  learned,  \* the updates the algorithm was given
  proc,     \* dict_process_value
  conf,     \* dict_conf_matrix
  graph,    \* dict_graph_list; of the recall lists only the lengths
  chosen    \* history: the window and the arm of each choose_action

vars == <<mode, pc, i, done, contexts, round, learned, proc, conf, graph, chosen>>

Live       == mode.live
Pretrained == mode.pretrained

(* A model that comes out of the pretraining has pulled each arm: its        *)
(* precision was computed, so it predicted a jam at least once.             *)
Init ==
    /\ mode \in Modes
    /\ pc = "start" /\ i = 0 /\ done = FALSE
    /\ contexts = <<>>
    /\ round = IF Pretrained THEN Cardinality(Arms) ELSE 0
    /\ learned = <<>> /\ chosen = <<>>
    /\ proc = [current_QOS |-> NoQoS, previous_QOS |-> NoQoS,
               previous_pred |-> NoPred, reward |-> 0, nb_instances |-> 0,
               previous_cls |-> NoCls, previous_context |-> 0]
    /\ conf = [TP |-> 0, TP_eval |-> 0, P |-> 0, TN |-> 0, TN_eval |-> 0, N |-> 0]
    /\ graph = [label |-> <<>>, predicted |-> <<>>, expected |-> <<>>,
                qos |-> <<>>, rcl_label |-> 0, rcl_eval |-> 0]

-------------------------------------------------------------------------------
(* The linker.                                                              *)

(* getData fails on a simulation that is over (the send is refused) and     *)
(* past the end of the dataset.                                             *)
CanRead == IF Live THEN ~done ELSE i < Windows

(* Bug: a window is skipped.                                                *)
BugReadSkip(over) == /\ i' = i + 2
                     /\ over \in IF Live /\ i + 1 < Windows THEN BOOLEAN ELSE {Live}
                     /\ done' = over

(* The simulation may be over after any window, and is by the bound; a      *)
(* dataset has no done flag.                                                *)
Read(over) == /\ i' = i + 1
              /\ over \in IF Live /\ i + 1 < Windows THEN BOOLEAN ELSE {Live}
              /\ done' = over

(* Evaluator.aUpperEqualsBEpsilon                                           *)
AUpperEqualsBEpsilon(a, b) == a >= b - Epsilon

(* Bug: the two branches are swapped.                                       *)
BugSimpleEvalSwapped(qos, qost1, wasAttacked) ==
    IF wasAttacked THEN ~AUpperEqualsBEpsilon(qost1, qos)
                   ELSE AUpperEqualsBEpsilon(qos, qost1)

(* Evaluator.simpleEval, the evaluation of mode "Std".                      *)
SimpleEval(qos, qost1, wasAttacked) ==
    IF wasAttacked THEN AUpperEqualsBEpsilon(qos, qost1)
                   ELSE ~AUpperEqualsBEpsilon(qost1, qos)

(* What Python's bool makes of a prediction, which is the string "0" or "1" *)
(* read from classes.txt.                                                   *)
Truth(pred) == pred # ""

-------------------------------------------------------------------------------
(* Bug: the windows of the pretraining are kept.                            *)
BugInitExecuteNoReset(over) ==
    /\ pc = "start"
    /\ Read(over)
    /\ contexts' = <<i>>
    /\ pc' = "loop"
    /\ UNCHANGED <<mode, round, learned, proc, conf, graph, chosen>>

(* init_execute: the first window is only there to size the model of the    *)
(* algorithm; a pretrained model drops every window it has.  LinTS cannot be*)
(* constructed (it reads a global that does not exist).                     *)
InitExecute(over) ==
    /\ pc = "start"
    /\ Read(over)
    /\ contexts' = IF Pretrained THEN <<>> ELSE <<i>>
    /\ pc' = IF mode.algo = "lints" THEN "crashed" ELSE "loop"
    /\ UNCHANGED <<mode, round, learned, proc, conf, graph, chosen>>

ReadFails == /\ pc = "loop"
             /\ ~CanRead
             /\ pc' = "crashed"
             /\ UNCHANGED <<mode, i, done, contexts, round, learned, proc, conf, graph,
                            chosen>>

(* What a fresh UCB1 has of an arm: count_a and cumul_reward.               *)
Pulls(a) == Cardinality({k \in DOMAIN learned : learned[k].arm = a})
Wins(a)  == Cardinality({k \in DOMAIN learned : learned[k].arm = a /\ learned[k].reward = 1})

(* 2 ln(n), in thousandths.                                                 *)
TwoLog(n) == <<0, 1386, 2197, 2773, 3219, 3584, 3892, 4159>>[n]

(* Bug: the arms are compared by their means alone.                         *)
BugWeight(a) == 1000 * Wins(a)

(* The numerator of an arm's score, whose denominator is its count.         *)
Weight(a) == 1000 * Wins(a) + TwoLog(round)

(* The first arm of the greatest score.  Both sides are cross-multiplied, so*)
(* that a count of zero is what it is in numpy: an infinite score.          *)
UcbArm == CHOOSE a \in Arms : \A b \in Arms :
              /\ Weight(a) * Pulls(b) >= Weight(b) * Pulls(a)
              /\ b < a => Weight(a) * Pulls(b) > Weight(b) * Pulls(a)

(* The first rounds of a fresh algorithm but Random pull the arms in turn;  *)
(* later ones go by scores, of which those of a fresh UCB1 are modelled (the*)
(* sentinel -1 of "no score is positive" indexes the last arm).             *)
ChooseAction(arm) ==
    /\ mode.algo # "random" /\ round < Cardinality(Arms) => arm = round
    /\ mode.algo = "ucb1" /\ ~Pretrained /\ round >= Cardinality(Arms) => arm = UcbArm

One(b) == IF b THEN 1 ELSE 0

(* Bug: true negatives are counted by the wrong label.                      *)
BugUpdateConf(pred, TP_bool, QOS_state) ==
    conf' = IF pred
              THEN [conf EXCEPT !.P = @ + 1,
                                !.TP = @ + One(TP_bool),
                                !.TP_eval = @ + One(QOS_state)]
              ELSE [conf EXCEPT !.N = @ + 1,
                                !.TN = @ + One(TP_bool),
                                !.TN_eval = @ + One(~QOS_state)]

(* dict_conf_matrix after a round.                                          *)
UpdateConf(pred, TP_bool, QOS_state) ==
    conf' = IF pred
              THEN [conf EXCEPT !.P = @ + 1,
                                !.TP = @ + One(TP_bool),
                                !.TP_eval = @ + One(QOS_state)]
              ELSE [conf EXCEPT !.N = @ + 1,
                                !.TN = @ + One(~TP_bool),
                                !.TN_eval = @ + One(~QOS_state)]

(* Bug: the test for "no prediction yet" is inverted.                       *)
BugEvaluation(QOS_state) ==
    One(proc.previous_pred = NoPred \/ Truth(proc.previous_pred) = QOS_state)

(* What the QoS state says of the previous prediction.                      *)
Evaluation(QOS_state) ==
    One(proc.previous_pred # NoPred /\ Truth(proc.previous_pred) = QOS_state)

(* An update_reward call for the context and the arm of an earlier decision.*)
Learn(context, arm, reward) ==
    learned' = Append(learned, [window |-> contexts'[context + 1], arm |-> arm,
                                reward |-> reward])

(* Bug: a live decision is rewarded at once, by the state it was taken in.  *)
BugUpdateReward(context, arm, TP_bool, evaluation) ==
    Learn(context, arm, IF Live THEN evaluation ELSE One(TP_bool))

(* A live decision waits for the next window; on a dataset the label is     *)
(* there already.                                                           *)
UpdateReward(context, arm, TP_bool, evaluation) ==
    CASE ~Live -> Learn(context, arm, One(TP_bool))
      [] Live /\ proc.previous_cls # NoCls ->
           Learn(proc.previous_context, proc.previous_cls, evaluation)
      [] Live /\ proc.previous_cls = NoCls -> UNCHANGED learned

(* run: choose, evaluate the previous prediction by the QoS, learn, count.  *)
(* nb_instances was incremented just before, and -1 makes it an index.      *)
Run(arm, TP_bool, qos) ==
    LET context   == proc.nb_instances
        QOS_state == /\ proc.current_QOS # NoQoS
                     /\ SimpleEval(proc.current_QOS, qos, Truth(proc.previous_pred))
    IN
    /\ ChooseAction(arm)
    /\ round' = round + 1
    /\ chosen' = Append(chosen, [window |-> contexts'[context + 1], arm |-> arm])
    /\ UpdateReward(context, arm, TP_bool, Evaluation(QOS_state))
    /\ proc' = [current_QOS |-> qos, previous_QOS |-> proc.current_QOS,
                previous_pred |-> IF PredictsJam(arm) THEN "1" ELSE "0",
                reward |-> proc.reward + Evaluation(QOS_state),
                nb_instances |-> proc.nb_instances + 1,
                previous_cls |-> arm, previous_context |-> context]
    /\ UpdateConf(PredictsJam(arm), TP_bool, QOS_state)
    /\ graph' = [label     |-> Append(graph.label, TP_bool),
                 predicted |-> Append(graph.predicted, PredictsJam(arm)),
                 expected  |-> Append(graph.expected, QOS_state),
                 qos       |-> Append(graph.qos, qos),
                 rcl_label |-> graph.rcl_label + One(conf'.TP + conf'.N - conf'.TN > 0),
                 rcl_eval  |-> graph.rcl_eval + One(conf'.TP_eval + conf'.N - conf'.TN_eval > 0)]

(* One turn of execute's loop: read a window, run, test for the end.        *)
Round(over, TP_bool, qos, arm) ==
    /\ pc = "loop"
    /\ CanRead
    /\ Read(over)
    /\ contexts' = Append(contexts, i)
    /\ Run(arm, TP_bool, qos)
    /\ UNCHANGED mode
    /\ pc' = IF (Live /\ done') \/ (~Live /\ i' = Windows - 1) THEN "results" ELSE "loop"

(* Bug: the specificity is not looked at.                                   *)
BugComputable == /\ conf.P # 0
                 /\ graph.rcl_label > 0
                 /\ Live => graph.rcl_eval > 0

(* compute_performance_values and, on a live run, retrieve_training_values: *)
(* a division by zero or the last entry of an empty list ends the process.  *)
Computable == LET FP == conf.P - conf.TP IN
              /\ conf.TN + FP # 0
              /\ conf.TP + FP # 0
              /\ graph.rcl_label > 0
              /\ Live => graph.rcl_eval > 0

Results == /\ pc = "results"
           /\ pc' = IF Computable THEN "sent" ELSE "crashed"
           /\ UNCHANGED <<mode, i, done, contexts, round, learned, proc, conf, graph,
                            chosen>>

Terminating == pc \in {"sent", "crashed"} /\ UNCHANGED vars

Next == \/ \E over \in BOOLEAN : InitExecute(over)
        \/ ReadFails
        \/ \E over, TP_bool \in BOOLEAN, qos \in QoSValues, arm \in Arms :
              Round(over, TP_bool, qos, arm)
        \/ Results
        \/ Terminating

Spec == Init /\ [][Next]_vars
-------------------------------------------------------------------------------
(* Type invariant.                                                          *)
TypeOK ==
    /\ mode \in Mode
    /\ pc \in {"start", "loop", "results", "sent", "crashed"}
    /\ i \in 0 .. Windows /\ done \in BOOLEAN
    /\ contexts \in Seq(Nat) /\ round \in Nat
    /\ learned \in Seq([window : Nat, arm : Arms, reward : {0, 1}])
    /\ chosen \in Seq([window : Nat, arm : Arms])
    /\ proc \in [current_QOS : QoSValues \union {NoQoS},
                 previous_QOS : QoSValues \union {NoQoS},
                 previous_pred : {NoPred, "0", "1"}, reward : Nat, nb_instances : Nat,
                 previous_cls : Arms \union {NoCls}, previous_context : Nat]
    /\ conf \in [TP : Nat, TP_eval : Nat, P : Nat, TN : Nat, TN_eval : Nat, N : Nat]
    /\ graph \in [label : Seq(BOOLEAN), predicted : Seq(BOOLEAN), expected : Seq(BOOLEAN),
                  qos : Seq(QoSValues), rcl_label : Nat, rcl_eval : Nat]

Rounds == DOMAIN graph.label

(* The confusion matrix is the one of the lists the report is drawn from:   *)
(* run counts each round once, on the right side, by its own label.         *)
ConfusionExact ==
    LET Predicted(b) == {k \in Rounds : graph.predicted[k] = b} IN
    /\ conf.P = Cardinality(Predicted(TRUE))
    /\ conf.N = Cardinality(Predicted(FALSE))
    /\ conf.TP = Cardinality({k \in Predicted(TRUE) : graph.label[k]})
    /\ conf.TN = Cardinality({k \in Predicted(FALSE) : ~graph.label[k]})
    /\ conf.TP_eval = Cardinality({k \in Predicted(TRUE) : graph.expected[k]})
    /\ conf.TN_eval = Cardinality({k \in Predicted(FALSE) : ~graph.expected[k]})

(* The window the algorithm decides on in round k is the one read in round  *)
(* k ("RETRIEVE THE CONTEXT INDEX" of run), if its model comes out of the   *)
(* pretraining; see LearnsLabelOfItsWindow for a fresh one.                 *)
DecidesOnItsWindow == Pretrained => \A k \in DOMAIN chosen : chosen[k].window = k

(* A label is learned with the window it labels: TP_bool is the "label of   *)
(* the current context", and window k is labelled by entry k.               *)
LearnsLabelOfItsWindow ==
    ~Live => \A k \in DOMAIN learned : learned[k].window = k

(* On a live run a decision is rewarded one round later, exactly once, in   *)
(* order, under the window and the arm it was taken with, by what the QoS   *)
(* did between its round and the next.                                      *)
CreditDelayed ==
    Live => /\ Len(learned) = IF chosen = <<>> THEN 0 ELSE Len(chosen) - 1
            /\ \A k \in DOMAIN learned :
                 learned[k] = [window |-> chosen[k].window, arm |-> chosen[k].arm,
                               reward |-> One(graph.qos[k] >= graph.qos[k + 1] - Epsilon)]

(* The reward of a live decision tells whether its prediction agrees with   *)
(* the QoS state of the next round ("EVALUATE THE PREVIOUS PREDICTION USING *)
(* THE CURRENT QOS STATE" of run).                                          *)
RewardJudgesPrediction ==
    Live => \A k \in DOMAIN learned :
        learned[k].reward = One(graph.predicted[k] = graph.expected[k + 1])

(* The first four decisions of a fresh UCB1.  On a dataset each arm gets    *)
(* two, whatever the labels.  On a live run the third goes to the last arm: *)
(* its own reward is still to come, and a count of zero is unbeatable.      *)
UcbFirstRounds ==
    mode.algo = "ucb1" /\ ~Pretrained =>
        /\ ~Live /\ Len(chosen) = 4 => \A a \in Arms : Pulls(a) = 2
        /\ Live /\ Len(chosen) >= 3 => chosen[3].arm = 1

(* The accuracy of the report never reaches one: the last decision has not  *)
(* been evaluated yet, and the first round evaluates nothing.               *)
AccuracyBelowOne == Rounds # {} => proc.reward < proc.nb_instances

(* An agent reports if and only if its episode had a jammed window, an      *)
(* unjammed one and a predicted jam and, live, a drop of the QoS: any other *)
(* ends in a division by zero or in an empty list, and nothing is sent.     *)
SendsUnlessOneSided ==
    pc \in {"sent", "crashed"} =>
        (pc = "sent" <=> /\ \E k \in Rounds : graph.label[k]
                         /\ \E k \in Rounds : ~graph.label[k]
                         /\ \E k \in Rounds : graph.predicted[k]
                         /\ Live => \E k \in Rounds : graph.expected[k])
===============================================================================
