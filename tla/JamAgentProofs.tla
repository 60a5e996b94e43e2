---------------------------- MODULE JamAgentProofs ----------------------------
(***************************************************************************)
(* Machine-checked proofs about JamAgent, for any length of an episode and *)
(* any values of the QoS.                                                  *)
(***************************************************************************)
EXTENDS JamAgent, FiniteSetTheorems, TLAPS

(* The inductive strengthening the proofs of JamAgentProofs rest on.        *)

Played == Len(chosen)

(* How far the linker is, and what is still to come.                        *)
EpisodeInv ==
    /\ i = IF pc = "start" THEN 0 ELSE Played + 1
    /\ pc = "start" => Played = 0 /\ ~done
    /\ Live /\ ~done => i < Windows
    /\ pc = "loop" /\ Live /\ done => Played = 0
    /\ pc = "loop" /\ ~Live => i < Windows - 1 \/ Windows <= 2

(* All lists grow together; proc holds the last round.                      *)
RoundInv ==
    /\ Len(graph.label) = Played /\ Len(graph.predicted) = Played
    /\ Len(graph.expected) = Played /\ Len(graph.qos) = Played
    /\ proc.nb_instances = Played
    /\ Played = 0 => /\ proc.current_QOS = NoQoS /\ proc.previous_pred = NoPred
                     /\ proc.previous_cls = NoCls
    /\ Played > 0 => /\ proc.current_QOS = graph.qos[Played]
                     /\ proc.previous_pred \in {"0", "1"}
                     /\ proc.previous_cls = chosen[Played].arm
                     /\ proc.previous_context = Played - 1
    /\ proc.reward <= Played /\ (Played > 0 => proc.reward < Played)

(* The windows of the algorithm, which miss the first one if it comes out   *)
(* of the pretraining, and the one each decision was made on.               *)
First == IF Pretrained THEN 0 ELSE 1

WindowInv ==
    /\ Len(contexts) = IF pc = "start" THEN 0 ELSE Played + First
    /\ \A k \in DOMAIN contexts : contexts[k] = k - First
    /\ \A k \in DOMAIN chosen : chosen[k].window = k - First

(* Whether a count of the confusion matrix is zero, by the lists.           *)
CountInv ==
    /\ conf.TP <= conf.P /\ conf.TN <= conf.N /\ conf.TN_eval <= conf.N
    /\ conf.P > 0 <=> \E k \in Rounds : graph.predicted[k]
    /\ conf.TN + (conf.P - conf.TP) > 0 <=> \E k \in Rounds : ~graph.label[k]
    /\ conf.TP + (conf.N - conf.TN) > 0 <=> \E k \in Rounds : graph.label[k]
    /\ conf.TP_eval + (conf.N - conf.TN_eval) > 0 <=> \E k \in Rounds : graph.expected[k]
    /\ graph.rcl_label > 0 <=> conf.TP + (conf.N - conf.TN) > 0
    /\ graph.rcl_eval > 0 <=> conf.TP_eval + (conf.N - conf.TN_eval) > 0

IInv == TypeOK /\ EpisodeInv /\ RoundInv /\ WindowInv /\ CreditDelayed /\ CountInv
        /\ ConfusionExact /\ SendsUnlessOneSided
-------------------------------------------------------------------------------
(* What an entry appended to a list changes.                                *)

LEMMA Entries ==
    ASSUME NEW S, NEW s \in Seq(S), NEW x \in S
    PROVE  /\ Append(s, x) \in Seq(S)
           /\ Len(Append(s, x)) = Len(s) + 1
           /\ DOMAIN Append(s, x) = 1 .. Len(s) + 1
           /\ \A k \in 1 .. Len(s) : Append(s, x)[k] = s[k]
           /\ Append(s, x)[Len(s) + 1] = x
  OBVIOUS

LEMMA EntryIn ==
    ASSUME NEW S, NEW s \in Seq(S), NEW k \in 1 .. Len(s)
    PROVE  s[k] \in S
  OBVIOUS

(* Some entry holds, after one more.                                        *)
LEMMA SomeEntry ==
    ASSUME NEW n \in Nat, NEW s, NEW t, NEW b,
           \A k \in 1 .. n : t[k] = s[k], t[n + 1] = b
    PROVE  /\ (\E k \in 1 .. n + 1 : t[k]) <=> (\E k \in 1 .. n : s[k]) \/ b
           /\ (\E k \in 1 .. n + 1 : ~t[k]) <=> (\E k \in 1 .. n : ~s[k]) \/ ~b
<1>1. \A k \in 1 .. n + 1 : k \in 1 .. n \/ k = n + 1
  OBVIOUS
<1>2. 1 .. n \subseteq 1 .. n + 1 /\ n + 1 \in 1 .. n + 1
  OBVIOUS
<1> QED
  BY <1>1, <1>2

(* A truth value counts for one or nothing.                                 *)
LEMMA Unit ==
    ASSUME NEW b
    PROVE  One(b) \in {0, 1} /\ One(b) \in Nat /\ (b => One(b) = 1) /\ (~b => One(b) = 0)
  BY DEF One

(* A tally after one more entry.                                            *)
LEMMA Tally ==
    ASSUME NEW n \in Nat, NEW S \in SUBSET (1 .. n)
    PROVE  Cardinality(S \union {n + 1}) = Cardinality(S) + 1 /\ Cardinality(S) \in Nat
<1>1. IsFiniteSet(1 .. n)
  BY FS_Interval
<1>2. IsFiniteSet(S) /\ Cardinality(S) \in Nat
  BY <1>1, FS_Subset, FS_CardinalityType
<1>3. n + 1 \notin S
  OBVIOUS
<1> QED
  BY <1>2, <1>3, FS_AddElement

(* The first n positions of s that hold b, and those of them where u holds  *)
(* or does not.                                                             *)
Tallied(n, s, b) == {k \in 1 .. n : s[k] = b}
Hits(n, s, b, u) == {k \in Tallied(n, s, b) : u[k]}
Misses(n, s, b, u) == {k \in Tallied(n, s, b) : ~u[k]}

(* What one more entry, at m, does to the tallies of both lists.            *)
Grow(n, m, s, t, b, u, v) ==
    LET here == t[m] = b IN
    /\ here => Cardinality(Tallied(m, t, b)) = Cardinality(Tallied(n, s, b)) + 1
    /\ ~here => Cardinality(Tallied(m, t, b)) = Cardinality(Tallied(n, s, b))
    /\ here /\ v[m] => Cardinality(Hits(m, t, b, v)) = Cardinality(Hits(n, s, b, u)) + 1
    /\ ~(here /\ v[m]) => Cardinality(Hits(m, t, b, v)) = Cardinality(Hits(n, s, b, u))
    /\ here /\ ~v[m] => Cardinality(Misses(m, t, b, v)) = Cardinality(Misses(n, s, b, u)) + 1
    /\ ~(here /\ ~v[m]) => Cardinality(Misses(m, t, b, v)) = Cardinality(Misses(n, s, b, u))

LEMMA TallyBoth ==
    ASSUME NEW n \in Nat, NEW m, m = n + 1, NEW s, NEW t, NEW u, NEW v, NEW b,
           \A k \in 1 .. n : t[k] = s[k] /\ v[k] = u[k]
    PROVE  Grow(n, m, s, t, b, u, v)
<1>1. /\ \A k \in 1 .. m : k \in 1 .. n \/ k = m
      /\ \A k \in 1 .. n : k \in 1 .. m
      /\ m \in 1 .. m
  OBVIOUS
<1>2. /\ t[m] = b => Tallied(m, t, b) = Tallied(n, s, b) \union {m}
      /\ t[m] # b => Tallied(m, t, b) = Tallied(n, s, b)
  BY <1>1 DEF Tallied
<1>3. /\ t[m] = b /\ v[m] => Hits(m, t, b, v) = Hits(n, s, b, u) \union {m}
      /\ ~(t[m] = b /\ v[m]) => Hits(m, t, b, v) = Hits(n, s, b, u)
  BY <1>1 DEF Tallied, Hits
<1>4. /\ t[m] = b /\ ~v[m] =>
           Misses(m, t, b, v) = Misses(n, s, b, u) \union {m}
      /\ ~(t[m] = b /\ ~v[m]) => Misses(m, t, b, v) = Misses(n, s, b, u)
  BY <1>1 DEF Tallied, Misses
<1>5. /\ Tallied(n, s, b) \in SUBSET (1 .. n) /\ Hits(n, s, b, u) \in SUBSET (1 .. n)
      /\ Misses(n, s, b, u) \in SUBSET (1 .. n)
  BY DEF Tallied, Hits, Misses
<1>6. /\ Cardinality(Tallied(n, s, b) \union {m}) = Cardinality(Tallied(n, s, b)) + 1
      /\ Cardinality(Tallied(n, s, b)) \in Nat
  BY <1>5, Tally
<1>7. /\ Cardinality(Hits(n, s, b, u) \union {m}) = Cardinality(Hits(n, s, b, u)) + 1
      /\ Cardinality(Hits(n, s, b, u)) \in Nat
  BY <1>5, Tally
<1>8. /\ Cardinality(Misses(n, s, b, u) \union {m}) = Cardinality(Misses(n, s, b, u)) + 1
      /\ Cardinality(Misses(n, s, b, u)) \in Nat
  BY <1>5, Tally
<1>9. /\ t[m] = b => Cardinality(Tallied(m, t, b)) = Cardinality(Tallied(n, s, b)) + 1
      /\ t[m] # b => Cardinality(Tallied(m, t, b)) = Cardinality(Tallied(n, s, b))
  BY <1>2, <1>6
<1>10. /\ t[m] = b /\ v[m] => Cardinality(Hits(m, t, b, v)) = Cardinality(Hits(n, s, b, u)) + 1
       /\ ~(t[m] = b /\ v[m]) => Cardinality(Hits(m, t, b, v)) = Cardinality(Hits(n, s, b, u))
  BY <1>3, <1>7
<1>11. /\ t[m] = b /\ ~v[m] =>
            Cardinality(Misses(m, t, b, v)) = Cardinality(Misses(n, s, b, u)) + 1
       /\ ~(t[m] = b /\ ~v[m]) => Cardinality(Misses(m, t, b, v)) = Cardinality(Misses(n, s, b, u))
  BY <1>4, <1>8
<1> QED
  BY <1>9, <1>10, <1>11 DEF Grow
-------------------------------------------------------------------------------
(* One round, as its proofs use it.                                         *)

QosState(qos) == /\ proc.current_QOS # NoQoS
                 /\ SimpleEval(proc.current_QOS, qos, Truth(proc.previous_pred))

(* The QoS state of a round, once there is a prediction, is whether the QoS *)
(* held: Python takes both predictions for true.                            *)
LEMMA QosStateIs ==
    ASSUME TypeOK, RoundInv, NEW qos \in QoSValues
    PROVE  /\ QosState(qos) \in BOOLEAN
           /\ Played = 0 => ~QosState(qos) /\ Evaluation(QosState(qos)) = 0
           /\ Played > 0 => /\ QosState(qos) <=> graph.qos[Played] >= qos - Epsilon
                            /\ Evaluation(QosState(qos)) = One(QosState(qos))
<1>1. QosState(qos) \in BOOLEAN
  BY DEF QosState, SimpleEval, AUpperEqualsBEpsilon
<1>2. Truth(proc.previous_pred)
  BY DEF TypeOK, Truth, NoPred
<1>3. ASSUME Played = 0
      PROVE  ~QosState(qos) /\ Evaluation(QosState(qos)) = 0
  BY <1>3 DEF RoundInv, QosState, Evaluation, One
<1>4. ASSUME Played > 0
      PROVE  /\ QosState(qos) <=> graph.qos[Played] >= qos - Epsilon
             /\ Evaluation(QosState(qos)) = One(QosState(qos))
  <2>1. graph.qos \in Seq(QoSValues) /\ Len(graph.qos) = Played /\ Played \in Nat
    BY DEF TypeOK, RoundInv, Played
  <2>2. graph.qos[Played] \in QoSValues
    BY <1>4, <2>1
  <2>3. proc.current_QOS = graph.qos[Played] /\ proc.current_QOS # NoQoS
    BY <1>4, <2>2, JamAgentAssumption DEF RoundInv, NoQoS
  <2>4. QosState(qos) <=> graph.qos[Played] >= qos - Epsilon
    BY <1>2, <2>3 DEF QosState, SimpleEval, AUpperEqualsBEpsilon
  <2>5. proc.previous_pred # NoPred
    BY <1>4 DEF RoundInv, NoPred
  <2>6. Evaluation(QosState(qos)) = One(TRUE = QosState(qos))
    BY <1>2, <2>5 DEF Evaluation, Truth, One
  <2> QED
    BY <1>1, <2>4, <2>6 DEF One
<1> QED
  BY <1>1, <1>3, <1>4
-------------------------------------------------------------------------------
(* Where a round starts, and what it does.                                  *)
LEMMA RoundStarts ==
    ASSUME IInv, CanRead, pc = "loop"
    PROVE  /\ Played \in Nat /\ i = Played + 1 /\ i < Windows /\ First \in {0, 1}
           /\ Played + 1 - First \in Nat
           /\ contexts \in Seq(Nat) /\ Len(contexts) = Played + First
           /\ \A k \in 1 .. Played + First : contexts[k] = k - First
           /\ \A k \in 1 .. Played : chosen[k].window = k - First
<1>1. Played \in Nat /\ First \in {0, 1} /\ chosen \in Seq([window : Nat, arm : Arms])
  BY DEF IInv, TypeOK, Played, First
<1>2. i = Played + 1 /\ i < Windows
  BY <1>1 DEF IInv, EpisodeInv, CanRead
<1>3. contexts \in Seq(Nat) /\ Len(contexts) = Played + First
  BY DEF IInv, TypeOK, WindowInv
<1>4. Played + 1 - First \in Nat
  BY <1>1
<1>5. DOMAIN contexts = 1 .. Played + First /\ DOMAIN chosen = 1 .. Played
  BY <1>1, <1>3 DEF Played
<1> QED
  BY <1>1, <1>2, <1>3, <1>5, <1>4 DEF IInv, WindowInv

LEMMA WindowRead ==
    ASSUME IInv, CanRead, pc = "loop", contexts' = Append(contexts, i)
    PROVE  /\ contexts' \in Seq(Nat) /\ Len(contexts') = Played + 1 + First
           /\ \A k \in 1 .. Played + 1 + First : contexts'[k] = k - First
           /\ Played + 1 - First \in Nat /\ Played + 1 \in 1 .. Played + 1 + First
<1>1. Played \in Nat /\ i = Played + 1 /\ i \in Nat /\ First \in {0, 1}
  BY RoundStarts
<1>2. /\ contexts' \in Seq(Nat) /\ Len(contexts') = Played + First + 1
      /\ \A k \in 1 .. Played + First : contexts'[k] = k - First
      /\ contexts'[Played + First + 1] = i
  BY <1>1, RoundStarts, Entries
<1> QED
  BY <1>1, <1>2

(* The update the algorithm is given in a round.                            *)
LEMMA LearnedInRound ==
    ASSUME IInv, CanRead, pc = "loop", contexts' = Append(contexts, i),
           NEW qos \in QoSValues, NEW TP_bool \in BOOLEAN, NEW arm \in Arms,
           UpdateReward(proc.nb_instances, arm, TP_bool, Evaluation(QosState(qos)))
    PROVE  /\ ~Live => learned' = Append(learned, [window |-> Played + 1 - First, arm |-> arm,
                                                   reward |-> One(TP_bool)])
           /\ Live /\ Played = 0 => learned' = learned
           /\ Live /\ Played > 0 =>
                learned' = Append(learned,
                    [window |-> chosen[Played].window, arm |-> chosen[Played].arm,
                     reward |-> One(graph.qos[Played] >= qos - Epsilon)])
<1>1. Played \in Nat /\ First \in {0, 1} /\ proc.nb_instances = Played
  BY RoundStarts DEF IInv, RoundInv
<1>2. /\ contexts'[Played + 1] = Played + 1 - First
      /\ Played > 0 => contexts'[Played] = Played - First
  BY <1>1, WindowRead
<1>3. ASSUME ~Live
      PROVE  learned' = Append(learned, [window |-> Played + 1 - First, arm |-> arm,
                                         reward |-> One(TP_bool)])
  BY <1>1, <1>2, <1>3 DEF UpdateReward, Learn
<1>4. ASSUME Live, Played = 0
      PROVE  learned' = learned
  BY <1>4 DEF UpdateReward, IInv, RoundInv
<1>5. ASSUME Live, Played > 0
      PROVE  learned' = Append(learned,
                    [window |-> chosen[Played].window, arm |-> chosen[Played].arm,
                     reward |-> One(graph.qos[Played] >= qos - Epsilon)])
  <2>1. proc.previous_cls = chosen[Played].arm /\ proc.previous_context = Played - 1
    BY <1>5 DEF IInv, RoundInv
  <2>2. chosen \in Seq([window : Nat, arm : Arms]) /\ Played \in 1 .. Len(chosen)
    BY <1>1, <1>5 DEF IInv, TypeOK, Played
  <2> DEFINE d == chosen[Played]
  <2>3. d \in [window : Nat, arm : Arms]
    BY <2>2, EntryIn
  <2>4. chosen[Played].arm # NoCls
    <3> HIDE DEF d
    <3>1. d.arm \in Arms
      BY <2>3
    <3>2. d.arm # NoCls
      BY <3>1 DEF Arms, NoCls
    <3> QED
      BY <3>2 DEF d
  <2>5. learned' = Append(learned, [window |-> contexts'[Played - 1 + 1],
                                    arm |-> chosen[Played].arm,
                                    reward |-> Evaluation(QosState(qos))])
    BY <1>5, <2>1, <2>4 DEF UpdateReward, Learn
  <2>6. contexts'[Played - 1 + 1] = chosen[Played].window
    BY <1>1, <1>2, <1>5, RoundStarts
  <2>7. Evaluation(QosState(qos)) = One(graph.qos[Played] >= qos - Epsilon)
    <3>1. TypeOK /\ RoundInv
      BY DEF IInv
    <3>2. /\ QosState(qos) \in BOOLEAN
          /\ QosState(qos) <=> graph.qos[Played] >= qos - Epsilon
          /\ Evaluation(QosState(qos)) = One(QosState(qos))
      BY <1>5, <3>1, QosStateIs
    <3> QED
      BY <3>2 DEF One
  <2> QED
    BY <2>5, <2>6, <2>7
<1> QED
  BY <1>3, <1>4, <1>5
-------------------------------------------------------------------------------
(* Everything a round does, in the form the steps below use.                *)
RoundDone(over, TP_bool, qos, arm) ==
    /\ i' = i + 1 /\ done' = over /\ over \in BOOLEAN
    /\ Live /\ ~over => i + 1 < Windows
    /\ contexts' = Append(contexts, i)
    /\ round' = round + 1 /\ mode' = mode
    /\ chosen' = Append(chosen, [window |-> Played + 1 - First, arm |-> arm])
    /\ UpdateReward(proc.nb_instances, arm, TP_bool, Evaluation(QosState(qos)))
    /\ proc' = [current_QOS |-> qos, previous_QOS |-> proc.current_QOS,
                previous_pred |-> IF PredictsJam(arm) THEN "1" ELSE "0",
                reward |-> proc.reward + Evaluation(QosState(qos)),
                nb_instances |-> Played + 1,
                previous_cls |-> arm, previous_context |-> Played]
    /\ UpdateConf(PredictsJam(arm), TP_bool, QosState(qos))
    /\ graph' = [label     |-> Append(graph.label, TP_bool),
                 predicted |-> Append(graph.predicted, PredictsJam(arm)),
                 expected  |-> Append(graph.expected, QosState(qos)),
                 qos       |-> Append(graph.qos, qos),
                 rcl_label |-> graph.rcl_label + One(conf'.TP + conf'.N - conf'.TN > 0),
                 rcl_eval  |-> graph.rcl_eval + One(conf'.TP_eval + conf'.N - conf'.TN_eval > 0)]
    /\ pc' = IF (Live /\ over) \/ (~Live /\ i + 1 = Windows - 1) THEN "results" ELSE "loop"

LEMMA RoundDoes ==
    ASSUME IInv, NEW over \in BOOLEAN, NEW TP_bool \in BOOLEAN, NEW qos \in QoSValues,
           NEW arm \in Arms, Round(over, TP_bool, qos, arm)
    PROVE  pc = "loop" /\ CanRead /\ RoundDone(over, TP_bool, qos, arm)
<1>1. pc = "loop" /\ CanRead /\ contexts' = Append(contexts, i)
  BY DEF Round
<1>2. proc.nb_instances = Played /\ contexts'[Played + 1] = Played + 1 - First
  BY <1>1, RoundStarts, WindowRead DEF IInv, RoundInv
<1>3. /\ i' = i + 1 /\ done' = over /\ mode' = mode
      /\ Live /\ ~over => i + 1 < Windows
      /\ pc' = IF (Live /\ over) \/ (~Live /\ i + 1 = Windows - 1) THEN "results" ELSE "loop"
  BY DEF Round, Read, Live
<1>4. Run(arm, TP_bool, qos)
  BY DEF Round
<1> QED
  BY <1>1, <1>2, <1>3, <1>4 DEF Run, RoundDone, QosState
-------------------------------------------------------------------------------
(* A round preserves each part of the invariant.                            *)

LEMMA EpisodeStep ==
    ASSUME IInv, pc = "loop", CanRead, NEW over, NEW TP_bool \in BOOLEAN,
           NEW qos \in QoSValues, NEW arm \in Arms, RoundDone(over, TP_bool, qos, arm)
    PROVE  EpisodeInv' /\ Played' = Played + 1 /\ Live' = Live /\ First' = First
<1>1. Played' = Played + 1
  <2>1. chosen \in Seq([window : Nat, arm : Arms]) /\ Played + 1 - First \in Nat
    <3>1. Played + 1 - First \in Nat
      BY RoundStarts
    <3> QED
      BY <3>1 DEF IInv, TypeOK
  <2>2. [window |-> Played + 1 - First, arm |-> arm] \in [window : Nat, arm : Arms]
    BY <2>1
  <2> QED
    BY <2>1, <2>2, Entries DEF RoundDone, Played
<1>2. Live' = Live /\ First' = First
  BY DEF RoundDone, Live, First, Pretrained
<1>3. /\ Played \in Nat /\ i = Played + 1 /\ i < Windows /\ Windows \in Nat
      /\ ~Live => i < Windows - 1 \/ Windows <= 2
  BY RoundStarts, JamAgentAssumption DEF IInv, EpisodeInv
<1>4. /\ i' = i + 1 /\ done' = over /\ over \in BOOLEAN /\ (Live /\ ~over => i + 1 < Windows)
      /\ pc' = IF (Live /\ over) \/ (~Live /\ i + 1 = Windows - 1) THEN "results" ELSE "loop"
  BY DEF RoundDone
<1> QED
  BY <1>1, <1>2, <1>3, <1>4 DEF EpisodeInv

LEMMA ListsStep ==
    ASSUME IInv, pc = "loop", CanRead, NEW over, NEW TP_bool \in BOOLEAN,
           NEW qos \in QoSValues, NEW arm \in Arms, RoundDone(over, TP_bool, qos, arm)
    PROVE  /\ chosen' \in Seq([window : Nat, arm : Arms])
           /\ DOMAIN chosen' = 1 .. Played + 1
           /\ \A k \in 1 .. Played : chosen'[k] = chosen[k]
           /\ chosen'[Played + 1].window = Played + 1 - First
           /\ chosen'[Played + 1].arm = arm
           /\ graph'.qos \in Seq(QoSValues) /\ Len(graph'.qos) = Played + 1
           /\ \A k \in 1 .. Played : graph'.qos[k] = graph.qos[k]
           /\ graph'.qos[Played + 1] = qos
           /\ graph'.label \in Seq(BOOLEAN) /\ Len(graph'.label) = Played + 1
           /\ graph'.predicted \in Seq(BOOLEAN) /\ Len(graph'.predicted) = Played + 1
           /\ graph'.expected \in Seq(BOOLEAN) /\ Len(graph'.expected) = Played + 1
           /\ \A k \in 1 .. Played : /\ graph'.label[k] = graph.label[k]
                                    /\ graph'.predicted[k] = graph.predicted[k]
                                    /\ graph'.expected[k] = graph.expected[k]
           /\ graph'.label[Played + 1] = TP_bool
           /\ graph'.predicted[Played + 1] = PredictsJam(arm)
           /\ graph'.expected[Played + 1] = QosState(qos)
<1>1. Played \in Nat /\ chosen \in Seq([window : Nat, arm : Arms]) /\ Played + 1 - First \in Nat
  <2>1. Played \in Nat /\ Played + 1 - First \in Nat
    BY RoundStarts
  <2> QED
    BY <2>1 DEF IInv, TypeOK
<1>2. [window |-> Played + 1 - First, arm |-> arm] \in [window : Nat, arm : Arms]
  BY <1>1
<1>3. /\ chosen' \in Seq([window : Nat, arm : Arms])
      /\ DOMAIN chosen' = 1 .. Played + 1
      /\ \A k \in 1 .. Played : chosen'[k] = chosen[k]
      /\ chosen'[Played + 1] = [window |-> Played + 1 - First, arm |-> arm]
  BY <1>1, <1>2, Entries DEF RoundDone, Played
<1>4. /\ graph.label \in Seq(BOOLEAN) /\ Len(graph.label) = Played
      /\ graph.predicted \in Seq(BOOLEAN) /\ Len(graph.predicted) = Played
      /\ graph.expected \in Seq(BOOLEAN) /\ Len(graph.expected) = Played
      /\ graph.qos \in Seq(QoSValues) /\ Len(graph.qos) = Played
  BY DEF IInv, TypeOK, RoundInv
<1>5. QosState(qos) \in BOOLEAN /\ PredictsJam(arm) \in BOOLEAN
  BY QosStateIs DEF IInv, PredictsJam
<1>6. /\ graph'.qos = Append(graph.qos, qos)
      /\ graph'.label = Append(graph.label, TP_bool)
      /\ graph'.predicted = Append(graph.predicted, PredictsJam(arm))
      /\ graph'.expected = Append(graph.expected, QosState(qos))
  BY DEF RoundDone
<1>7. /\ graph'.qos \in Seq(QoSValues) /\ Len(graph'.qos) = Played + 1
      /\ \A k \in 1 .. Played : graph'.qos[k] = graph.qos[k]
      /\ graph'.qos[Played + 1] = qos
  BY <1>4, <1>6, Entries
<1>8. /\ graph'.label \in Seq(BOOLEAN) /\ Len(graph'.label) = Played + 1
      /\ graph'.predicted \in Seq(BOOLEAN) /\ Len(graph'.predicted) = Played + 1
      /\ graph'.expected \in Seq(BOOLEAN) /\ Len(graph'.expected) = Played + 1
  <2>1. ASSUME NEW s \in Seq(BOOLEAN), Len(s) = Played, NEW x \in BOOLEAN
        PROVE  Append(s, x) \in Seq(BOOLEAN) /\ Len(Append(s, x)) = Played + 1
    BY <2>1, Entries
  <2> QED
    BY <1>4, <1>5, <1>6, <2>1
<1>9. /\ \A k \in 1 .. Played : graph'.label[k] = graph.label[k]
      /\ graph'.label[Played + 1] = TP_bool
  BY <1>4, <1>6, Entries
<1>10. /\ \A k \in 1 .. Played : graph'.predicted[k] = graph.predicted[k]
       /\ graph'.predicted[Played + 1] = PredictsJam(arm)
  BY <1>4, <1>5, <1>6, Entries
<1>11. /\ \A k \in 1 .. Played : graph'.expected[k] = graph.expected[k]
       /\ graph'.expected[Played + 1] = QosState(qos)
  BY <1>4, <1>5, <1>6, Entries
<1> QED
  BY <1>3, <1>7, <1>8, <1>9, <1>10, <1>11

LEMMA RoundInvStep ==
    ASSUME IInv, pc = "loop", CanRead, NEW over, NEW TP_bool \in BOOLEAN,
           NEW qos \in QoSValues, NEW arm \in Arms, RoundDone(over, TP_bool, qos, arm)
    PROVE  RoundInv'
<1>1. Played \in Nat /\ Played' = Played + 1
  BY RoundStarts, EpisodeStep
<1>2. /\ Len(graph'.label) = Played' /\ Len(graph'.predicted) = Played'
      /\ Len(graph'.expected) = Played' /\ Len(graph'.qos) = Played'
      /\ graph'.qos[Played'] = qos /\ chosen'[Played'].arm = arm
  BY <1>1, ListsStep
<1>3. /\ proc'.nb_instances = Played' /\ proc'.current_QOS = qos
      /\ proc'.previous_pred \in {"0", "1"} /\ proc'.previous_cls = arm
      /\ proc'.previous_context = Played' - 1
      /\ proc'.reward = proc.reward + Evaluation(QosState(qos))
  BY <1>1 DEF RoundDone
<1>4. proc'.reward <= Played' /\ proc'.reward < Played'
  <2>1. proc.reward \in Nat /\ proc.reward <= Played /\ (Played > 0 => proc.reward < Played)
    BY DEF IInv, TypeOK, RoundInv
  <2>2. Evaluation(QosState(qos)) \in {0, 1} /\ (Played = 0 => Evaluation(QosState(qos)) = 0)
    BY QosStateIs DEF IInv, Evaluation, One
  <2> QED
    BY <1>1, <1>3, <2>1, <2>2
<1> QED
  BY <1>1, <1>2, <1>3, <1>4 DEF RoundInv

LEMMA WindowStep ==
    ASSUME IInv, pc = "loop", CanRead, NEW over, NEW TP_bool \in BOOLEAN,
           NEW qos \in QoSValues, NEW arm \in Arms, RoundDone(over, TP_bool, qos, arm)
    PROVE  WindowInv'
<1>1. Played \in Nat /\ First \in {0, 1} /\ Played' = Played + 1 /\ First' = First
  BY RoundStarts, EpisodeStep
<1>2. pc' # "start" /\ contexts' = Append(contexts, i)
  BY DEF RoundDone
<1>3. /\ contexts' \in Seq(Nat) /\ Len(contexts') = Played' + First'
      /\ \A k \in 1 .. Played' + First' : contexts'[k] = k - First'
  BY <1>1, <1>2, WindowRead
<1>4. \A k \in DOMAIN chosen' : chosen'[k].window = k - First'
  <2>1. SUFFICES ASSUME NEW k \in 1 .. Played + 1
                 PROVE  chosen'[k].window = k - First
    BY <1>1, ListsStep
  <2>2. CASE k = Played + 1
    BY <1>1, <2>2, ListsStep
  <2>3. CASE k # Played + 1
    <3>1. k \in 1 .. Played
      BY <1>1, <2>3
    <3> QED
      BY <3>1, ListsStep, RoundStarts
  <2> QED
    BY <2>2, <2>3
<1> QED
  BY <1>2, <1>3, <1>4 DEF WindowInv
LEMMA TypeStep ==
    ASSUME IInv, pc = "loop", CanRead, NEW over, NEW TP_bool \in BOOLEAN,
           NEW qos \in QoSValues, NEW arm \in Arms, RoundDone(over, TP_bool, qos, arm)
    PROVE  TypeOK'
<1>1. Played \in Nat /\ i' \in 0 .. Windows /\ done' \in BOOLEAN
  <2>1. Played \in Nat /\ i + 1 \in 0 .. Windows
    BY RoundStarts, JamAgentAssumption
  <2>2. i' = i + 1 /\ done' \in BOOLEAN
    BY DEF RoundDone
  <2> QED
    BY <2>1, <2>2
<1>2. mode' \in Mode /\ pc' \in {"start", "loop", "results", "sent", "crashed"} /\ round' \in Nat
  BY DEF RoundDone, IInv, TypeOK
<1>3. contexts' \in Seq(Nat)
  BY WindowRead DEF RoundDone
<1>4. chosen' \in Seq([window : Nat, arm : Arms])
  BY ListsStep
<1>5. learned' \in Seq([window : Nat, arm : Arms, reward : {0, 1}])
  <2>1. learned \in Seq([window : Nat, arm : Arms, reward : {0, 1}])
    BY DEF IInv, TypeOK
  <2>2. ASSUME Played > 0
        PROVE  [window |-> chosen[Played].window, arm |-> chosen[Played].arm,
                reward |-> One(graph.qos[Played] >= qos - Epsilon)]
                  \in [window : Nat, arm : Arms, reward : {0, 1}]
    <3>1. Played \in 1 .. Len(chosen) /\ chosen \in Seq([window : Nat, arm : Arms])
      BY <1>1, <2>2 DEF IInv, TypeOK, Played
    <3>2. chosen[Played] \in [window : Nat, arm : Arms]
      BY <3>1, EntryIn
    <3>3. chosen[Played].window \in Nat /\ chosen[Played].arm \in Arms
      BY <3>2
    <3>4. One(graph.qos[Played] >= qos - Epsilon) \in {0, 1}
      BY Unit
    <3> QED
      BY <3>3, <3>4
  <2>3. [window |-> Played + 1 - First, arm |-> arm, reward |-> One(TP_bool)]
           \in [window : Nat, arm : Arms, reward : {0, 1}]
    <3>1. Played + 1 - First \in Nat /\ One(TP_bool) \in {0, 1}
      BY RoundStarts, Unit
    <3> QED
      BY <3>1
  <2>4. \/ learned' = learned
        \/ learned' = Append(learned, [window |-> Played + 1 - First, arm |-> arm,
                                        reward |-> One(TP_bool)])
        \/ /\ Played > 0
           /\ learned' = Append(learned,
                 [window |-> chosen[Played].window, arm |-> chosen[Played].arm,
                  reward |-> One(graph.qos[Played] >= qos - Epsilon)])
    BY <1>1, LearnedInRound DEF RoundDone
  <2> DEFINE T == [window : Nat, arm : Arms, reward : {0, 1}]
             d == [window |-> Played + 1 - First, arm |-> arm, reward |-> One(TP_bool)]
             e == [window |-> chosen[Played].window, arm |-> chosen[Played].arm,
                   reward |-> One(graph.qos[Played] >= qos - Epsilon)]
  <2>5. learned \in Seq(T) /\ d \in T /\ (Played > 0 => e \in T)
    BY <2>1, <2>2, <2>3
  <2>6. \/ learned' = learned
        \/ learned' = Append(learned, d)
        \/ Played > 0 /\ learned' = Append(learned, e)
    BY <2>4
  <2> HIDE DEF T, d, e
  <2>7. learned' \in Seq(T)
    BY <2>5, <2>6, Entries
  <2> QED
    BY <2>7 DEF T
<1>6. QosState(qos) \in BOOLEAN /\ Evaluation(QosState(qos)) \in Nat
  BY QosStateIs DEF IInv, Evaluation, One
<1>7. proc' \in [current_QOS : QoSValues \union {NoQoS},
                 previous_QOS : QoSValues \union {NoQoS},
                 previous_pred : {NoPred, "0", "1"}, reward : Nat, nb_instances : Nat,
                 previous_cls : Arms \union {NoCls}, previous_context : Nat]
  <2>1. /\ proc.current_QOS \in QoSValues \union {NoQoS} /\ proc.reward \in Nat
    BY DEF IInv, TypeOK
  <2>2. proc.reward + Evaluation(QosState(qos)) \in Nat
    BY <1>6, <2>1
  <2> QED
    BY <1>1, <2>1, <2>2 DEF RoundDone
<1>8. conf' \in [TP : Nat, TP_eval : Nat, P : Nat, TN : Nat, TN_eval : Nat, N : Nat]
  <2>1. conf \in [TP : Nat, TP_eval : Nat, P : Nat, TN : Nat, TN_eval : Nat, N : Nat]
    BY DEF IInv, TypeOK
  <2>2. /\ One(TP_bool) \in Nat /\ One(QosState(qos)) \in Nat
        /\ One(~TP_bool) \in Nat /\ One(~QosState(qos)) \in Nat
    BY Unit
  <2>3. \E j, k \in Nat : \/ conf' = [conf EXCEPT !.P = @ + 1, !.TP = @ + j, !.TP_eval = @ + k]
                         \/ conf' = [conf EXCEPT !.N = @ + 1, !.TN = @ + j, !.TN_eval = @ + k]
    BY <2>2 DEF RoundDone, UpdateConf
  <2>4. PICK j \in Nat, k \in Nat :
             \/ conf' = [conf EXCEPT !.P = @ + 1, !.TP = @ + j, !.TP_eval = @ + k]
             \/ conf' = [conf EXCEPT !.N = @ + 1, !.TN = @ + j, !.TN_eval = @ + k]
    BY <2>3
  <2>5. /\ conf.P + 1 \in Nat /\ conf.TP + j \in Nat /\ conf.TP_eval + k \in Nat
        /\ conf.N + 1 \in Nat /\ conf.TN + j \in Nat /\ conf.TN_eval + k \in Nat
    BY <2>1
  <2>6. CASE conf' = [conf EXCEPT !.P = @ + 1, !.TP = @ + j, !.TP_eval = @ + k]
    BY <2>1, <2>5, <2>6
  <2>7. CASE conf' = [conf EXCEPT !.N = @ + 1, !.TN = @ + j, !.TN_eval = @ + k]
    BY <2>1, <2>5, <2>7
  <2> QED
    BY <2>4, <2>6, <2>7
<1>9. graph' \in [label : Seq(BOOLEAN), predicted : Seq(BOOLEAN), expected : Seq(BOOLEAN),
                  qos : Seq(QoSValues), rcl_label : Nat, rcl_eval : Nat]
  <2>1. /\ One(conf'.TP + conf'.N - conf'.TN > 0) \in Nat
        /\ One(conf'.TP_eval + conf'.N - conf'.TN_eval > 0) \in Nat
    BY Unit
  <2>2. graph.rcl_label \in Nat /\ graph.rcl_eval \in Nat
    BY DEF IInv, TypeOK
  <2>3. graph'.rcl_label \in Nat /\ graph'.rcl_eval \in Nat
    <3>1. /\ graph'.rcl_label = graph.rcl_label + One(conf'.TP + conf'.N - conf'.TN > 0)
          /\ graph'.rcl_eval = graph.rcl_eval + One(conf'.TP_eval + conf'.N - conf'.TN_eval > 0)
      BY DEF RoundDone
    <3> QED
      BY <2>1, <2>2, <3>1
  <2>4. graph' = [label |-> graph'.label, predicted |-> graph'.predicted,
                  expected |-> graph'.expected, qos |-> graph'.qos,
                  rcl_label |-> graph'.rcl_label, rcl_eval |-> graph'.rcl_eval]
    BY DEF RoundDone
  <2>5. /\ graph'.label \in Seq(BOOLEAN) /\ graph'.predicted \in Seq(BOOLEAN)
        /\ graph'.expected \in Seq(BOOLEAN) /\ graph'.qos \in Seq(QoSValues)
    BY ListsStep
  <2> QED
    BY <2>3, <2>4, <2>5
<1> QED
  BY <1>1, <1>2, <1>3, <1>4, <1>5, <1>7, <1>8, <1>9 DEF TypeOK

LEMMA CreditStep ==
    ASSUME IInv, pc = "loop", CanRead, NEW over, NEW TP_bool \in BOOLEAN,
           NEW qos \in QoSValues, NEW arm \in Arms, RoundDone(over, TP_bool, qos, arm)
    PROVE  CreditDelayed'
<1> SUFFICES ASSUME Live
             PROVE  CreditDelayed'
  BY EpisodeStep DEF CreditDelayed
<1>1. /\ Played \in Nat /\ Len(chosen') = Played + 1 /\ chosen' # <<>>
      /\ (chosen = <<>> <=> Played = 0)
  <2>1. chosen \in Seq([window : Nat, arm : Arms]) /\ Played \in Nat
    BY DEF IInv, TypeOK, Played
  <2>2. Played' = Played + 1 /\ chosen' \in Seq([window : Nat, arm : Arms])
    BY EpisodeStep, ListsStep
  <2> QED
    BY <2>1, <2>2 DEF Played
<1>2. learned \in Seq([window : Nat, arm : Arms, reward : {0, 1}])
  BY DEF IInv, TypeOK
<1>3. CASE Played = 0
  <2>1. learned' = learned /\ Len(learned) = 0
    BY <1>1, <1>3, LearnedInRound DEF RoundDone, IInv, CreditDelayed
  <2>2. DOMAIN learned' = {}
    BY <1>2, <2>1
  <2> QED
    BY <1>1, <1>3, <2>1, <2>2 DEF CreditDelayed
<1>4. CASE Played > 0
  <2> DEFINE e == [window |-> chosen[Played].window, arm |-> chosen[Played].arm,
                   reward |-> One(graph.qos[Played] >= qos - Epsilon)]
  <2>1. learned' = Append(learned, e)
    BY <1>4, LearnedInRound DEF RoundDone
  <2>2. Len(learned) = Played - 1
    BY <1>1, <1>4 DEF IInv, CreditDelayed, Played
  <2>3. \A k \in 1 .. Played - 1 :
          learned[k] = [window |-> chosen[k].window, arm |-> chosen[k].arm,
                        reward |-> One(graph.qos[k] >= graph.qos[k + 1] - Epsilon)]
    BY <1>2, <2>2 DEF IInv, CreditDelayed
  <2>4. e \in [window : Nat, arm : Arms, reward : {0, 1}]
    <3>1. Played \in 1 .. Len(chosen) /\ chosen \in Seq([window : Nat, arm : Arms])
      BY <1>1, <1>4 DEF IInv, TypeOK, Played
    <3>2. chosen[Played] \in [window : Nat, arm : Arms]
      BY <3>1, EntryIn
    <3>3. chosen[Played].window \in Nat /\ chosen[Played].arm \in Arms
      BY <3>2
    <3>4. One(graph.qos[Played] >= qos - Epsilon) \in {0, 1}
      BY Unit
    <3> QED
      BY <3>3, <3>4
  <2> HIDE DEF e
  <2>5. /\ DOMAIN learned' = 1 .. Played /\ Len(learned') = Played
        /\ \A k \in 1 .. Played - 1 : learned'[k] = learned[k]
        /\ learned'[Played] = e
    <3>1. Played - 1 + 1 = Played
      BY <1>1
    <3> QED
      BY <1>2, <2>1, <2>2, <2>4, <3>1, Entries
  <2>6. ASSUME NEW k \in 1 .. Played
        PROVE  learned'[k] = [window |-> chosen'[k].window, arm |-> chosen'[k].arm,
                              reward |-> One(graph'.qos[k] >= graph'.qos[k + 1] - Epsilon)]
    <3>1. chosen'[k] = chosen[k] /\ graph'.qos[k] = graph.qos[k]
      BY ListsStep
    <3>2. CASE k = Played
      <4>1. graph'.qos[k + 1] = qos
        BY <3>2, ListsStep
      <4> QED
        BY <2>5, <3>1, <3>2, <4>1 DEF e
    <3>3. CASE k # Played
      <4>1. k \in 1 .. Played - 1 /\ k + 1 \in 1 .. Played
        BY <1>1, <3>3
      <4>2. graph'.qos[k + 1] = graph.qos[k + 1]
        BY <4>1, ListsStep
      <4> QED
        BY <2>3, <2>5, <3>1, <4>1, <4>2
    <3> QED
      BY <3>2, <3>3
  <2> QED
    BY <1>1, <1>4, <2>5, <2>6 DEF CreditDelayed
<1> QED
  BY <1>1, <1>3, <1>4
(* The rounds so far, before and after one more.                            *)
LEMMA RoundsAre ==
    ASSUME IInv, pc = "loop", CanRead, NEW over, NEW TP_bool \in BOOLEAN,
           NEW qos \in QoSValues, NEW arm \in Arms, RoundDone(over, TP_bool, qos, arm)
    PROVE  Rounds = 1 .. Played /\ Rounds' = 1 .. Played + 1
<1>1. graph.label \in Seq(BOOLEAN) /\ Len(graph.label) = Played
  BY DEF IInv, TypeOK, RoundInv
<1>2. graph'.label \in Seq(BOOLEAN) /\ Len(graph'.label) = Played + 1
  BY ListsStep
<1> QED
  BY <1>1, <1>2 DEF Rounds

(* The confusion matrix after a round.                                      *)
LEMMA MatrixStep ==
    ASSUME IInv, pc = "loop", CanRead, NEW over, NEW TP_bool \in BOOLEAN,
           NEW qos \in QoSValues, NEW arm \in Arms, RoundDone(over, TP_bool, qos, arm)
    PROVE  LET p == PredictsJam(arm)
               q == QosState(qos)
           IN  /\ conf'.P = conf.P + One(p)
               /\ conf'.N = conf.N + One(~p)
               /\ conf'.TP = conf.TP + One(p /\ TP_bool)
               /\ conf'.TN = conf.TN + One(~p /\ ~TP_bool)
               /\ conf'.TP_eval = conf.TP_eval + One(p /\ q)
               /\ conf'.TN_eval = conf.TN_eval + One(~p /\ ~q)
<1> DEFINE p == PredictsJam(arm)
           q == QosState(qos)
<1>1. conf \in [TP : Nat, TP_eval : Nat, P : Nat, TN : Nat, TN_eval : Nat, N : Nat]
  BY DEF IInv, TypeOK
<1>2. p \in BOOLEAN /\ q \in BOOLEAN /\ UpdateConf(p, TP_bool, q)
  BY QosStateIs DEF IInv, PredictsJam, RoundDone
<1> HIDE DEF p, q
<1>3. CASE p
  <2>1. conf' = [conf EXCEPT !.P = @ + 1, !.TP = @ + One(TP_bool), !.TP_eval = @ + One(q)]
    BY <1>2, <1>3 DEF UpdateConf
  <2>2. /\ conf'.P = conf.P + 1 /\ conf'.N = conf.N /\ conf'.TP = conf.TP + One(TP_bool)
        /\ conf'.TN = conf.TN /\ conf'.TP_eval = conf.TP_eval + One(q)
        /\ conf'.TN_eval = conf.TN_eval
    BY <1>1, <2>1
  <2> QED
    BY <1>1, <1>2, <1>3, <2>2 DEF One, p, q
<1>4. CASE ~p
  <2>1. conf' = [conf EXCEPT !.N = @ + 1, !.TN = @ + One(~TP_bool), !.TN_eval = @ + One(~q)]
    BY <1>2, <1>4 DEF UpdateConf
  <2>2. /\ conf'.P = conf.P /\ conf'.N = conf.N + 1 /\ conf'.TP = conf.TP
        /\ conf'.TN = conf.TN + One(~TP_bool) /\ conf'.TP_eval = conf.TP_eval
        /\ conf'.TN_eval = conf.TN_eval + One(~q)
    BY <1>1, <2>1
  <2> QED
    BY <1>1, <1>2, <1>4, <2>2 DEF One, p, q
<1> QED
  BY <1>3, <1>4

LEMMA CountStep ==
    ASSUME IInv, pc = "loop", CanRead, NEW over, NEW TP_bool \in BOOLEAN,
           NEW qos \in QoSValues, NEW arm \in Arms, RoundDone(over, TP_bool, qos, arm)
    PROVE  CountInv'
<1> DEFINE p == PredictsJam(arm)
           q == QosState(qos)
<1>1. p \in BOOLEAN /\ q \in BOOLEAN
  BY QosStateIs DEF IInv, PredictsJam
<1>2. /\ conf.P \in Nat /\ conf.N \in Nat /\ conf.TP \in Nat /\ conf.TN \in Nat
      /\ conf.TP_eval \in Nat /\ conf.TN_eval \in Nat
      /\ graph.rcl_label \in Nat /\ graph.rcl_eval \in Nat
  BY DEF IInv, TypeOK
<1>3. /\ conf'.P = conf.P + One(p) /\ conf'.N = conf.N + One(~p)
      /\ conf'.TP = conf.TP + One(p /\ TP_bool) /\ conf'.TN = conf.TN + One(~p /\ ~TP_bool)
      /\ conf'.TP_eval = conf.TP_eval + One(p /\ q)
      /\ conf'.TN_eval = conf.TN_eval + One(~p /\ ~q)
  BY MatrixStep
<1>4. Played \in Nat /\ Rounds = 1 .. Played /\ Rounds' = 1 .. Played + 1
  BY RoundStarts, RoundsAre
<1>5. /\ \A k \in 1 .. Played : /\ graph'.label[k] = graph.label[k]
                               /\ graph'.predicted[k] = graph.predicted[k]
                               /\ graph'.expected[k] = graph.expected[k]
      /\ graph'.label[Played + 1] = TP_bool /\ graph'.predicted[Played + 1] = p
      /\ graph'.expected[Played + 1] = q
  BY ListsStep
<1>6. /\ graph'.rcl_label = graph.rcl_label + One(conf'.TP + conf'.N - conf'.TN > 0)
      /\ graph'.rcl_eval = graph.rcl_eval + One(conf'.TP_eval + conf'.N - conf'.TN_eval > 0)
  BY DEF RoundDone
<1> HIDE DEF p, q
<1>7. /\ (\E k \in Rounds' : graph'.label[k]) <=> (\E k \in Rounds : graph.label[k]) \/ TP_bool
      /\ (\E k \in Rounds' : ~graph'.label[k]) <=> (\E k \in Rounds : ~graph.label[k]) \/ ~TP_bool
  BY <1>4, <1>5, SomeEntry
<1>8. (\E k \in Rounds' : graph'.predicted[k]) <=> (\E k \in Rounds : graph.predicted[k]) \/ p
  BY <1>1, <1>4, <1>5, SomeEntry
<1>9. (\E k \in Rounds' : graph'.expected[k]) <=> (\E k \in Rounds : graph.expected[k]) \/ q
  BY <1>1, <1>4, <1>5, SomeEntry
<1>10. /\ conf.TP <= conf.P /\ conf.TN <= conf.N /\ conf.TN_eval <= conf.N
       /\ conf.P > 0 <=> \E k \in Rounds : graph.predicted[k]
       /\ conf.TN + (conf.P - conf.TP) > 0 <=> \E k \in Rounds : ~graph.label[k]
       /\ conf.TP + (conf.N - conf.TN) > 0 <=> \E k \in Rounds : graph.label[k]
       /\ conf.TP_eval + (conf.N - conf.TN_eval) > 0 <=> \E k \in Rounds : graph.expected[k]
       /\ graph.rcl_label > 0 <=> conf.TP + (conf.N - conf.TN) > 0
       /\ graph.rcl_eval > 0 <=> conf.TP_eval + (conf.N - conf.TN_eval) > 0
  BY DEF IInv, CountInv
<1>11. /\ conf'.TP <= conf'.P /\ conf'.TN <= conf'.N /\ conf'.TN_eval <= conf'.N
       /\ conf'.P > 0 <=> conf.P > 0 \/ p
       /\ conf'.TN + (conf'.P - conf'.TP) = conf.TN + (conf.P - conf.TP) + One(~TP_bool)
       /\ conf'.TP + (conf'.N - conf'.TN) = conf.TP + (conf.N - conf.TN) + One(TP_bool)
       /\ conf'.TP_eval + (conf'.N - conf'.TN_eval)
              = conf.TP_eval + (conf.N - conf.TN_eval) + One(q)
  BY <1>1, <1>2, <1>3, <1>10 DEF One
<1>12. /\ conf'.TN + (conf'.P - conf'.TP) > 0 <=> conf.TN + (conf.P - conf.TP) > 0 \/ ~TP_bool
       /\ conf'.TP + (conf'.N - conf'.TN) > 0 <=> conf.TP + (conf.N - conf.TN) > 0 \/ TP_bool
       /\ conf'.TP_eval + (conf'.N - conf'.TN_eval) > 0
              <=> conf.TP_eval + (conf.N - conf.TN_eval) > 0 \/ q
  <2>1. /\ conf.TN + (conf.P - conf.TP) \in Nat /\ conf.TP + (conf.N - conf.TN) \in Nat
        /\ conf.TP_eval + (conf.N - conf.TN_eval) \in Nat
    BY <1>2, <1>10
  <2>2. conf'.TN + (conf'.P - conf'.TP) > 0 <=> conf.TN + (conf.P - conf.TP) > 0 \/ ~TP_bool
    BY <1>11, <2>1 DEF One
  <2>3. conf'.TP + (conf'.N - conf'.TN) > 0 <=> conf.TP + (conf.N - conf.TN) > 0 \/ TP_bool
    BY <1>11, <2>1 DEF One
  <2>4. conf'.TP_eval + (conf'.N - conf'.TN_eval) > 0
           <=> conf.TP_eval + (conf.N - conf.TN_eval) > 0 \/ q
    BY <1>1, <1>11, <2>1 DEF One
  <2> QED
    BY <2>2, <2>3, <2>4
<1>13. /\ graph'.rcl_label > 0 <=> conf'.TP + (conf'.N - conf'.TN) > 0
       /\ graph'.rcl_eval > 0 <=> conf'.TP_eval + (conf'.N - conf'.TN_eval) > 0
  <2>1. /\ conf'.TP + conf'.N - conf'.TN = conf'.TP + (conf'.N - conf'.TN)
        /\ conf'.TP_eval + conf'.N - conf'.TN_eval = conf'.TP_eval + (conf'.N - conf'.TN_eval)
    BY <1>2, <1>3, Unit
  <2>2. /\ graph'.rcl_label > 0 <=> graph.rcl_label > 0 \/ conf'.TP + (conf'.N - conf'.TN) > 0
        /\ graph'.rcl_eval > 0
              <=> graph.rcl_eval > 0 \/ conf'.TP_eval + (conf'.N - conf'.TN_eval) > 0
    BY <1>2, <1>6, <2>1 DEF One
  <2> QED
    BY <1>10, <1>12, <2>2
<1> QED
  BY <1>7, <1>8, <1>9, <1>10, <1>11, <1>12, <1>13 DEF CountInv

LEMMA ConfusionStep ==
    ASSUME IInv, pc = "loop", CanRead, NEW over, NEW TP_bool \in BOOLEAN,
           NEW qos \in QoSValues, NEW arm \in Arms, RoundDone(over, TP_bool, qos, arm)
    PROVE  ConfusionExact'
<1>1. Played \in Nat /\ PredictsJam(arm) \in BOOLEAN /\ QosState(qos) \in BOOLEAN
  BY RoundStarts, QosStateIs DEF IInv, PredictsJam
<1> DEFINE m == Played + 1
           before == graph.predicted
           after == graph'.predicted
           p == after[m]
<1>2. Rounds = 1 .. Played /\ Rounds' = 1 .. m
  BY RoundsAre
<1>3. /\ \A k \in 1 .. Played : after[k] = before[k] /\ graph'.label[k] = graph.label[k]
      /\ \A k \in 1 .. Played : after[k] = before[k] /\ graph'.expected[k] = graph.expected[k]
      /\ p = PredictsJam(arm) /\ p \in BOOLEAN
      /\ graph'.label[m] = TP_bool /\ graph'.expected[m] = QosState(qos)
  BY <1>1, ListsStep
<1>4. /\ p => conf'.P = conf.P + 1 /\ conf'.N = conf.N
      /\ ~p => conf'.P = conf.P /\ conf'.N = conf.N + 1
      /\ p /\ graph'.label[m] => conf'.TP = conf.TP + 1
      /\ ~(p /\ graph'.label[m]) => conf'.TP = conf.TP
      /\ ~p /\ ~graph'.label[m] => conf'.TN = conf.TN + 1
      /\ ~(~p /\ ~graph'.label[m]) => conf'.TN = conf.TN
      /\ p /\ graph'.expected[m] => conf'.TP_eval = conf.TP_eval + 1
      /\ ~(p /\ graph'.expected[m]) => conf'.TP_eval = conf.TP_eval
      /\ ~p /\ ~graph'.expected[m] => conf'.TN_eval = conf.TN_eval + 1
      /\ ~(~p /\ ~graph'.expected[m]) => conf'.TN_eval = conf.TN_eval
  <2>1. /\ conf.P \in Nat /\ conf.N \in Nat /\ conf.TP \in Nat /\ conf.TN \in Nat
        /\ conf.TP_eval \in Nat /\ conf.TN_eval \in Nat
    BY DEF IInv, TypeOK
  <2> QED
    BY <1>1, <1>3, <2>1, MatrixStep DEF One
<1>5. \A k \in 1 .. Played : after[k] = before[k] /\ graph'.label[k] = graph.label[k]
  BY <1>3
<1>6. \A k \in 1 .. Played : after[k] = before[k] /\ graph'.expected[k] = graph.expected[k]
  BY <1>3
<1>7. Played \in Nat /\ m = Played + 1
  BY <1>1 DEF m
<1> PICK yes, no : yes = TRUE /\ no = FALSE
  OBVIOUS
<1>8. /\ conf.P = Cardinality(Tallied(Played, before, yes))
      /\ conf.N = Cardinality(Tallied(Played, before, no))
      /\ conf.TP = Cardinality(Hits(Played, before, yes, graph.label))
      /\ conf.TN = Cardinality(Misses(Played, before, no, graph.label))
      /\ conf.TP_eval = Cardinality(Hits(Played, before, yes, graph.expected))
      /\ conf.TN_eval = Cardinality(Misses(Played, before, no, graph.expected))
  BY <1>2 DEF IInv, ConfusionExact, Tallied, Hits, Misses
<1> HIDE DEF m, before, after
<1>9. /\ Grow(Played, m, before, after, yes, graph.label, graph'.label)
      /\ Grow(Played, m, before, after, no, graph.label, graph'.label)
  BY <1>5, <1>7, TallyBoth
<1>10. /\ Grow(Played, m, before, after, yes, graph.expected, graph'.expected)
       /\ Grow(Played, m, before, after, no, graph.expected, graph'.expected)
  BY <1>6, <1>7, TallyBoth
<1>11. /\ after[m] = yes <=> p
       /\ after[m] = no <=> ~p
  BY <1>3
<1>12. conf'.P = Cardinality(Tallied(m, after, yes)) /\ conf'.N = Cardinality(Tallied(m, after, no))
  BY <1>4, <1>8, <1>9, <1>11 DEF Grow
<1>13. conf'.TP = Cardinality(Hits(m, after, yes, graph'.label))
  BY <1>4, <1>8, <1>9, <1>11 DEF Grow
<1>14. conf'.TN = Cardinality(Misses(m, after, no, graph'.label))
  BY <1>4, <1>8, <1>9, <1>11 DEF Grow
<1>15. conf'.TP_eval = Cardinality(Hits(m, after, yes, graph'.expected))
  BY <1>4, <1>8, <1>10, <1>11 DEF Grow
<1>16. conf'.TN_eval = Cardinality(Misses(m, after, no, graph'.expected))
  BY <1>4, <1>8, <1>10, <1>11 DEF Grow
<1> QED
  BY <1>2, <1>12, <1>13, <1>14, <1>15, <1>16 DEF ConfusionExact, Tallied, Hits, Misses, after

LEMMA RoundStep ==
    ASSUME IInv, NEW over \in BOOLEAN, NEW TP_bool \in BOOLEAN, NEW qos \in QoSValues,
           NEW arm \in Arms, Round(over, TP_bool, qos, arm)
    PROVE  IInv'
<1>1. pc = "loop" /\ CanRead /\ RoundDone(over, TP_bool, qos, arm)
  BY RoundDoes
<1>2. SendsUnlessOneSided'
  BY <1>1 DEF RoundDone, SendsUnlessOneSided
<1>3. EpisodeInv'
  BY <1>1, EpisodeStep
<1> QED
  BY <1>1, <1>2, <1>3, TypeStep, RoundInvStep, WindowStep, CreditStep, CountStep,
     ConfusionStep DEF IInv
-------------------------------------------------------------------------------
(* The other steps.                                                         *)

(* A step that leaves the lists alone keeps every part about them.          *)
LEMMA Kept ==
    ASSUME IInv, UNCHANGED <<mode, learned, proc, conf, graph, chosen>>
    PROVE  /\ RoundInv' /\ CreditDelayed' /\ CountInv' /\ ConfusionExact'
           /\ Played' = Played /\ First' = First /\ Live' = Live /\ Pretrained' = Pretrained
<1>1. Played' = Played /\ First' = First /\ Live' = Live /\ Pretrained' = Pretrained
  BY DEF Played, First, Live, Pretrained
<1>2. RoundInv'
  BY <1>1 DEF IInv, RoundInv
<1>3. CreditDelayed'
  BY <1>1 DEF IInv, CreditDelayed
<1>4. CountInv'
  BY DEF IInv, CountInv, Rounds
<1>5. ConfusionExact'
  BY DEF IInv, ConfusionExact, Rounds
<1> QED
  BY <1>1, <1>2, <1>3, <1>4, <1>5

LEMMA InitIInv == Init => IInv
<1> SUFFICES ASSUME Init
             PROVE  IInv
  OBVIOUS
<1>1. mode \in Mode
  BY JamAgentAssumption DEF Init
<1>2. /\ learned = <<>> /\ chosen = <<>> /\ contexts = <<>> /\ pc = "start" /\ i = 0
      /\ done = FALSE /\ Played = 0
      /\ graph = [label |-> <<>>, predicted |-> <<>>, expected |-> <<>>,
                  qos |-> <<>>, rcl_label |-> 0, rcl_eval |-> 0]
      /\ conf = [TP |-> 0, TP_eval |-> 0, P |-> 0, TN |-> 0, TN_eval |-> 0, N |-> 0]
  BY DEF Init, Played
<1>3. TypeOK
  <2>1. round \in Nat
    <3>1. Cardinality(Arms) \in Nat
      <4>1. Arms = {0} \union {1}
        BY DEF Arms
      <4>2. IsFiniteSet({0}) /\ IsFiniteSet({1})
        BY FS_Singleton
      <4>3. IsFiniteSet({0} \union {1})
        BY <4>2, FS_Union
      <4> QED
        BY <4>1, <4>3, FS_CardinalityType
    <3> QED
      BY <3>1 DEF Init
  <2>2. proc \in [current_QOS : QoSValues \union {NoQoS},
                  previous_QOS : QoSValues \union {NoQoS},
                  previous_pred : {NoPred, "0", "1"}, reward : Nat, nb_instances : Nat,
                  previous_cls : Arms \union {NoCls}, previous_context : Nat]
    BY DEF Init
  <2>3. i \in 0 .. Windows
    BY <1>2, JamAgentAssumption
  <2>4. graph \in [label : Seq(BOOLEAN), predicted : Seq(BOOLEAN), expected : Seq(BOOLEAN),
                   qos : Seq(QoSValues), rcl_label : Nat, rcl_eval : Nat]
    <3>1. <<>> \in Seq(BOOLEAN) /\ <<>> \in Seq(QoSValues)
      OBVIOUS
    <3> QED
      BY <1>2, <3>1
  <2>5. conf \in [TP : Nat, TP_eval : Nat, P : Nat, TN : Nat, TN_eval : Nat, N : Nat]
    BY <1>2
  <2>6. /\ learned \in Seq([window : Nat, arm : Arms, reward : {0, 1}])
        /\ chosen \in Seq([window : Nat, arm : Arms]) /\ contexts \in Seq(Nat)
    BY <1>2
  <2> QED
    BY <1>1, <1>2, <2>1, <2>2, <2>3, <2>4, <2>5, <2>6 DEF TypeOK
<1>4. Rounds = {}
  BY <1>2 DEF Rounds
<1>5. EpisodeInv
  BY <1>2, JamAgentAssumption DEF EpisodeInv
<1>6. RoundInv
  BY <1>2 DEF RoundInv, Init
<1>7. WindowInv
  BY <1>2 DEF WindowInv
<1>8. CreditDelayed
  BY <1>2 DEF CreditDelayed
<1>9. CountInv
  BY <1>2, <1>4 DEF CountInv
<1>10. ConfusionExact
  BY <1>2, <1>4, FS_EmptySet DEF ConfusionExact
<1>11. SendsUnlessOneSided
  BY <1>2 DEF SendsUnlessOneSided
<1> QED
  BY <1>3, <1>5, <1>6, <1>7, <1>8, <1>9, <1>10, <1>11 DEF IInv

LEMMA InitExecuteStep ==
    ASSUME IInv, NEW over \in BOOLEAN, InitExecute(over)
    PROVE  IInv'
<1>1. /\ pc = "start" /\ i' = i + 1 /\ done' = over /\ (Live /\ ~over => i + 1 < Windows)
      /\ contexts' = (IF Pretrained THEN <<>> ELSE <<i>>)
      /\ pc' = (IF mode.algo = "lints" THEN "crashed" ELSE "loop")
      /\ UNCHANGED <<mode, round, learned, proc, conf, graph, chosen>>
  BY DEF InitExecute, Read
<1>2. /\ RoundInv' /\ CreditDelayed' /\ CountInv' /\ ConfusionExact'
      /\ Played' = Played /\ First' = First /\ Live' = Live /\ Pretrained' = Pretrained
  BY <1>1, Kept
<1>3. i = 0 /\ Played = 0
  BY <1>1 DEF IInv, EpisodeInv
<1>4. chosen \in Seq([window : Nat, arm : Arms]) /\ DOMAIN chosen = {}
  <2>1. chosen \in Seq([window : Nat, arm : Arms])
    BY DEF IInv, TypeOK
  <2> QED
    BY <1>3, <2>1 DEF Played
<1>5. contexts' \in Seq(Nat)
  BY <1>1, <1>3
<1>6. TypeOK'
  <2>1. i' \in 0 .. Windows
    BY <1>1, <1>3, JamAgentAssumption
  <2> QED
    BY <1>1, <1>5, <2>1 DEF IInv, TypeOK
<1>7. EpisodeInv'
  BY <1>1, <1>2, <1>3, JamAgentAssumption DEF EpisodeInv
<1>8. WindowInv'
  <2>1. CASE Pretrained
    BY <1>1, <1>2, <1>3, <1>4, <2>1 DEF WindowInv, First
  <2>2. CASE ~Pretrained
    BY <1>1, <1>2, <1>3, <1>4, <2>2 DEF WindowInv, First
  <2> QED
    BY <2>1, <2>2
<1>9. SendsUnlessOneSided'
  <2>1. Rounds' = {}
    <3>1. graph.label \in Seq(BOOLEAN) /\ Len(graph.label) = 0
      BY <1>3 DEF IInv, TypeOK, RoundInv
    <3> QED
      BY <1>1, <3>1 DEF Rounds
  <2> QED
    BY <1>1, <2>1 DEF SendsUnlessOneSided
<1> QED
  BY <1>2, <1>6, <1>7, <1>8, <1>9 DEF IInv

LEMMA ReadFailsStep ==
    ASSUME IInv, ReadFails
    PROVE  IInv'
<1>1. /\ pc = "loop" /\ ~CanRead /\ pc' = "crashed"
      /\ UNCHANGED <<mode, i, done, contexts, round, learned, proc, conf, graph, chosen>>
  BY DEF ReadFails
<1>2. /\ RoundInv' /\ CreditDelayed' /\ CountInv' /\ ConfusionExact'
      /\ Played' = Played /\ First' = First /\ Live' = Live /\ Pretrained' = Pretrained
  BY <1>1, Kept
<1>3. TypeOK' /\ WindowInv'
  BY <1>1, <1>2 DEF IInv, TypeOK, WindowInv
<1>4. EpisodeInv'
  BY <1>1, <1>2 DEF IInv, EpisodeInv
<1>5. Played \in Nat /\ Played <= 1
  <2>1. Played \in Nat /\ i \in 0 .. Windows /\ Windows \in Nat
    BY JamAgentAssumption DEF IInv, TypeOK, Played
  <2> QED
    BY <1>1, <2>1 DEF IInv, EpisodeInv, CanRead
<1>6. SendsUnlessOneSided'
  <2>1. graph.label \in Seq(BOOLEAN) /\ Len(graph.label) = Played
    BY DEF IInv, TypeOK, RoundInv
  <2>2. Rounds' = Rounds /\ Rounds \subseteq {1}
    BY <1>1, <1>5, <2>1 DEF Rounds
  <2>3. ~(/\ \E k \in Rounds' : graph'.label[k]
          /\ \E k \in Rounds' : ~graph'.label[k])
    BY <2>2
  <2> QED
    BY <1>1, <2>3 DEF SendsUnlessOneSided
<1> QED
  BY <1>2, <1>3, <1>4, <1>6 DEF IInv

LEMMA ResultsStep ==
    ASSUME IInv, Results
    PROVE  IInv'
<1>1. /\ pc = "results" /\ pc' = (IF Computable THEN "sent" ELSE "crashed")
      /\ UNCHANGED <<mode, i, done, contexts, round, learned, proc, conf, graph, chosen>>
  BY DEF Results
<1>2. /\ RoundInv' /\ CreditDelayed' /\ CountInv' /\ ConfusionExact'
      /\ Played' = Played /\ First' = First /\ Live' = Live /\ Pretrained' = Pretrained
  BY <1>1, Kept
<1>3. TypeOK' /\ WindowInv'
  BY <1>1, <1>2 DEF IInv, TypeOK, WindowInv
<1>4. EpisodeInv'
  BY <1>1, <1>2 DEF IInv, EpisodeInv
<1>5. Computable <=> /\ \E k \in Rounds : graph.label[k]
                     /\ \E k \in Rounds : ~graph.label[k]
                     /\ \E k \in Rounds : graph.predicted[k]
                     /\ Live => \E k \in Rounds : graph.expected[k]
  <2>1. /\ conf.P \in Nat /\ conf.N \in Nat /\ conf.TP \in Nat /\ conf.TN \in Nat
        /\ conf.TP <= conf.P
    BY DEF IInv, TypeOK, CountInv
  <2>2. /\ conf.TN + (conf.P - conf.TP) # 0 <=> conf.TN + (conf.P - conf.TP) > 0
        /\ conf.TP + (conf.P - conf.TP) # 0 <=> conf.P > 0
    BY <2>1
  <2> QED
    BY <2>2 DEF IInv, CountInv, Computable
<1>6. SendsUnlessOneSided'
  <2>1. Rounds' = Rounds
    BY <1>1 DEF Rounds
  <2> QED
    BY <1>1, <1>2, <1>5, <2>1 DEF SendsUnlessOneSided
<1> QED
  BY <1>2, <1>3, <1>4, <1>6 DEF IInv

LEMMA StutterIInv ==
    ASSUME IInv, UNCHANGED vars
    PROVE  IInv'
<1>1. /\ RoundInv' /\ CreditDelayed' /\ CountInv' /\ ConfusionExact'
      /\ Played' = Played /\ First' = First /\ Live' = Live /\ Pretrained' = Pretrained
  BY Kept DEF vars
<1>2. TypeOK' /\ WindowInv' /\ EpisodeInv'
  BY <1>1 DEF vars, IInv, TypeOK, WindowInv, EpisodeInv
<1>3. SendsUnlessOneSided'
  BY <1>1 DEF vars, IInv, SendsUnlessOneSided, Rounds
<1> QED
  BY <1>1, <1>2, <1>3 DEF IInv

LEMMA NextIInv == IInv /\ [Next]_vars => IInv'
<1> SUFFICES ASSUME IInv, [Next]_vars
             PROVE  IInv'
  OBVIOUS
<1>1. CASE \E over \in BOOLEAN : InitExecute(over)
  BY <1>1, InitExecuteStep
<1>2. CASE ReadFails
  BY <1>2, ReadFailsStep
<1>3. CASE \E over, TP_bool \in BOOLEAN, qos \in QoSValues, arm \in Arms :
              Round(over, TP_bool, qos, arm)
  BY <1>3, RoundStep
<1>4. CASE Results
  BY <1>4, ResultsStep
<1>5. CASE Terminating
  BY <1>5, StutterIInv DEF Terminating
<1>6. CASE UNCHANGED vars
  BY <1>6, StutterIInv
<1> QED
  BY <1>1, <1>2, <1>3, <1>4, <1>5, <1>6 DEF Next
-------------------------------------------------------------------------------
(* The inductive invariant of an agent: its lists grow together with its    *)
(* matrix, and learning is one round behind choosing on a live run.         *)
THEOREM Invariance == Spec => []IInv
  BY InitIInv, NextIInv, PTL DEF Spec

(* An agent keeps the types of its bookkeeping, however long its episode.   *)
THEOREM TypeCorrect == Spec => []TypeOK
<1>1. IInv => TypeOK
  BY DEF IInv
<1> QED
  BY <1>1, Invariance, PTL

(* A fresh agent decides one window late in every round: the contexts of    *)
(* its model begin with the window init_execute read.                       *)
FreshDecidesOneLate == ~Pretrained => \A k \in DOMAIN chosen : chosen[k].window = k - 1

(* Which window round k decides on: an agent with a model of the            *)
(* pretraining on window k, a fresh one on the window before, always.       *)
THEOREM DecisionsOnTime == Spec => [](DecidesOnItsWindow /\ FreshDecidesOneLate)
<1>1. ASSUME IInv, NEW k \in DOMAIN chosen
      PROVE  chosen[k].window = IF Pretrained THEN k ELSE k - 1
  <2>1. chosen \in Seq([window : Nat, arm : Arms])
    BY <1>1 DEF IInv, TypeOK
  <2>2. k \in Nat /\ chosen[k].window = k - First
    BY <1>1, <2>1 DEF IInv, WindowInv
  <2> QED
    BY <2>2 DEF First
<1>2. IInv => DecidesOnItsWindow /\ FreshDecidesOneLate
  BY <1>1 DEF DecidesOnItsWindow, FreshDecidesOneLate
<1> QED
  BY <1>2, Invariance, PTL

(* A live decision is rewarded one round later, exactly once, in order, by  *)
(* what the QoS did between its round and the next.                         *)
THEOREM CreditOneRoundLate == Spec => []CreditDelayed
<1>1. IInv => CreditDelayed
  BY DEF IInv
<1> QED
  BY <1>1, Invariance, PTL

(* The accuracy an agent reports is below one.                              *)
THEOREM AccuracyBounded == Spec => []AccuracyBelowOne
<1>1. IInv => AccuracyBelowOne
  <2> SUFFICES ASSUME IInv, Rounds # {}
               PROVE  proc.reward < proc.nb_instances
    BY DEF AccuracyBelowOne
  <2>1. graph.label \in Seq(BOOLEAN) /\ Len(graph.label) = Played
    BY DEF IInv, TypeOK, RoundInv
  <2>2. Played > 0
    BY <2>1 DEF Rounds
  <2> QED
    BY <2>2 DEF IInv, RoundInv
<1> QED
  BY <1>1, Invariance, PTL

(* The confusion matrix counts the lists the report is drawn from, however  *)
(* long the episode.                                                        *)
THEOREM MatrixExact == Spec => []ConfusionExact
<1>1. IInv => ConfusionExact
  BY DEF IInv
<1> QED
  BY <1>1, Invariance, PTL

(* An agent sends a report exactly when no side of its episode is empty.    *)
THEOREM SendingCorrect == Spec => []SendsUnlessOneSided
<1>1. IInv => SendsUnlessOneSided
  BY DEF IInv
<1> QED
  BY <1>1, Invariance, PTL
-------------------------------------------------------------------------------
(* The first decisions of a fresh UCB1.                                     *)

PullsAre(m, n) == Pulls(0) = m /\ Pulls(1) = n

UcbInv ==
    mode.algo = "ucb1" /\ ~Pretrained =>
        /\ round = Played
        /\ Played >= 1 => chosen[1].arm = 0
        /\ Live /\ Played >= 3 => chosen[3].arm = 1
        /\ ~Live => /\ Played = 0 => PullsAre(0, 0)
                    /\ Played = 1 => PullsAre(1, 0)
                    /\ Played = 2 => PullsAre(1, 1)
                    /\ Played = 3 => PullsAre(2, 1) \/ PullsAre(1, 2)
                    /\ Played = 4 => PullsAre(2, 2)

(* The updates among the first n of s that are for an arm, and those of     *)
(* them that earned a reward.                                               *)
PulledIn(n, s, a) == {k \in 1 .. n : s[k].arm = a}
WonIn(n, s, a) == {k \in 1 .. n : s[k].arm = a /\ s[k].reward = 1}

Update == [window : Nat, arm : Arms, reward : {0, 1}]

(* An arm never earned more rewards than it was pulled.                     *)
LEMMA PullsBound ==
    ASSUME learned \in Seq(Update), NEW a
    PROVE  /\ Pulls(a) = Cardinality(PulledIn(Len(learned), learned, a))
           /\ Pulls(a) \in Nat /\ Wins(a) \in Nat /\ Wins(a) <= Pulls(a)
<1>1. Len(learned) \in Nat /\ DOMAIN learned = 1 .. Len(learned)
  OBVIOUS
<1> DEFINE P == PulledIn(Len(learned), learned, a)
           W == WonIn(Len(learned), learned, a)
<1>2. P \subseteq 1 .. Len(learned) /\ W \subseteq P
  BY DEF PulledIn, WonIn
<1>3. Pulls(a) = Cardinality(P) /\ Wins(a) = Cardinality(W)
  BY <1>1 DEF Pulls, Wins, PulledIn, WonIn
<1>4. IsFiniteSet(1 .. Len(learned))
  BY <1>1, FS_Interval
<1> HIDE DEF P, W
<1>5. IsFiniteSet(P) /\ IsFiniteSet(W) /\ Cardinality(W) <= Cardinality(P)
  BY <1>2, <1>4, FS_Subset
<1>6. Cardinality(P) \in Nat /\ Cardinality(W) \in Nat
  BY <1>5, FS_CardinalityType
<1> QED
  BY <1>3, <1>5, <1>6 DEF P

(* One more update is one more pull of its arm and none of the other.       *)
LEMMA PullStep ==
    ASSUME learned \in Seq(Update), NEW e \in Update, learned' = Append(learned, e), NEW a
    PROVE  /\ e.arm = a => Pulls(a)' = Pulls(a) + 1
           /\ e.arm # a => Pulls(a)' = Pulls(a)
<1> PICK n \in Nat : n = Len(learned)
  OBVIOUS
<1>1. /\ learned' \in Seq(Update) /\ Len(learned') = n + 1 /\ learned'[n + 1] = e
      /\ \A k \in 1 .. n : learned'[k] = learned[k]
  BY Entries
<1>2. DOMAIN learned' = 1 .. n + 1
  BY <1>1
<1>3. Pulls(a)' = Cardinality(PulledIn(n + 1, learned', a))
  BY <1>2 DEF Pulls, PulledIn
<1>4. Pulls(a) = Cardinality(PulledIn(n, learned, a)) /\ Pulls(a) \in Nat
  BY PullsBound
<1>5. PulledIn(n, learned, a) \in SUBSET (1 .. n)
  BY DEF PulledIn
<1>6. Cardinality(PulledIn(n, learned, a) \union {n + 1}) = Pulls(a) + 1
  BY <1>4, <1>5, Tally
<1>7. \A k \in 1 .. n + 1 : k \in 1 .. n \/ k = n + 1
  OBVIOUS
<1>8. 1 .. n \subseteq 1 .. n + 1 /\ n + 1 \in 1 .. n + 1
  OBVIOUS
<1>9. e.arm = a => PulledIn(n + 1, learned', a) = PulledIn(n, learned, a) \union {n + 1}
  BY <1>1, <1>7, <1>8 DEF PulledIn
<1>10. e.arm # a => PulledIn(n + 1, learned', a) = PulledIn(n, learned, a)
  BY <1>1, <1>7, <1>8 DEF PulledIn
<1> QED
  BY <1>3, <1>4, <1>6, <1>9, <1>10

(* The arm UCB1 takes is the first one unless the other scores more.        *)
LEMMA UcbArmIs ==
    ASSUME NEW x \in Int, NEW y \in Int, Weight(0) * Pulls(1) = x, Weight(1) * Pulls(0) = y,
           Weight(0) * Pulls(0) \in Int, Weight(1) * Pulls(1) \in Int
    PROVE  (x >= y => UcbArm = 0) /\ (x < y => UcbArm = 1)
<1> DEFINE Best(a) == \A b \in Arms : /\ Weight(a) * Pulls(b) >= Weight(b) * Pulls(a)
                                      /\ b < a => Weight(a) * Pulls(b) > Weight(b) * Pulls(a)
<1>1. Best(0) <=> x >= y
  BY DEF Arms
<1>2. Best(1) <=> y > x
  BY DEF Arms
<1>3. UcbArm = CHOOSE a \in Arms : Best(a)
  BY DEF UcbArm
<1> HIDE DEF Best
<1>4. ASSUME x >= y
      PROVE  UcbArm = 0
  <2>1. \A a \in Arms : Best(a) <=> a = 0
    BY <1>1, <1>2, <1>4 DEF Arms
  <2> QED
    BY <1>3, <2>1 DEF Arms
<1>5. ASSUME x < y
      PROVE  UcbArm = 1
  <2>1. \A a \in Arms : Best(a) <=> a = 1
    BY <1>1, <1>2, <1>5 DEF Arms
  <2> QED
    BY <1>3, <2>1 DEF Arms
<1> QED
  BY <1>4, <1>5

LEMMA TwoArms == Cardinality(Arms) = 2
<1>1. IsFiniteSet({0}) /\ Cardinality({0}) = 1
  BY FS_Singleton
<1>2. Cardinality({0} \union {1}) = 2
  BY <1>1, FS_AddElement
<1> QED
  BY <1>2 DEF Arms

(* On a dataset, what an arm that was pulled once more often is worth.      *)
LEMMA Balance ==
    ASSUME learned \in Seq(Update), round = 3, NEW a \in Arms, NEW b \in Arms,
           Pulls(a) = 2, Pulls(b) = 1
    PROVE  Weight(a) * Pulls(b) < Weight(b) * Pulls(a)
<1>1. Wins(a) \in Nat /\ Wins(a) <= 2 /\ Wins(b) \in Nat
  BY PullsBound
<1>2. Weight(a) = 1000 * Wins(a) + 2197 /\ Weight(b) = 1000 * Wins(b) + 2197
  BY DEF Weight, TwoLog
<1>3. Weight(a) \in Int /\ Weight(a) <= 4197 /\ Weight(b) \in Int /\ Weight(b) >= 2197
  BY <1>1, <1>2
<1> QED
  BY <1>3

(* The arm of the third round of a live run: nothing was learned of arm 1.  *)
LEMMA ThirdLive ==
    ASSUME IInv, UcbInv, mode.algo = "ucb1", ~Pretrained, Live, Played = 2
    PROVE  UcbArm = 1
<1>1. learned \in Seq(Update) /\ Len(learned) = 1 /\ learned[1].arm = chosen[1].arm
  <2>1. learned \in Seq(Update) /\ chosen \in Seq([window : Nat, arm : Arms])
    BY DEF IInv, TypeOK, Update
  <2>2. Len(learned) = 1
    <3>1. Len(chosen) = 2
      BY DEF Played
    <3>2. chosen # <<>>
      BY <3>1
    <3> QED
      BY <3>1, <3>2 DEF IInv, CreditDelayed
  <2>3. 1 \in DOMAIN learned
    BY <2>1, <2>2
  <2> QED
    BY <2>1, <2>2, <2>3 DEF IInv, CreditDelayed
<1>2. chosen[1].arm = 0 /\ round = 2
  BY DEF UcbInv
<1>3. PulledIn(1, learned, 0) = {1} /\ PulledIn(1, learned, 1) = {}
  BY <1>1, <1>2 DEF PulledIn
<1>4. Cardinality({1}) = 1 /\ Cardinality({}) = 0
  BY FS_Singleton, FS_EmptySet
<1>5. Pulls(0) = 1 /\ Pulls(1) = 0
  <2>1. 0 \in Arms /\ 1 \in Arms
    BY DEF Arms
  <2>2. /\ Pulls(0) = Cardinality(PulledIn(Len(learned), learned, 0))
        /\ Pulls(1) = Cardinality(PulledIn(Len(learned), learned, 1))
    BY <1>1, <2>1, PullsBound
  <2> QED
    BY <1>1, <1>3, <1>4, <2>2
<1>6. Wins(0) \in Nat /\ Wins(1) \in Nat
  BY <1>1, PullsBound
<1>7. Weight(0) \in Int /\ Weight(1) \in Int /\ Weight(1) > 0
  BY <1>2, <1>6 DEF Weight, TwoLog
<1>8. /\ Weight(0) * Pulls(1) = 0 /\ Weight(1) * Pulls(0) = Weight(1)
      /\ Weight(0) * Pulls(0) \in Int /\ Weight(1) * Pulls(1) \in Int
  BY <1>5, <1>7
<1> QED
  BY <1>7, <1>8, UcbArmIs

(* The arm of the fourth round of a dataset: the one pulled once.           *)
LEMMA FourthRecorded ==
    ASSUME learned \in Seq(Update), round = 3
    PROVE  (PullsAre(2, 1) => UcbArm = 1) /\ (PullsAre(1, 2) => UcbArm = 0)
<1>1. Wins(0) \in Nat /\ Wins(1) \in Nat
  BY PullsBound
<1>2. Weight(0) = 1000 * Wins(0) + 2197 /\ Weight(1) = 1000 * Wins(1) + 2197
  BY DEF Weight, TwoLog
<1>3. Weight(0) \in Int /\ Weight(1) \in Int
  BY <1>1, <1>2
<1>4. 0 \in Arms /\ 1 \in Arms
  BY DEF Arms
<1>5. ASSUME PullsAre(2, 1)
      PROVE  UcbArm = 1
  <2>1. Pulls(0) = 2 /\ Pulls(1) = 1
    BY <1>5 DEF PullsAre
  <2>2. Weight(0) * Pulls(1) < Weight(1) * Pulls(0)
    BY <1>4, <2>1, Balance
  <2>3. /\ Weight(0) * Pulls(1) \in Int /\ Weight(1) * Pulls(0) \in Int
        /\ Weight(0) * Pulls(0) \in Int /\ Weight(1) * Pulls(1) \in Int
    BY <1>3, <2>1
  <2> QED
    BY <2>2, <2>3, UcbArmIs
<1>6. ASSUME PullsAre(1, 2)
      PROVE  UcbArm = 0
  <2>1. Pulls(0) = 1 /\ Pulls(1) = 2
    BY <1>6 DEF PullsAre
  <2>2. Weight(1) * Pulls(0) < Weight(0) * Pulls(1)
    BY <1>4, <2>1, Balance
  <2>3. /\ Weight(0) * Pulls(1) \in Int /\ Weight(1) * Pulls(0) \in Int
        /\ Weight(0) * Pulls(0) \in Int /\ Weight(1) * Pulls(1) \in Int
    BY <1>3, <2>1
  <2>4. Weight(0) * Pulls(1) >= Weight(1) * Pulls(0)
    BY <2>2, <2>3
  <2> QED
    BY <2>3, <2>4, UcbArmIs
<1> QED
  BY <1>5, <1>6

LEMMA UcbRound ==
    ASSUME IInv, UcbInv, NEW over \in BOOLEAN, NEW TP_bool \in BOOLEAN,
           NEW qos \in QoSValues, NEW arm \in Arms, Round(over, TP_bool, qos, arm)
    PROVE  UcbInv'
<1>1. pc = "loop" /\ CanRead /\ RoundDone(over, TP_bool, qos, arm) /\ ChooseAction(arm)
  BY RoundDoes DEF Round, Run
<1>2. /\ Played \in Nat /\ Played' = Played + 1 /\ Live' = Live
      /\ mode' = mode /\ round' = round + 1 /\ Pretrained' = Pretrained
  BY <1>1, RoundStarts, EpisodeStep DEF RoundDone, Pretrained
<1> SUFFICES ASSUME mode.algo = "ucb1", ~Pretrained
             PROVE  UcbInv'
  BY <1>2 DEF UcbInv
<1>3. round = Played /\ round' = Played'
  BY <1>2 DEF UcbInv
<1>4. /\ Played = 0 => arm = 0
      /\ Played = 1 => arm = 1
      /\ Played >= 2 => arm = UcbArm
  BY <1>1, <1>2, <1>3, TwoArms DEF ChooseAction
<1>5. /\ \A k \in 1 .. Played : chosen'[k] = chosen[k]
      /\ chosen'[Played + 1].arm = arm
  BY <1>1, ListsStep
<1>6. chosen'[1].arm = 0
  <2>1. CASE Played = 0
    BY <1>4, <1>5, <2>1
  <2>2. CASE Played > 0
    <3>1. 1 \in 1 .. Played
      BY <1>2, <2>2
    <3> QED
      BY <1>2, <1>5, <2>2, <3>1 DEF UcbInv
  <2> QED
    BY <1>2, <2>1, <2>2
<1>7. Live /\ Played' >= 3 => chosen'[3].arm = 1
  <2>1. CASE Live /\ Played = 2
    BY <1>4, <1>5, <2>1, ThirdLive
  <2>2. CASE Live /\ Played >= 3
    <3>1. 3 \in 1 .. Played
      BY <1>2, <2>2
    <3> QED
      BY <1>5, <2>2, <3>1 DEF UcbInv
  <2> QED
    BY <1>2, <2>1, <2>2
<1>8. ASSUME ~Live
      PROVE  /\ Played' # 0 /\ (Played' = 1 => PullsAre(1, 0)')
             /\ Played' = 2 => PullsAre(1, 1)'
             /\ Played' = 3 => PullsAre(2, 1)' \/ PullsAre(1, 2)'
             /\ Played' = 4 => PullsAre(2, 2)'
  <2> DEFINE e == [window |-> Played + 1 - First, arm |-> arm, reward |-> One(TP_bool)]
  <2>1. learned' = Append(learned, e) /\ learned \in Seq(Update)
    BY <1>1, <1>8, LearnedInRound DEF RoundDone, IInv, TypeOK, Update
  <2>2. e \in Update /\ e.arm = arm
    <3>1. Played + 1 - First \in Nat /\ One(TP_bool) \in {0, 1}
      BY <1>1, RoundStarts, Unit
    <3> QED
      BY <3>1 DEF Update
  <2> HIDE DEF e
  <2>3. /\ arm = 0 => Pulls(0)' = Pulls(0) + 1 /\ Pulls(1)' = Pulls(1)
        /\ arm = 1 => Pulls(0)' = Pulls(0) /\ Pulls(1)' = Pulls(1) + 1
    BY <2>1, <2>2, PullStep
  <2>4. arm = 0 \/ arm = 1
    BY DEF Arms
  <2>5. /\ Played = 0 => PullsAre(0, 0)
        /\ Played = 1 => PullsAre(1, 0)
        /\ Played = 2 => PullsAre(1, 1)
        /\ Played = 3 => PullsAre(2, 1) \/ PullsAre(1, 2)
    BY <1>8 DEF UcbInv
  <2>6. CASE Played = 0
    BY <1>2, <1>4, <2>3, <2>5, <2>6 DEF PullsAre
  <2>7. CASE Played = 1
    BY <1>2, <1>4, <2>3, <2>5, <2>7 DEF PullsAre
  <2>8. CASE Played = 2
    BY <1>2, <2>3, <2>4, <2>5, <2>8 DEF PullsAre
  <2>9. CASE Played = 3
    <3>1. (PullsAre(2, 1) => arm = 1) /\ (PullsAre(1, 2) => arm = 0)
      BY <1>3, <1>4, <2>1, <2>9, FourthRecorded
    <3> QED
      BY <1>2, <2>3, <2>5, <2>9, <3>1 DEF PullsAre
  <2>10. CASE Played > 3
    BY <1>2, <2>10
  <2> QED
    BY <1>2, <2>6, <2>7, <2>8, <2>9, <2>10
<1> QED
  BY <1>2, <1>3, <1>6, <1>7, <1>8 DEF UcbInv

LEMMA UcbOther ==
    ASSUME UcbInv, UNCHANGED <<mode, round, learned, chosen>>
    PROVE  UcbInv'
<1>1. /\ Played' = Played /\ Live' = Live /\ Pretrained' = Pretrained
      /\ Pulls(0)' = Pulls(0) /\ Pulls(1)' = Pulls(1)
  BY DEF Played, Live, Pretrained, Pulls
<1> QED
  BY <1>1 DEF UcbInv, PullsAre

LEMMA UcbInit == Init => UcbInv
<1> SUFFICES ASSUME Init
             PROVE  UcbInv
  OBVIOUS
<1>1. learned = <<>> /\ Played = 0 /\ (~Pretrained => round = 0)
  BY DEF Init, Played
<1>2. \A a : {k \in DOMAIN learned : learned[k].arm = a} = {}
  BY <1>1
<1>3. Pulls(0) = 0 /\ Pulls(1) = 0
  BY <1>2, FS_EmptySet DEF Pulls
<1> QED
  BY <1>1, <1>3 DEF UcbInv, PullsAre

LEMMA UcbNext == IInv /\ UcbInv /\ [Next]_vars => UcbInv'
<1> SUFFICES ASSUME IInv, UcbInv, [Next]_vars
             PROVE  UcbInv'
  OBVIOUS
<1>1. CASE \E over, TP_bool \in BOOLEAN, qos \in QoSValues, arm \in Arms :
              Round(over, TP_bool, qos, arm)
  BY <1>1, UcbRound
<1>2. CASE \/ \E over \in BOOLEAN : InitExecute(over)
           \/ ReadFails \/ Results \/ Terminating \/ UNCHANGED vars
  BY <1>2, UcbOther DEF InitExecute, ReadFails, Results, Terminating, vars
<1> QED
  BY <1>1, <1>2 DEF Next

(* A fresh UCB1 gives each arm two of its first four rounds on a dataset,   *)
(* whatever the labels, and on a live run takes the last arm in its third,  *)
(* for any fluctuation of the QoS.                                          *)
THEOREM FirstRoundsFixed == Spec => []UcbFirstRounds
<1>1. UcbInv => UcbFirstRounds
  <2> SUFFICES ASSUME UcbInv, mode.algo = "ucb1", ~Pretrained
               PROVE  /\ ~Live /\ Len(chosen) = 4 => \A a \in Arms : Pulls(a) = 2
                      /\ Live /\ Len(chosen) >= 3 => chosen[3].arm = 1
    BY DEF UcbFirstRounds
  <2> QED
    BY DEF UcbInv, PullsAre, Played, Arms
<1> QED
  BY <1>1, UcbInit, UcbNext, Invariance, PTL DEF Spec

-------------------------------------------------------------------------------
(* What an agent learns of a dataset: in every round, of the arm it chose,  *)
(* the label of that round, but under the window of the round before.       *)
LearnedOneBehind ==
    ~Live => /\ Len(learned) = Played
             /\ \A k \in DOMAIN learned :
                  learned[k] = [window |-> k - 1, arm |-> chosen[k].arm,
                                reward |-> One(graph.label[k])]

LEMMA RecordedRound ==
    ASSUME IInv, LearnedOneBehind, NEW over \in BOOLEAN, NEW TP_bool \in BOOLEAN,
           NEW qos \in QoSValues, NEW arm \in Arms, Round(over, TP_bool, qos, arm)
    PROVE  LearnedOneBehind'
<1>1. pc = "loop" /\ CanRead /\ RoundDone(over, TP_bool, qos, arm)
  BY RoundDoes
<1>2. Played \in Nat /\ Played' = Played + 1 /\ Live' = Live
  BY <1>1, RoundStarts, EpisodeStep
<1> SUFFICES ASSUME ~Live
             PROVE  LearnedOneBehind'
  BY <1>2 DEF LearnedOneBehind
<1>3. First = 1
  <2>1. mode \in Mode
    BY DEF IInv, TypeOK
  <2> QED
    BY <2>1 DEF Mode, Live, First, Pretrained
<1> DEFINE e == [window |-> Played, arm |-> arm, reward |-> One(TP_bool)]
<1>4. /\ learned \in Seq(Update) /\ Len(learned) = Played
      /\ \A k \in 1 .. Played : learned[k] = [window |-> k - 1, arm |-> chosen[k].arm,
                                              reward |-> One(graph.label[k])]
  <2>1. learned \in Seq(Update)
    BY DEF IInv, TypeOK, Update
  <2>2. Len(learned) = Played
    BY DEF LearnedOneBehind
  <2>3. DOMAIN learned = 1 .. Played
    BY <2>1, <2>2
  <2> QED
    BY <2>1, <2>2, <2>3 DEF LearnedOneBehind
<1>5. learned' = Append(learned, e)
  <2>1. Played + 1 - First = Played
    BY <1>2, <1>3
  <2> QED
    BY <1>1, <2>1, LearnedInRound DEF RoundDone
<1>6. e \in Update
  BY <1>2, Unit DEF Update
<1> HIDE DEF e
<1>7. /\ Len(learned') = Played + 1 /\ DOMAIN learned' = 1 .. Played + 1
      /\ \A k \in 1 .. Played : learned'[k] = learned[k]
      /\ learned'[Played + 1] = e
  <2>1. Len(learned') = Played + 1 /\ learned' \in Seq(Update)
    BY <1>4, <1>5, <1>6
  <2>2. DOMAIN learned' = 1 .. Played + 1
    BY <2>1
  <2>3. /\ \A k \in 1 .. Played : learned'[k] = learned[k]
        /\ learned'[Played + 1] = e
    BY <1>4, <1>5, <1>6, Entries
  <2> QED
    BY <2>1, <2>2, <2>3
<1>8. /\ \A k \in 1 .. Played : chosen'[k] = chosen[k] /\ graph'.label[k] = graph.label[k]
      /\ chosen'[Played + 1].arm = arm /\ graph'.label[Played + 1] = TP_bool
  BY <1>1, ListsStep
<1>9. ASSUME NEW k \in 1 .. Played + 1
      PROVE  learned'[k] = [window |-> k - 1, arm |-> chosen'[k].arm,
                            reward |-> One(graph'.label[k])]
  <2>1. CASE k = Played + 1
    BY <1>2, <1>7, <1>8, <2>1 DEF e
  <2>2. CASE k # Played + 1
    <3>1. k \in 1 .. Played
      BY <1>2, <2>2
    <3> QED
      BY <1>4, <1>7, <1>8, <3>1
  <2> QED
    BY <2>1, <2>2
<1> QED
  BY <1>2, <1>7, <1>9 DEF LearnedOneBehind

LEMMA RecordedNext == IInv /\ LearnedOneBehind /\ [Next]_vars => LearnedOneBehind'
<1> SUFFICES ASSUME IInv, LearnedOneBehind, [Next]_vars
             PROVE  LearnedOneBehind'
  OBVIOUS
<1>1. CASE \E over, TP_bool \in BOOLEAN, qos \in QoSValues, arm \in Arms :
              Round(over, TP_bool, qos, arm)
  BY <1>1, RecordedRound
<1>2. ASSUME UNCHANGED <<mode, learned, graph, chosen>>
      PROVE  LearnedOneBehind'
  BY <1>2 DEF LearnedOneBehind, Live, Played
<1>3. CASE \/ \E over \in BOOLEAN : InitExecute(over)
           \/ ReadFails \/ Results \/ Terminating \/ UNCHANGED vars
  BY <1>2, <1>3 DEF InitExecute, ReadFails, Results, Terminating, vars
<1> QED
  BY <1>1, <1>3 DEF Next

(* On a recorded episode every label is learned with the window before the  *)
(* one it labels, for the arm chosen in its round: the contexts begin with  *)
(* the window of init_execute, on which run() never decides.                *)
THEOREM LabelsOneBehind == Spec => []LearnedOneBehind
<1>1. Init => LearnedOneBehind
  BY DEF Init, LearnedOneBehind, Played
<1> QED
  BY <1>1, RecordedNext, Invariance, PTL DEF Spec
===============================================================================
