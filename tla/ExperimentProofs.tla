---------------------------- MODULE ExperimentProofs ---------------------------
(***************************************************************************)
(* Machine-checked proofs about Experiment, for any number of nodes and    *)
(* any performances.  They are about main.py and its children: what the    *)
(* simulation and the sockets do is in OpenGymProofs.                      *)
(***************************************************************************)
EXTENDS Experiment, Integers, FiniteSetTheorems, TLAPS

(* The inductive strengthening the proofs of ExperimentProofs rest on.      *)

States == /\ main \in {"start", "dead wait", "dead get", "dead join", "live wait",
                       "live get", "live join", "done", "failed"}
          /\ script \in {"join simulation", "join agents", "end"}
          /\ dead \in [Nodes -> ChildStates] /\ live \in [Nodes -> ChildStates]
          /\ perf \in [Nodes -> Performances \union {0}]
          /\ qsize \in Int
          /\ pipe \in Seq(Nodes)
          /\ best_perf \in Performances \union {0} /\ model_used \in Nodes \union {0}
          /\ reports \subseteq Nodes

(* The children of one phase, c, and the queue: the pipe holds each flushed *)
(* and not yet received result once, and the counter is ahead of the pipe   *)
(* by the results that are put and not flushed.                             *)
Queue(c, received, p, size) ==
    /\ \A j, k \in 1 .. Len(p) : p[j] = p[k] => j = k
    /\ \A k \in 1 .. Len(p) : c[p[k]] = "exited" /\ p[k] \notin received
    /\ \A n \in Nodes :
          c[n] = "exited" => n \in received \/ \E k \in 1 .. Len(p) : p[k] = n
    /\ \A n \in received : c[n] = "exited"
    /\ size = Cardinality(Delivered(c)) - Cardinality(received)

(* The model in use is the best of the received ones.                       *)
Best(received) ==
    IF received = {} THEN best_perf = 0
    ELSE /\ model_used \in received /\ best_perf = perf[model_used]
         /\ \A n \in received : perf[n] <= best_perf

DeadInv ==
    ~InLive =>
        /\ \A n \in Nodes : live[n] = "none"
        /\ reports = {}
        /\ \E received \in SUBSET Nodes : Queue(dead, received, pipe, qsize) /\ Best(received)
        /\ main = "start" => /\ \A n \in Nodes : dead[n] = "none"
                             /\ pipe = <<>> /\ qsize = 0 /\ best_perf = 0
        /\ main \in {"dead get", "dead join", "failed"} => Delivered(dead) = Nodes
        /\ main = "dead join" => qsize = 0

LiveInv ==
    InLive =>
        /\ \A n \in Nodes : dead[n] \in {"none", "exited"}
        /\ Queue(live, reports, pipe, qsize)
        /\ main # "live wait" => Delivered(live) = Nodes
        /\ main \in {"live join", "done"} => reports = Nodes

IInv == States /\ DeadInv /\ LiveInv /\ BestModelUsed

-------------------------------------------------------------------------------
(* Facts about the queue of one phase.                                      *)

LEMMA NodesFinite == IsFiniteSet(Nodes) /\ Cardinality(Nodes) = NumAgents /\ NumAgents \in Nat
  <1>1. NumAgents \in Nat /\ NumAgents >= 1
    BY ExperimentAssumption
  <1> QED
    BY <1>1, FS_Interval DEF Nodes

(* A set of nodes as large as the set of the nodes is the set of the nodes. *)
LEMMA AllOfThem ==
  ASSUME NEW S \in SUBSET Nodes
  PROVE  /\ IsFiniteSet(S) /\ Cardinality(S) \in Nat /\ Cardinality(S) <= NumAgents
         /\ Cardinality(S) = NumAgents => S = Nodes
         /\ Cardinality(S) = 0 => S = {}
  BY NodesFinite, FS_Subset, FS_EmptySet, FS_CardinalityType

(* Nobody has put a result yet.                                             *)
LEMMA QueueStart ==
  ASSUME NEW c, \A n \in Nodes : c[n] \in {"none", "running"}
  PROVE  Queue(c, {}, <<>>, 0)
  <1>1. Delivered(c) = {}
    BY DEF Delivered
  <1>2. Cardinality({}) = 0
    BY FS_EmptySet
  <1>3. Cardinality(Delivered(c)) - Cardinality({}) = 0
    BY <1>1, <1>2
  <1> QED
    BY <1>3 DEF Queue

(* put() counts the result.                                                 *)
LEMMA QueuePut ==
  ASSUME NEW c \in [Nodes -> ChildStates], NEW received \in SUBSET Nodes,
         NEW p \in Seq(Nodes), NEW size \in Int, NEW n \in Nodes,
         Queue(c, received, p, size), c[n] = "running",
         NEW d, d = [c EXCEPT ![n] = "put"]
  PROVE  Queue(d, received, p, size + 1)
  <1>1. Delivered(d) = Delivered(c) \union {n} /\ n \notin Delivered(c)
    BY DEF Delivered
  <1>2. Delivered(c) \in SUBSET Nodes
    BY DEF Delivered
  <1>3. Cardinality(Delivered(d)) = Cardinality(Delivered(c)) + 1
    BY <1>1, <1>2, AllOfThem, FS_AddElement
  <1>4. Cardinality(Delivered(c)) \in Nat /\ Cardinality(received) \in Nat
    BY <1>2, AllOfThem
  <1>5. size + 1 = Cardinality(Delivered(d)) - Cardinality(received)
    BY <1>3, <1>4 DEF Queue
  <1>6. \A k \in 1 .. Len(p) : d[p[k]] = "exited" /\ p[k] \notin received
    BY DEF Queue
  <1>7. \A k \in Nodes : d[k] = "exited" <=> c[k] = "exited"
    OBVIOUS
  <1> QED
    BY <1>5, <1>6, <1>7 DEF Queue

(* A child that dies has put nothing.                                       *)
LEMMA QueueFail ==
  ASSUME NEW c \in [Nodes -> ChildStates], NEW received \in SUBSET Nodes,
         NEW p \in Seq(Nodes), NEW size \in Int, NEW n \in Nodes,
         Queue(c, received, p, size), c[n] = "running",
         NEW d, d = [c EXCEPT ![n] = "failed"]
  PROVE  Queue(d, received, p, size) /\ Delivered(d) = Delivered(c)
  <1>1. Delivered(d) = Delivered(c)
    BY DEF Delivered
  <1>2. size = Cardinality(Delivered(d)) - Cardinality(received)
    BY <1>1 DEF Queue
  <1>3. \A k \in 1 .. Len(p) : d[p[k]] = "exited" /\ p[k] \notin received
    BY DEF Queue
  <1>4. \A k \in Nodes : d[k] = "exited" <=> c[k] = "exited"
    OBVIOUS
  <1> QED
    BY <1>1, <1>2, <1>3, <1>4 DEF Queue

(* The feeder thread writes the result behind the others.                   *)
Written(p, n, q) == q = Append(p, n)

LEMMA QueueFlush ==
  ASSUME NEW c \in [Nodes -> ChildStates], NEW received \in SUBSET Nodes,
         NEW p \in Seq(Nodes), NEW size \in Int, NEW n \in Nodes,
         Queue(c, received, p, size), c[n] = "put",
         NEW d, d = [c EXCEPT ![n] = "exited"], NEW q, Written(p, n, q)
  PROVE  Queue(d, received, q, size)
  <1>1. Delivered(d) = Delivered(c)
    BY DEF Delivered
  <1>2. size = Cardinality(Delivered(d)) - Cardinality(received)
    BY <1>1 DEF Queue
  <1>3. /\ Len(q) = Len(p) + 1 /\ Len(p) \in Nat /\ q[Len(p) + 1] = n
        /\ \A k \in 1 .. Len(p) : q[k] = p[k] /\ p[k] \in Nodes
    BY DEF Written
  <1>4. n \notin received /\ \A k \in 1 .. Len(p) : p[k] # n
    BY DEF Queue
  <1>5. \A j, k \in 1 .. Len(q) : q[j] = q[k] => j = k
    BY <1>3, <1>4 DEF Queue
  <1>6. \A k \in 1 .. Len(q) : q[k] = n \/ (q[k] \in Nodes /\ c[q[k]] = "exited" /\ q[k] \notin received)
    BY <1>3 DEF Queue
  <1>7. \A k \in 1 .. Len(q) : d[q[k]] = "exited" /\ q[k] \notin received
    BY <1>4, <1>6
  <1>8. \A m \in Nodes : d[m] = "exited" => m \in received \/ \E k \in 1 .. Len(q) : q[k] = m
    <2> SUFFICES ASSUME NEW m \in Nodes, d[m] = "exited", m \notin received
                 PROVE  \E k \in 1 .. Len(q) : q[k] = m
      OBVIOUS
    <2>1. CASE m = n
      BY <2>1, <1>3
    <2>2. CASE m # n
      <3>1. c[m] = "exited"
        BY <2>2
      <3>2. PICK k \in 1 .. Len(p) : p[k] = m
        BY <3>1 DEF Queue
      <3> QED
        BY <3>2, <1>3
    <2> QED
      BY <2>1, <2>2
  <1>9. \A m \in received : d[m] = "exited"
    BY DEF Queue
  <1>10. Queue(d, received, q, size)
    BY <1>2, <1>5, <1>7, <1>8, <1>9 DEF Queue
  <1> QED
    BY <1>1, <1>10

(* get() takes the first object: a result that was not received yet.        *)
LEMMA QueueGet ==
  ASSUME NEW c \in [Nodes -> ChildStates], NEW received \in SUBSET Nodes,
         NEW p \in Seq(Nodes), NEW size \in Int, p # <<>>,
         Queue(c, received, p, size)
  PROVE  /\ Head(p) \in Nodes /\ Head(p) \notin received
         /\ Queue(c, received \union {Head(p)}, Tail(p), size - 1)
  <1> DEFINE h == Head(p)
             q == Tail(p)
             got == received \union {h}
  <1>1. /\ Len(p) \in Nat /\ Len(p) >= 1 /\ h = p[1] /\ h \in Nodes
        /\ Len(q) = Len(p) - 1
        /\ \A k \in 1 .. Len(q) : q[k] = p[k + 1]
    OBVIOUS
  <1> HIDE DEF h, q
  <1>2. h \notin received /\ c[h] = "exited"
    BY <1>1 DEF Queue
  <1>3. \A j, k \in 1 .. Len(q) : q[j] = q[k] => j = k
    <2> SUFFICES ASSUME NEW j \in 1 .. Len(q), NEW k \in 1 .. Len(q), q[j] = q[k]
                 PROVE  j = k
      OBVIOUS
    <2>1. j + 1 \in 1 .. Len(p) /\ k + 1 \in 1 .. Len(p) /\ p[j + 1] = p[k + 1]
      BY <1>1
    <2>2. j + 1 = k + 1
      BY <2>1 DEF Queue
    <2> QED
      BY <2>2
  <1>4. \A k \in 1 .. Len(q) : c[q[k]] = "exited" /\ q[k] \notin got
    <2> SUFFICES ASSUME NEW k \in 1 .. Len(q)
                 PROVE  c[q[k]] = "exited" /\ q[k] \notin received /\ q[k] # h
      OBVIOUS
    <2>1. k + 1 \in 1 .. Len(p) /\ 1 \in 1 .. Len(p) /\ k + 1 # 1 /\ q[k] = p[k + 1]
      BY <1>1
    <2>2. p[k + 1] # p[1]
      BY <2>1 DEF Queue
    <2> QED
      BY <1>1, <2>1, <2>2 DEF Queue
  <1>5. \A m \in Nodes : c[m] = "exited" => m \in got \/ \E k \in 1 .. Len(q) : q[k] = m
    <2> SUFFICES ASSUME NEW m \in Nodes, c[m] = "exited", m \notin got
                 PROVE  \E k \in 1 .. Len(q) : q[k] = m
      OBVIOUS
    <2>1. PICK k \in 1 .. Len(p) : p[k] = m
      BY DEF Queue
    <2>2. k # 1
      BY <1>1, <2>1
    <2>3. k - 1 \in 1 .. Len(q) /\ q[k - 1] = p[(k - 1) + 1] /\ (k - 1) + 1 = k
      BY <1>1, <2>2
    <2> QED
      BY <2>1, <2>3
  <1>6. \A m \in got : c[m] = "exited"
    BY <1>2 DEF Queue
  <1>7. Cardinality(got) = Cardinality(received) + 1
    BY <1>2, AllOfThem, FS_AddElement
  <1>8. Cardinality(Delivered(c)) \in Nat /\ Cardinality(received) \in Nat
    BY AllOfThem DEF Delivered
  <1>9. size - 1 = Cardinality(Delivered(c)) - Cardinality(got)
    BY <1>7, <1>8 DEF Queue
  <1> HIDE DEF got
  <1>10. Queue(c, got, q, size - 1)
    BY <1>3, <1>4, <1>5, <1>6, <1>9 DEF Queue
  <1> QED
    BY <1>1, <1>2, <1>10 DEF h, q, got

(* The busy wait ends when everybody has put a result.                      *)
LEMMA QueueFull ==
  ASSUME NEW c, NEW received \in SUBSET Nodes, NEW p,
         Queue(c, received, p, NumAgents)
  PROVE  Delivered(c) = Nodes
  <1>1. Delivered(c) \in SUBSET Nodes
    BY DEF Delivered
  <1>2. NumAgents = Cardinality(Delivered(c)) - Cardinality(received)
    BY DEF Queue
  <1>3. /\ Cardinality(Delivered(c)) \in Nat /\ Cardinality(Delivered(c)) <= NumAgents
        /\ Cardinality(received) \in Nat
    BY <1>1, AllOfThem
  <1>4. Cardinality(Delivered(c)) = NumAgents
    BY <1>2, <1>3, NodesFinite
  <1> QED
    BY <1>1, <1>4, AllOfThem

(* The loop of the gets ends when everybody's result has been received.     *)
LEMMA QueueEmpty ==
  ASSUME NEW c, NEW received \in SUBSET Nodes, NEW p \in Seq(Nodes),
         Queue(c, received, p, 0), Delivered(c) = Nodes
  PROVE  received = Nodes /\ p = <<>> /\ \A n \in Nodes : c[n] = "exited"
  <1>1. 0 = Cardinality(Nodes) - Cardinality(received)
    BY DEF Queue
  <1>2. Cardinality(received) \in Nat /\ Cardinality(Nodes) = NumAgents /\ NumAgents \in Nat
    BY AllOfThem, NodesFinite
  <1>3. Cardinality(received) = NumAgents
    BY <1>1, <1>2
  <1>4. received = Nodes
    BY <1>3, AllOfThem
  <1>5. ASSUME p # <<>> PROVE FALSE
    <2>1. 1 \in 1 .. Len(p) /\ p[1] \in Nodes
      BY <1>5
    <2> QED
      BY <1>4, <2>1 DEF Queue
  <1> QED
    BY <1>4, <1>5 DEF Queue

-------------------------------------------------------------------------------
(* The invariant of the experiment.                                         *)

Core == <<main, dead, live, perf, queueVars, bestVars, reports>>

LEMMA TypeFacts ==
  ASSUME States
  PROVE  /\ pipe \in Seq(Nodes) /\ qsize \in Int /\ reports \in SUBSET Nodes
         /\ dead \in [Nodes -> ChildStates] /\ live \in [Nodes -> ChildStates]
         /\ perf \in [Nodes -> Nat] /\ best_perf \in Nat
  <1>1. Performances \union {0} \subseteq Nat
    BY ExperimentAssumption
  <1>2. pipe \in Seq(Nodes)
    BY DEF States
  <1>3. qsize \in Int /\ reports \in SUBSET Nodes
    BY DEF States
  <1>4. dead \in [Nodes -> ChildStates] /\ live \in [Nodes -> ChildStates]
    BY DEF States
  <1>5. perf \in [Nodes -> Performances \union {0}] /\ best_perf \in Performances \union {0}
    BY DEF States
  <1>6. \A n \in Nodes : perf[n] \in Nat
    BY <1>1, <1>5
  <1>7. perf \in [Nodes -> Nat] /\ best_perf \in Nat
    BY <1>1, <1>5, <1>6
  <1> QED
    BY <1>2, <1>3, <1>4, <1>7

(* get() on a queue that holds something.                                   *)
LEMMA HeadTail ==
  ASSUME NEW S, NEW p \in Seq(S), p # <<>>
  PROVE  Head(p) \in S /\ Tail(p) \in Seq(S)
  OBVIOUS

LEMMA InitIInv == Init => IInv
  <1> SUFFICES ASSUME Init PROVE IInv
    OBVIOUS
  <1>1. States
    <2>1. dead \in [Nodes -> ChildStates] /\ live \in [Nodes -> ChildStates]
      BY DEF Init, ChildStates
    <2>2. perf \in [Nodes -> Performances \union {0}]
      BY DEF Init
    <2>3. pipe \in Seq(Nodes)
      <3>1. pipe = <<>>
        BY DEF Init
      <3> QED
        BY <3>1
    <2>4. /\ main = "start" /\ script = "join simulation" /\ qsize = 0
          /\ best_perf = 0 /\ model_used = 0 /\ reports = {}
      BY DEF Init
    <2>5. qsize \in Int
      <3>1. qsize = 0
        BY DEF Init
      <3> QED
        BY <3>1
    <2>7. reports \subseteq Nodes
      BY DEF Init
    <2>6. best_perf \in Performances \union {0} /\ model_used \in Nodes \union {0}
      BY <2>4
    <2> QED
      BY <2>1, <2>2, <2>3, <2>4, <2>5, <2>6, <2>7 DEF States
  <1>2. ~InLive /\ BestModelUsed /\ LiveInv
    BY DEF Init, InLive, BestModelUsed, LiveInv
  <1>3. Queue(dead, {}, pipe, qsize)
    BY QueueStart DEF Init
  <1>4. Best({})
    BY DEF Init, Best
  <1>5. DeadInv
    BY <1>3, <1>4 DEF Init, DeadInv
  <1> QED
    BY <1>1, <1>2, <1>5 DEF IInv

LEMMA StatesStep == IInv /\ [Next]_vars => States'
  <1> SUFFICES ASSUME IInv, [Next]_vars PROVE States'
    OBVIOUS
  <1>0. States
    BY DEF IInv
  <1>1. CASE UNCHANGED vars
    BY <1>0, <1>1 DEF vars, queueVars, bestVars, States
  <1>2. CASE StartDead
    BY <1>0, <1>2 DEF StartDead, AllRunning, queueVars, bestVars, States, ChildStates
  <1>3. CASE WaitFor("dead wait", "dead get")
    BY <1>0, <1>3 DEF WaitFor, queueVars, bestVars, States
  <1>4. CASE GetDead
    <2>1. Head(pipe) \in Nodes /\ Tail(pipe) \in Seq(Nodes)
      <3>1. pipe # <<>>
        BY <1>4 DEF GetDead
      <3> QED
        BY <1>0, <3>1, TypeFacts, HeadTail
    <2>2. best_perf' \in Performances \union {0} /\ model_used' \in Nodes \union {0}
      <3>1. CASE perf[Head(pipe)] >= best_perf
        <4>1. perf[Head(pipe)] \in Performances \union {0}
          BY <1>0, <2>1 DEF States
        <4> QED
          BY <1>4, <2>1, <3>1, <4>1 DEF GetDead
      <3>2. CASE ~(perf[Head(pipe)] >= best_perf)
        BY <1>0, <1>4, <3>2 DEF GetDead, bestVars, States
      <3> QED
        BY <3>1, <3>2
    <2>3. pipe' \in Seq(Nodes)
      BY <1>4, <2>1 DEF GetDead
    <2>4. qsize' \in Int
      <3>1. qsize \in Int
        BY <1>0 DEF States
      <3>2. qsize' = qsize - 1
        BY <1>4 DEF GetDead
      <3> QED
        BY <3>1, <3>2
    <2>5. UNCHANGED <<main, script, dead, live, perf, reports>>
      BY <1>4 DEF GetDead
    <2> QED
      BY <1>0, <2>2, <2>3, <2>4, <2>5 DEF States
  <1>5. CASE GotAllDead
    BY <1>0, <1>5 DEF GotAllDead, queueVars, bestVars, States
  <1>6. CASE StartLive
    BY <1>0, <1>6 DEF StartLive, AllRunning, queueVars, bestVars, States, ChildStates
  <1>7. CASE WaitFor("live wait", "live get")
    BY <1>0, <1>7 DEF WaitFor, queueVars, bestVars, States
  <1>8. CASE GetLive
    <2>1. Head(pipe) \in Nodes /\ Tail(pipe) \in Seq(Nodes)
      <3>1. pipe # <<>>
        BY <1>8 DEF GetLive
      <3> QED
        BY <1>0, <3>1, TypeFacts, HeadTail
    <2>2. pipe' \in Seq(Nodes)
      BY <1>8, <2>1 DEF GetLive
    <2>3. qsize' \in Int
      <3>1. qsize \in Int
        BY <1>0 DEF States
      <3>2. qsize' = qsize - 1
        BY <1>8 DEF GetLive
      <3> QED
        BY <3>1, <3>2
    <2>5. reports' \subseteq Nodes
      <3>1. reports' = reports \union {Head(pipe)} /\ reports \subseteq Nodes
        BY <1>0, <1>8 DEF GetLive, States
      <3> QED
        BY <2>1, <3>1
    <2>4. UNCHANGED <<main, script, dead, live, perf, best_perf, model_used>>
      BY <1>8 DEF GetLive, bestVars
    <2> QED
      BY <1>0, <2>2, <2>3, <2>4, <2>5 DEF States
  <1>9. CASE GotAllLive
    BY <1>0, <1>9 DEF GotAllLive, queueVars, bestVars, States
  <1>10. CASE JoinAll
    BY <1>0, <1>10 DEF JoinAll, queueVars, bestVars, States
  <1>11. CASE GetDeadTimeout
    BY <1>0, <1>11 DEF GetDeadTimeout, queueVars, bestVars, States
  <1>12. ASSUME NEW n \in Nodes, ChildStep(n) PROVE States'
    <2>1. CASE DeadEnds(n)
      <3>1. dead' \in [Nodes -> ChildStates] /\ qsize' \in Int
        <4>1. \/ dead' = [dead EXCEPT ![n] = "put"] /\ qsize' = qsize + 1
              \/ dead' = [dead EXCEPT ![n] = "failed"] /\ qsize' = qsize
          BY <2>1 DEF DeadEnds
        <4>2. dead \in [Nodes -> ChildStates] /\ qsize \in Int
          BY <1>0, TypeFacts
        <4> QED
          BY <4>1, <4>2 DEF ChildStates
      <3>2. perf' \in [Nodes -> Performances \union {0}]
        BY <1>0, <2>1 DEF DeadEnds, States
      <3>3. UNCHANGED <<main, script, live, pipe, best_perf, model_used, reports>>
        BY <2>1 DEF DeadEnds, bestVars
      <3> QED
        BY <1>0, <3>1, <3>2, <3>3 DEF States
    <2>2. CASE LiveStep(n)
      BY <1>0, <2>2 DEF LiveStep, queueVars, bestVars, States
    <2>3. CASE LiveEnds(n)
      <3>1. live' \in [Nodes -> ChildStates] /\ qsize' \in Int
        <4>1. \/ live' = [live EXCEPT ![n] = "put"] /\ qsize' = qsize + 1
              \/ live' = [live EXCEPT ![n] = "failed"] /\ qsize' = qsize
          BY <2>3 DEF LiveEnds
        <4>2. live \in [Nodes -> ChildStates] /\ qsize \in Int
          BY <1>0, TypeFacts
        <4> QED
          BY <4>1, <4>2 DEF ChildStates
      <3>2. UNCHANGED <<main, script, dead, perf, pipe, best_perf, model_used, reports>>
        BY <2>3 DEF LiveEnds, bestVars
      <3> QED
        BY <1>0, <3>1, <3>2 DEF States
    <2>4. CASE Flush(n)
      <3>1. dead' \in [Nodes -> ChildStates] /\ live' \in [Nodes -> ChildStates]
        BY <1>0, <2>4, TypeFacts DEF Flush, ChildStates
      <3>2. pipe' = Append(pipe, n) /\ pipe \in Seq(Nodes)
        BY <1>0, <2>4, TypeFacts DEF Flush
      <3>3. pipe' \in Seq(Nodes)
        BY <3>2
      <3>4. UNCHANGED <<main, script, perf, qsize, best_perf, model_used, reports>>
        BY <2>4 DEF Flush, bestVars
      <3> QED
        BY <1>0, <3>1, <3>3, <3>4 DEF States
    <2> QED
      BY <1>12, <2>1, <2>2, <2>3, <2>4 DEF ChildStep
  <1>13. CASE SimStep
    BY <1>0, <1>13 DEF SimStep, queueVars, bestVars, States
  <1>14. CASE ScriptStep
    BY <1>0, <1>14 DEF ScriptStep, queueVars, bestVars, States
  <1>15. CASE Terminating
    BY <1>0, <1>15 DEF Terminating, vars, queueVars, bestVars, States
  <1> QED
    BY <1>1, <1>2, <1>3, <1>4, <1>5, <1>6, <1>7, <1>8, <1>9, <1>10, <1>11, <1>12,
       <1>13, <1>14, <1>15 DEF Next, MainStep

(* Steps of the sockets, the simulation and the script do not matter here.  *)
LEMMA QuietStep == IInv /\ UNCHANGED Core => (DeadInv /\ LiveInv /\ BestModelUsed)'
  <1> SUFFICES ASSUME IInv, UNCHANGED Core PROVE (DeadInv /\ LiveInv /\ BestModelUsed)'
    OBVIOUS
  <1> USE DEF Core, queueVars, bestVars, IInv, InLive
  <1>1. DeadInv'
    BY DEF DeadInv, Best
  <1>2. LiveInv'
    BY DEF LiveInv
  <1>3. BestModelUsed'
    BY DEF BestModelUsed
  <1> QED
    BY <1>1, <1>2, <1>3

-------------------------------------------------------------------------------
(* The pretraining.                                                         *)

LEMMA StartDeadStep == IInv /\ StartDead => DeadInv' /\ ~InLive'
  <1> SUFFICES ASSUME IInv, StartDead PROVE DeadInv' /\ ~InLive'
    OBVIOUS
  <1>1. /\ main' = "dead wait" /\ dead' = AllRunning /\ ~InLive
        /\ UNCHANGED <<live, queueVars, bestVars, reports>>
        /\ main = "start"
    BY DEF StartDead, InLive
  <1>2. ~InLive'
    BY <1>1 DEF InLive
  <1>3. pipe = <<>> /\ qsize = 0 /\ best_perf = 0 /\ reports = {} /\ \A n \in Nodes : live[n] = "none"
    BY <1>1 DEF IInv, DeadInv
  <1>4. Queue(dead', {}, pipe', qsize')
    <2>1. \A n \in Nodes : dead'[n] \in {"none", "running"}
      BY <1>1 DEF AllRunning
    <2>2. pipe' = <<>> /\ qsize' = 0
      BY <1>1, <1>3 DEF queueVars
    <2> QED
      BY <2>1, <2>2, QueueStart
  <1>5. Best({})'
    BY <1>1, <1>3 DEF Best, bestVars
  <1> QED
    BY <1>1, <1>2, <1>3, <1>4, <1>5 DEF DeadInv

LEMMA WaitDeadStep == IInv /\ WaitFor("dead wait", "dead get") => DeadInv' /\ ~InLive'
  <1> SUFFICES ASSUME IInv, WaitFor("dead wait", "dead get") PROVE DeadInv' /\ ~InLive'
    OBVIOUS
  <1>1. /\ main' = "dead get" /\ main = "dead wait" /\ ~InLive /\ ~InLive'
        /\ qsize = NumAgents
        /\ UNCHANGED <<dead, live, perf, pipe, qsize, best_perf, model_used, reports>>
    BY DEF WaitFor, InLive, queueVars, bestVars
  <1>2. PICK received \in SUBSET Nodes : Queue(dead, received, pipe, qsize) /\ Best(received)
    BY <1>1 DEF IInv, DeadInv
  <1>3. Delivered(dead) = Nodes
    BY <1>1, <1>2, QueueFull
  <1>4. Delivered(dead)' = Nodes
    BY <1>1, <1>3 DEF Delivered
  <1>5. Queue(dead', received, pipe', qsize') /\ Best(received)'
    BY <1>1, <1>2 DEF Best
  <1> QED
    BY <1>1, <1>4, <1>5 DEF IInv, DeadInv

LEMMA GetDeadStep == IInv /\ GetDead => DeadInv' /\ ~InLive'
  <1> SUFFICES ASSUME IInv, GetDead PROVE DeadInv' /\ ~InLive'
    OBVIOUS
  <1>1. /\ main' = "dead get" /\ main = "dead get" /\ ~InLive /\ ~InLive'
        /\ pipe # <<>> /\ pipe' = Tail(pipe) /\ qsize' = qsize - 1
        /\ UNCHANGED <<dead, live, perf, reports>>
    BY DEF GetDead, InLive
  <1>a. PICK h : h = Head(pipe)
    OBVIOUS
  <1>2. IF perf[h] >= best_perf
          THEN best_perf' = perf[h] /\ model_used' = h
          ELSE best_perf' = best_perf /\ model_used' = model_used
    BY <1>a DEF GetDead, bestVars
  <1>3. PICK received \in SUBSET Nodes : Queue(dead, received, pipe, qsize) /\ Best(received)
    BY <1>1 DEF IInv, DeadInv
  <1>4. /\ dead \in [Nodes -> ChildStates] /\ pipe \in Seq(Nodes) /\ qsize \in Int
        /\ best_perf \in Nat /\ \A n \in Nodes : perf[n] \in Nat
    BY TypeFacts DEF IInv
  <1>5. h \in Nodes /\ h \notin received /\ Queue(dead', received \union {h}, pipe', qsize')
    BY <1>1, <1>3, <1>4, <1>a, QueueGet
  <1>b. PICK got \in SUBSET Nodes : got = received \union {h}
    BY <1>5
  <1>6. Best(got)'
    <2>1. got # {}
      BY <1>b
    <2>2. CASE perf[h] >= best_perf
      <3>1. best_perf' = perf[h] /\ model_used' = h
        BY <1>2, <2>2
      <3>2. \A n \in received : perf[n] <= best_perf
        BY <1>3 DEF Best
      <3>3. \A n \in received : perf[n] <= perf[h]
        BY <1>4, <1>5, <2>2, <3>2
      <3>4. best_perf' = perf'[model_used'] /\ model_used' \in got
        BY <1>1, <1>b, <3>1
      <3>5. \A n \in got : perf'[n] <= best_perf'
        <4>1. perf[h] <= perf[h]
          BY <1>4, <1>5
        <4>2. \A n \in got : perf[n] <= perf[h]
          BY <1>b, <3>3, <4>1
        <4> QED
          BY <1>1, <3>1, <4>2
      <3> QED
        BY <2>1, <3>4, <3>5 DEF Best
    <2>3. CASE ~(perf[h] >= best_perf)
      <3>1. best_perf' = best_perf /\ model_used' = model_used
        BY <1>2, <2>3
      <3>2. received # {}
        BY <1>3, <1>4, <1>5, <2>3 DEF Best
      <3>3. perf[h] <= best_perf
        BY <1>4, <1>5, <2>3
      <3>4. /\ model_used \in received /\ best_perf = perf[model_used]
            /\ \A n \in received : perf[n] <= best_perf
        BY <1>3, <3>2 DEF Best
      <3>5. best_perf' = perf'[model_used'] /\ model_used' \in got
        BY <1>1, <1>b, <3>1, <3>4
      <3>6. \A n \in got : perf'[n] <= best_perf'
        BY <1>1, <1>b, <3>1, <3>3, <3>4
      <3> QED
        BY <2>1, <3>5, <3>6 DEF Best
    <2> QED
      BY <2>2, <2>3
  <1>7. Delivered(dead)' = Nodes
    BY <1>1 DEF IInv, DeadInv, Delivered
  <1>9. (\A n \in Nodes : live[n] = "none")' /\ (reports = {})'
    BY <1>1 DEF IInv, DeadInv
  <1>10. Queue(dead', got, pipe', qsize')
    BY <1>5, <1>b
  <1>11. main' = "dead get" /\ ~InLive'
    BY <1>1
  <1> QED
    BY <1>6, <1>7, <1>9, <1>10, <1>11 DEF DeadInv

LEMMA GotAllDeadStep == IInv /\ GotAllDead => DeadInv' /\ ~InLive'
  <1> SUFFICES ASSUME IInv, GotAllDead PROVE DeadInv' /\ ~InLive'
    OBVIOUS
  <1>1. /\ main' = "dead join" /\ main = "dead get" /\ ~InLive /\ ~InLive'
        /\ qsize = 0
        /\ UNCHANGED <<dead, live, perf, pipe, qsize, best_perf, model_used, reports>>
    BY DEF GotAllDead, InLive, queueVars, bestVars
  <1>2. PICK received \in SUBSET Nodes : Queue(dead, received, pipe, qsize) /\ Best(received)
    BY <1>1 DEF IInv, DeadInv
  <1>3. Queue(dead', received, pipe', qsize') /\ Best(received)'
    BY <1>1, <1>2 DEF Best
  <1>4. Delivered(dead)' = Nodes
    BY <1>1 DEF IInv, DeadInv, Delivered
  <1> QED
    BY <1>1, <1>3, <1>4 DEF IInv, DeadInv

LEMMA TimeoutStep == IInv /\ GetDeadTimeout => DeadInv' /\ ~InLive'
  <1> SUFFICES ASSUME IInv, GetDeadTimeout PROVE DeadInv' /\ ~InLive'
    OBVIOUS
  <1>1. /\ main' = "failed" /\ ~InLive /\ ~InLive'
        /\ UNCHANGED <<dead, live, perf, pipe, qsize, best_perf, model_used, reports>>
    BY DEF GetDeadTimeout, InLive, queueVars, bestVars
  <1>2. PICK received \in SUBSET Nodes : Queue(dead, received, pipe, qsize) /\ Best(received)
    BY <1>1 DEF IInv, DeadInv
  <1>3. Queue(dead', received, pipe', qsize') /\ Best(received)'
    BY <1>1, <1>2 DEF Best
  <1>4. Delivered(dead)' = Nodes
    BY <1>1 DEF GetDeadTimeout, IInv, DeadInv, Delivered
  <1> QED
    BY <1>1, <1>3, <1>4 DEF IInv, DeadInv

(* A child of the pretraining that runs has not been received, and main.py  *)
(* is in a phase that waits for it or has given up.                         *)
LEMMA DeadEndsStep ==
  ASSUME NEW n \in Nodes
  PROVE  IInv /\ DeadEnds(n) => DeadInv' /\ ~InLive'
  <1> SUFFICES ASSUME IInv, DeadEnds(n) PROVE DeadInv' /\ ~InLive'
    OBVIOUS
  <1>1. /\ dead[n] = "running"
        /\ UNCHANGED <<main, live, pipe, best_perf, model_used, reports>>
    BY DEF DeadEnds, bestVars
  <1>2. ~InLive /\ ~InLive'
    BY <1>1 DEF IInv, LiveInv, InLive
  <1>3. PICK received \in SUBSET Nodes : Queue(dead, received, pipe, qsize) /\ Best(received)
    BY <1>2 DEF IInv, DeadInv
  <1>4. /\ dead \in [Nodes -> ChildStates] /\ pipe \in Seq(Nodes) /\ qsize \in Int
        /\ perf \in [Nodes -> Performances \union {0}]
    BY DEF IInv, States
  <1>5. Queue(dead', received, pipe', qsize')
    <2>1. CASE dead' = [dead EXCEPT ![n] = "put"] /\ qsize' = qsize + 1
      BY <1>1, <1>3, <1>4, <2>1, QueuePut
    <2>2. CASE dead' = [dead EXCEPT ![n] = "failed"] /\ qsize' = qsize
      BY <1>1, <1>3, <1>4, <2>2, QueueFail
    <2> QED
      BY <2>1, <2>2 DEF DeadEnds
  <1>6. n \notin received
    BY <1>1, <1>3 DEF Queue
  <1>7. \A m \in Nodes : m # n => perf'[m] = perf[m]
    BY <1>4 DEF DeadEnds
  <1>8. Best(received)'
    BY <1>1, <1>3, <1>6, <1>7 DEF Best
  <1>9. main \notin {"start", "dead get", "dead join", "failed"}
    <2>1. n \notin Delivered(dead)
      BY <1>1 DEF Delivered
    <2> QED
      BY <1>1, <1>2, <2>1 DEF IInv, DeadInv
  <1> QED
    BY <1>1, <1>2, <1>5, <1>8, <1>9 DEF IInv, DeadInv

LEMMA FlushDeadStep ==
  ASSUME NEW n \in Nodes
  PROVE  IInv /\ Flush(n) /\ ~InLive => DeadInv' /\ ~InLive'
  <1> SUFFICES ASSUME IInv, Flush(n), ~InLive PROVE DeadInv' /\ ~InLive'
    OBVIOUS
  <1>1. /\ dead[n] = "put" /\ dead' = [dead EXCEPT ![n] = "exited"]
        /\ Written(pipe, n, pipe')
        /\ UNCHANGED <<main, live, perf, qsize, best_perf, model_used, reports>>
    BY DEF Flush, bestVars, IInv, DeadInv, Written
  <1>2. ~InLive'
    BY <1>1 DEF InLive
  <1>3. PICK received \in SUBSET Nodes : Queue(dead, received, pipe, qsize) /\ Best(received)
    BY DEF IInv, DeadInv
  <1>4. dead \in [Nodes -> ChildStates] /\ pipe \in Seq(Nodes) /\ qsize \in Int
    BY TypeFacts DEF IInv
  <1>5. Queue(dead', received, pipe', qsize) /\ Delivered(dead') = Delivered(dead)
    <2>1. dead[n] = "put" /\ dead' = [dead EXCEPT ![n] = "exited"] /\ Written(pipe, n, pipe')
      BY <1>1
    <2>2. Queue(dead, received, pipe, qsize)
      BY <1>3
    <2>3. Queue(dead', received, pipe', qsize)
      BY <1>4, <2>1, <2>2, QueueFlush
    <2>4. Delivered(dead') = Delivered(dead)
      BY <1>4, <2>1 DEF Delivered
    <2> QED
      BY <2>3, <2>4
  <1>6. Best(received)'
    BY <1>1, <1>3 DEF Best
  <1>7. main # "start"
    BY <1>1 DEF IInv, DeadInv
  <1> QED
    BY <1>1, <1>2, <1>5, <1>6, <1>7 DEF IInv, DeadInv

-------------------------------------------------------------------------------
(* The live phase.                                                          *)

LEMMA StartLiveStep == IInv /\ StartLive => LiveInv' /\ InLive' /\ BestModelUsed'
  <1> SUFFICES ASSUME IInv, StartLive PROVE LiveInv' /\ InLive' /\ BestModelUsed'
    OBVIOUS
  <1>1. /\ main' = "live wait" /\ InLive' /\ ~InLive
        /\ live' = AllRunning
        /\ UNCHANGED <<dead, perf, pipe, qsize, best_perf, model_used, reports>>
    BY DEF StartLive, InLive, queueVars, bestVars
  <1>2. PICK received \in SUBSET Nodes : Queue(dead, received, pipe, qsize) /\ Best(received)
    BY <1>1 DEF IInv, DeadInv
  <1>3. pipe \in Seq(Nodes) /\ \A n \in Nodes : perf[n] \in Nat
    BY TypeFacts DEF IInv
  <1>4. CASE main = "start"
    <2>1. /\ \A n \in Nodes : dead[n] = "none"
          /\ pipe = <<>> /\ qsize = 0 /\ reports = {}
      BY <1>1, <1>4 DEF IInv, DeadInv
    <2>2. \A n \in Nodes : live'[n] \in {"none", "running"}
      BY <1>1 DEF AllRunning
    <2>3. Queue(live', reports', pipe', qsize')
      BY <1>1, <2>1, <2>2, QueueStart
    <2>4. ~Pretrains
      BY <1>4 DEF StartLive
    <2> QED
      BY <1>1, <2>1, <2>3, <2>4 DEF LiveInv, BestModelUsed, Pretrains
  <1>5. CASE main = "dead join"
    <2>1. qsize = 0 /\ Delivered(dead) = Nodes /\ reports = {}
      BY <1>1, <1>5 DEF IInv, DeadInv
    <2>2. received = Nodes /\ pipe = <<>> /\ \A n \in Nodes : dead[n] = "exited"
      BY <1>2, <1>3, <2>1, QueueEmpty
    <2>3. \A n \in Nodes : live'[n] \in {"none", "running"}
      BY <1>1 DEF AllRunning
    <2>4. Queue(live', reports', pipe', qsize')
      BY <1>1, <2>1, <2>2, <2>3, QueueStart
    <2>5. 1 \in Nodes
      BY ExperimentAssumption DEF Nodes
    <2>6. model_used \in Nodes /\ best_perf = perf[model_used] /\ \A n \in Nodes : perf[n] <= best_perf
      BY <1>2, <2>2, <2>5 DEF Best
    <2>7. model_used # 0 /\ \A n \in Nodes : perf[n] <= perf[model_used]
      BY <2>6 DEF Nodes
    <2>8. BestModelUsed'
      BY <1>1, <2>7 DEF BestModelUsed
    <2> QED
      BY <1>1, <2>2, <2>4, <2>8 DEF LiveInv
  <1> QED
    BY <1>4, <1>5 DEF StartLive

(* What the model is chosen from does not change in the live phase.         *)
LEMMA BestKept ==
  IInv /\ InLive /\ UNCHANGED <<perf, model_used>> => BestModelUsed'
  BY DEF IInv, BestModelUsed

LEMMA WaitLiveStep == IInv /\ WaitFor("live wait", "live get") => LiveInv' /\ InLive' /\ BestModelUsed'
  <1> SUFFICES ASSUME IInv, WaitFor("live wait", "live get")
               PROVE  LiveInv' /\ InLive' /\ BestModelUsed'
    OBVIOUS
  <1>1. /\ main' = "live get" /\ InLive /\ InLive' /\ qsize = NumAgents
        /\ UNCHANGED <<dead, live, perf, pipe, qsize, model_used, reports>>
    BY DEF WaitFor, InLive, queueVars, bestVars
  <1>2. Queue(live, reports, pipe, qsize) /\ reports \in SUBSET Nodes
    BY <1>1 DEF IInv, LiveInv, States
  <1>3. Delivered(live) = Nodes
    BY <1>1, <1>2, QueueFull
  <1>4. Delivered(live)' = Nodes
    BY <1>1, <1>3 DEF Delivered
  <1> QED
    BY <1>1, <1>2, <1>4, BestKept DEF IInv, LiveInv

LEMMA GetLiveStep == IInv /\ GetLive => LiveInv' /\ InLive' /\ BestModelUsed'
  <1> SUFFICES ASSUME IInv, GetLive PROVE LiveInv' /\ InLive' /\ BestModelUsed'
    OBVIOUS
  <1>1. /\ main = "live get" /\ main' = main /\ InLive /\ InLive'
        /\ pipe # <<>> /\ pipe' = Tail(pipe) /\ qsize' = qsize - 1
        /\ reports' = reports \union {Head(pipe)}
        /\ UNCHANGED <<dead, live, perf, model_used>>
    BY DEF GetLive, InLive, bestVars
  <1>2. Queue(live, reports, pipe, qsize) /\ reports \in SUBSET Nodes
        /\ live \in [Nodes -> ChildStates] /\ pipe \in Seq(Nodes) /\ qsize \in Int
    BY <1>1 DEF IInv, LiveInv, States
  <1>3. Queue(live', reports', pipe', qsize')
    BY <1>1, <1>2, QueueGet
  <1>4. Delivered(live)' = Nodes
    BY <1>1 DEF IInv, LiveInv, Delivered
  <1> QED
    BY <1>1, <1>3, <1>4, BestKept DEF IInv, LiveInv

LEMMA GotAllLiveStep == IInv /\ GotAllLive => LiveInv' /\ InLive' /\ BestModelUsed'
  <1> SUFFICES ASSUME IInv, GotAllLive PROVE LiveInv' /\ InLive' /\ BestModelUsed'
    OBVIOUS
  <1>1. /\ main = "live get" /\ main' = "live join" /\ InLive /\ InLive' /\ qsize = 0
        /\ UNCHANGED <<dead, live, perf, pipe, qsize, model_used, reports>>
    BY DEF GotAllLive, InLive, queueVars, bestVars
  <1>2. /\ Queue(live, reports, pipe, qsize) /\ reports \in SUBSET Nodes
        /\ pipe \in Seq(Nodes) /\ Delivered(live) = Nodes
    BY <1>1 DEF IInv, LiveInv, States
  <1>3. reports = Nodes
    BY <1>1, <1>2, QueueEmpty
  <1>4. Delivered(live)' = Nodes
    BY <1>1, <1>2 DEF Delivered
  <1> QED
    BY <1>1, <1>2, <1>3, <1>4, BestKept DEF IInv, LiveInv, Nodes

LEMMA JoinAllStep == IInv /\ JoinAll => LiveInv' /\ InLive' /\ BestModelUsed'
  <1> SUFFICES ASSUME IInv, JoinAll PROVE LiveInv' /\ InLive' /\ BestModelUsed'
    OBVIOUS
  <1>1. /\ main = "live join" /\ main' = "done" /\ InLive /\ InLive'
        /\ UNCHANGED <<dead, live, perf, pipe, qsize, model_used, reports>>
    BY DEF JoinAll, InLive, queueVars, bestVars
  <1>2. Delivered(live)' = Nodes
    BY <1>1 DEF IInv, LiveInv, Delivered
  <1> QED
    BY <1>1, <1>2, BestKept DEF IInv, LiveInv

LEMMA LiveEndsStep ==
  ASSUME NEW n \in Nodes
  PROVE  IInv /\ LiveEnds(n) => LiveInv' /\ InLive' /\ BestModelUsed'
  <1> SUFFICES ASSUME IInv, LiveEnds(n) PROVE LiveInv' /\ InLive' /\ BestModelUsed'
    OBVIOUS
  <1>1. live[n] = "running" /\ UNCHANGED <<main, dead, perf, pipe, model_used, reports>>
    BY DEF LiveEnds, bestVars
  <1>2. InLive /\ InLive'
    BY <1>1 DEF IInv, DeadInv, InLive
  <1>3. /\ Queue(live, reports, pipe, qsize) /\ reports \in SUBSET Nodes
        /\ live \in [Nodes -> ChildStates] /\ pipe \in Seq(Nodes) /\ qsize \in Int
    BY <1>2 DEF IInv, LiveInv, States
  <1>4. Queue(live', reports', pipe', qsize')
    <2>1. CASE live' = [live EXCEPT ![n] = "put"] /\ qsize' = qsize + 1
      BY <1>1, <1>3, <2>1, QueuePut
    <2>2. CASE live' = [live EXCEPT ![n] = "failed"] /\ qsize' = qsize
      BY <1>1, <1>3, <2>2, QueueFail
    <2> QED
      BY <2>1, <2>2 DEF LiveEnds
  <1>5. main = "live wait"
    <2>1. n \notin Delivered(live)
      BY <1>1 DEF Delivered
    <2> QED
      BY <1>2, <2>1 DEF IInv, LiveInv
  <1> QED
    BY <1>1, <1>2, <1>4, <1>5, BestKept DEF IInv, LiveInv

LEMMA FlushLiveStep ==
  ASSUME NEW n \in Nodes
  PROVE  IInv /\ Flush(n) /\ InLive => LiveInv' /\ InLive' /\ BestModelUsed'
  <1> SUFFICES ASSUME IInv, Flush(n), InLive PROVE LiveInv' /\ InLive' /\ BestModelUsed'
    OBVIOUS
  <1>1. /\ live[n] = "put" /\ live' = [live EXCEPT ![n] = "exited"]
        /\ Written(pipe, n, pipe')
        /\ UNCHANGED <<main, dead, perf, qsize, model_used, reports>>
    BY DEF Flush, bestVars, IInv, LiveInv, Written
  <1>2. InLive'
    BY <1>1 DEF InLive
  <1>3. /\ Queue(live, reports, pipe, qsize) /\ reports \in SUBSET Nodes
        /\ live \in [Nodes -> ChildStates] /\ pipe \in Seq(Nodes) /\ qsize \in Int
    BY DEF IInv, LiveInv, States
  <1>4. Queue(live', reports, pipe', qsize) /\ Delivered(live') = Delivered(live)
    <2>1. live[n] = "put" /\ live' = [live EXCEPT ![n] = "exited"] /\ Written(pipe, n, pipe')
      BY <1>1
    <2>2. Queue(live, reports, pipe, qsize)
      BY <1>3
    <2>3. Queue(live', reports, pipe', qsize)
      BY <1>3, <2>1, <2>2, QueueFlush
    <2>4. Delivered(live') = Delivered(live)
      BY <1>3, <2>1 DEF Delivered
    <2> QED
      BY <2>3, <2>4
  <1> QED
    BY <1>1, <1>2, <1>4, BestKept DEF IInv, LiveInv

-------------------------------------------------------------------------------
(* The invariant is inductive.                                              *)
LEMMA StepIInv == IInv /\ [Next]_vars => IInv'
  <1> SUFFICES ASSUME IInv, [Next]_vars PROVE IInv'
    OBVIOUS
  <1>1. States'
    BY StatesStep
  <1> DEFINE Dead == DeadInv' /\ ~InLive'
             Live == LiveInv' /\ InLive' /\ BestModelUsed'
             Same == (DeadInv /\ LiveInv /\ BestModelUsed)'
  <1>2. Dead \/ Live \/ Same
    <2>1. ASSUME UNCHANGED vars PROVE Same
      BY <2>1, QuietStep DEF vars, Core
    <2>2. ASSUME MainStep PROVE Dead \/ Live
      BY <2>2, StartDeadStep, WaitDeadStep, GetDeadStep, GotAllDeadStep, StartLiveStep,
         WaitLiveStep, GetLiveStep, GotAllLiveStep, JoinAllStep DEF MainStep
    <2>3. ASSUME GetDeadTimeout PROVE Dead
      BY <2>3, TimeoutStep
    <2>4. ASSUME NEW n \in Nodes, ChildStep(n) PROVE Dead \/ Live \/ Same
      <3>1. ASSUME LiveStep(n) PROVE Same
        BY <3>1, QuietStep DEF LiveStep, Core
      <3> QED
        BY <2>4, <3>1, DeadEndsStep, LiveEndsStep, FlushDeadStep, FlushLiveStep DEF ChildStep
    <2>5. ASSUME SimStep PROVE Same
      BY <2>5, QuietStep DEF SimStep, Core
    <2>6. ASSUME ScriptStep PROVE Same
      BY <2>6, QuietStep DEF ScriptStep, Core
    <2> QED
      BY <2>1, <2>2, <2>3, <2>4, <2>5, <2>6 DEF Next, Terminating
  <1>3. Dead => LiveInv' /\ BestModelUsed'
    BY DEF LiveInv, BestModelUsed
  <1>4. Live => DeadInv'
    BY DEF DeadInv
  <1> QED
    BY <1>1, <1>2, <1>3, <1>4 DEF IInv

(* In every reachable state the queue belongs to the phase main.py is in    *)
(* and the model in use is the best received, for any number of nodes.      *)
THEOREM Invariance == Spec => []IInv
  <1> QED
    BY InitIInv, StepIInv, PTL DEF Spec

(* The pretraining and the live run share one queue, and the messages of    *)
(* one phase are all received before the children of the next are started:  *)
(* no result is taken for one of the other phase or received twice.         *)
THEOREM PhasesKeptApart == Spec => []QueueHoldsOnePhase
  <1>1. IInv => QueueHoldsOnePhase
    <2> SUFFICES ASSUME IInv, InLive PROVE QueueHoldsOnePhase
      BY DEF QueueHoldsOnePhase
    <2>1. Queue(live, reports, pipe, qsize) /\ pipe \in Seq(Nodes)
      BY DEF IInv, LiveInv, States
    <2>2. Delivered(live) = {n \in Nodes : live[n] \in {"put", "exited"}}
      BY DEF Delivered
    <2>3. DOMAIN pipe = 1 .. Len(pipe)
      BY <2>1
    <2> QED
      BY <2>1, <2>2, <2>3 DEF QueueHoldsOnePhase, Queue, IInv, LiveInv
  <1> QED
    BY <1>1, Invariance, PTL

(* Whatever the order the results of the pretraining come in, the live run  *)
(* starts from a model that no other pretraining beats.                     *)
THEOREM BestModelKept == Spec => []BestModelUsed
  <1>1. IInv => BestModelUsed
    BY DEF IInv
  <1> QED
    BY <1>1, Invariance, PTL

(* main.py writes its report from the results of all the nodes.             *)
THEOREM ReportsAllNodes == Spec => []ReportComplete
  <1>1. IInv => ReportComplete
    BY DEF IInv, LiveInv, InLive, ReportComplete
  <1> QED
    BY <1>1, Invariance, PTL

(* A failure is for ever: whichever child dies, and whatever the others     *)
(* still put in the queue, main.py never leaves the wait of that phase.     *)
THEOREM FailureIsForEver == Spec => AFailureIsForEver
  <1>1. ASSUME IInv, Next, NEW n \in Nodes, "failed" \in {dead[n], live[n]}
        PROVE  UNCHANGED main
    <2>1. main \in {"dead wait", "live wait"} /\ qsize # NumAgents
      <3>1. CASE live[n] = "failed"
        <4>1. InLive
          BY <1>1, <3>1 DEF IInv, DeadInv
        <4>2. n \notin Delivered(live)
          BY <3>1 DEF Delivered
        <4>3. main = "live wait" /\ Queue(live, reports, pipe, qsize) /\ reports \in SUBSET Nodes
          BY <1>1, <4>1, <4>2 DEF IInv, LiveInv, InLive, States
        <4> QED
          BY <1>1, <4>2, <4>3, QueueFull
      <3>2. CASE dead[n] = "failed"
        <4>1. ~InLive
          BY <1>1, <3>2 DEF IInv, LiveInv
        <4>2. n \notin Delivered(dead)
          BY <3>2 DEF Delivered
        <4>3. main = "dead wait"
          BY <1>1, <3>2, <4>1, <4>2 DEF IInv, DeadInv, InLive, States
        <4>4. PICK received \in SUBSET Nodes : Queue(dead, received, pipe, qsize)
          BY <1>1, <4>1 DEF IInv, DeadInv
        <4> QED
          BY <1>1, <4>2, <4>3, <4>4, QueueFull
      <3> QED
        BY <1>1, <3>1, <3>2
    <2>2. ~MainStep /\ ~GetDeadTimeout
      BY <2>1 DEF MainStep, StartDead, WaitFor, GetDead, GotAllDead, StartLive, GetLive,
         GotAllLive, JoinAll, GetDeadTimeout
    <2> QED
      BY <1>1, <2>2 DEF Next, ChildStep, DeadEnds, LiveStep, LiveEnds, Flush, SimStep,
         ScriptStep, Terminating, vars
  <1>2. IInv /\ [Next]_vars
          => [(\E n \in Nodes : "failed" \in {dead[n], live[n]}) => UNCHANGED main]_vars
    BY <1>1
  <1> QED
    BY <1>2, Invariance, PTL DEF Spec, AFailureIsForEver

-------------------------------------------------------------------------------
(* Refinement of Phases.                                                    *)

LEMMA ReceivedAre ==
  ASSUME NEW c, NEW received \in SUBSET Nodes, NEW p \in Seq(Nodes), NEW size,
         Queue(c, received, p, size)
  PROVE  received = {n \in Outside(p) : c[n] = "exited"}
  <1>1. DOMAIN p = 1 .. Len(p)
    OBVIOUS
  <1>2. \A n \in received : n \in Nodes /\ c[n] = "exited" /\ \A k \in 1 .. Len(p) : p[k] # n
    BY DEF Queue
  <1>3. \A n \in Nodes :
           c[n] = "exited" /\ (\A k \in 1 .. Len(p) : p[k] # n) => n \in received
    BY DEF Queue
  <1> QED
    BY <1>1, <1>2, <1>3 DEF Outside

LEMMA DeadReceived ==
  ASSUME IInv, ~InLive
  PROVE  /\ Queue(dead, Received, pipe, qsize) /\ Received \in SUBSET Nodes
         /\ Results = Delivered(dead)
  <1>1. PICK received \in SUBSET Nodes : Queue(dead, received, pipe, qsize)
    BY DEF IInv, DeadInv
  <1>2. pipe \in Seq(Nodes)
    BY DEF IInv, States
  <1>3. received = Received
    BY <1>1, <1>2, ReceivedAre DEF Received
  <1> QED
    BY <1>1, <1>3 DEF Results

(* Steps of the processes and the sockets that Phases does not see.         *)
LEMMA PlanStutter ==
  ASSUME UNCHANGED <<Stage, Results, Received, perf, model_used>>
  PROVE  UNCHANGED Plan!phaseVars
  BY DEF Plan!phaseVars

LEMMA PlanInit == Init => Plan!Init
  <1> SUFFICES ASSUME Init PROVE Plan!Init
    OBVIOUS
  <1>1. Stage = "idle" /\ ~InLive
    BY DEF Init, Stage, InLive
  <1>2. Results = {} /\ Received = {}
    BY <1>1 DEF Init, Results, Received, Delivered, Outside
  <1> QED
    BY <1>1, <1>2 DEF Init, Plan!Init

LEMMA PlanQuiet == IInv /\ UNCHANGED Core => UNCHANGED Plan!phaseVars
  BY PlanStutter DEF Core, queueVars, bestVars, Stage, Results, Received, InLive,
     Delivered, Outside

LEMMA PlanStartDead == IInv /\ StartDead => Plan!Pretrain
  <1> SUFFICES ASSUME IInv, StartDead PROVE Plan!Pretrain
    OBVIOUS
  <1>1. /\ main = "start" /\ main' = "dead wait" /\ Pretrains /\ ~InLive /\ ~InLive'
        /\ dead' = AllRunning /\ UNCHANGED <<perf, pipe, model_used>>
    BY DEF StartDead, InLive, queueVars, bestVars
  <1>2. \A n \in Nodes : dead[n] = "none" /\ dead'[n] = "running"
    BY <1>1 DEF IInv, DeadInv, AllRunning
  <1>3. Results = {} /\ Received = {} /\ Results' = {} /\ Received' = {}
    BY <1>1, <1>2 DEF Results, Received, Delivered, Outside
  <1>4. Stage = "idle" /\ Stage' = "pretraining"
    BY <1>1 DEF Stage
  <1> QED
    BY <1>1, <1>3, <1>4 DEF Plan!Pretrain

(* Ends of the waits and of the loops.                                      *)
LEMMA PlanWaits ==
  ASSUME \/ WaitFor("dead wait", "dead get") \/ GotAllDead
         \/ WaitFor("live wait", "live get") \/ GotAllLive
  PROVE  UNCHANGED Plan!phaseVars
  <1>1. /\ UNCHANGED <<dead, live, perf, pipe, model_used, reports>>
        /\ \/ /\ main \in {"dead wait", "dead get", "dead join"}
              /\ main' \in {"dead wait", "dead get", "dead join"}
           \/ /\ main \in {"live wait", "live get", "live join"}
              /\ main' \in {"live wait", "live get", "live join"}
    BY DEF WaitFor, GotAllDead, GotAllLive, queueVars, bestVars
  <1>2. Stage' = Stage
    BY <1>1 DEF Stage
  <1>3. InLive' <=> InLive
    BY <1>1 DEF InLive
  <1>4. Results' = Results /\ Received' = Received
    BY <1>1, <1>3 DEF Results, Received, Delivered, Outside
  <1> QED
    BY <1>1, <1>2, <1>4, PlanStutter

LEMMA PlanGetDead == IInv /\ GetDead => \E n \in Nodes : Plan!Choose(n)
  <1> SUFFICES ASSUME IInv, GetDead PROVE \E n \in Nodes : Plan!Choose(n)
    OBVIOUS
  <1>1. /\ main = "dead get" /\ main' = "dead get" /\ ~InLive /\ ~InLive'
        /\ pipe # <<>> /\ pipe' = Tail(pipe) /\ qsize' = qsize - 1
        /\ UNCHANGED <<dead, live, perf, reports>>
    BY DEF GetDead, InLive
  <1>2. PICK h : h = Head(pipe)
    OBVIOUS
  <1>3. model_used' \in {h, model_used}
    BY <1>2 DEF GetDead, bestVars
  <1>4. dead \in [Nodes -> ChildStates] /\ pipe \in Seq(Nodes) /\ qsize \in Int
    BY TypeFacts DEF IInv
  <1>5. Queue(dead, Received, pipe, qsize) /\ Received \in SUBSET Nodes
    BY <1>1, DeadReceived
  <1>6. PICK got \in SUBSET Nodes : got = Received \union {h}
    BY <1>1, <1>2, <1>4, <1>5, HeadTail
  <1>7. h \in Nodes /\ h \notin Received /\ Queue(dead', got, pipe', qsize')
    BY <1>1, <1>2, <1>4, <1>5, <1>6, QueueGet
  <1>8. pipe' \in Seq(Nodes)
    BY <1>1, <1>4, HeadTail
  <1>9. got = Received'
    BY <1>1, <1>7, <1>8, ReceivedAre DEF Received
  <1>10. /\ model_used' \in got
         /\ \A m \in got : perf'[m] <= perf'[model_used']
    <2>1. DeadInv'
      BY GetDeadStep
    <2>2. PICK received \in SUBSET Nodes : Queue(dead', received, pipe', qsize') /\ Best(received)'
      BY <1>1, <2>1 DEF DeadInv
    <2>3. received = got
      BY <1>7, <1>8, <2>2, ReceivedAre
    <2> QED
      BY <1>6, <2>2, <2>3 DEF Best
  <1>11. Results = Nodes /\ Results' = Nodes
    BY <1>1 DEF IInv, DeadInv, Results, Delivered
  <1>12. Stage = "pretraining" /\ Stage' = "pretraining"
    BY <1>1 DEF Stage
  <1>13. Plan!Receive(h)
    BY <1>1, <1>6, <1>7, <1>9, <1>11, <1>12 DEF Plan!Receive
  <1>14. Plan!Choose(h)
    BY <1>1, <1>3, <1>9, <1>10, <1>12, <1>13 DEF Plan!Choose
  <1> QED
    BY <1>7, <1>14

LEMMA PlanTimeout == IInv /\ GetDeadTimeout => Plan!GiveUp
  <1> SUFFICES ASSUME IInv, GetDeadTimeout PROVE Plan!GiveUp
    OBVIOUS
  <1>1. /\ main = "dead get" /\ main' = "failed" /\ ~InLive /\ ~InLive'
        /\ UNCHANGED <<dead, perf, pipe, model_used>>
    BY DEF GetDeadTimeout, InLive, queueVars, bestVars
  <1>2. Results' = Results /\ Received' = Received
    BY <1>1 DEF Results, Received, Delivered, Outside
  <1>3. Stage = "pretraining" /\ Stage' = "failed"
    BY <1>1 DEF Stage
  <1> QED
    BY <1>1, <1>2, <1>3 DEF Plan!GiveUp

LEMMA PlanStartLive == IInv /\ StartLive => Plan!Learn
  <1> SUFFICES ASSUME IInv, StartLive PROVE Plan!Learn
    OBVIOUS
  <1>1. /\ main' = "live wait" /\ InLive' /\ ~InLive /\ live' = AllRunning
        /\ UNCHANGED <<perf, model_used, reports>>
    BY DEF StartLive, InLive, bestVars
  <1>2. reports = {} /\ \A n \in Nodes : live'[n] = "running"
    BY <1>1 DEF IInv, DeadInv, AllRunning
  <1>3. Results' = {} /\ Received' = {}
    BY <1>1, <1>2 DEF Results, Received, Delivered
  <1>4. Stage' = "learning"
    BY <1>1 DEF Stage
  <1>5. CASE main = "start"
    BY <1>1, <1>3, <1>4, <1>5 DEF StartLive, Plan!Learn, Stage
  <1>6. CASE main = "dead join"
    <2>1. qsize = 0 /\ Delivered(dead) = Nodes /\ pipe \in Seq(Nodes)
      BY <1>1, <1>6 DEF IInv, DeadInv, States
    <2>2. Received = Nodes
      BY <1>1, <2>1, DeadReceived, QueueEmpty
    <2>3. Stage = "pretraining"
      BY <1>6 DEF Stage
    <2> QED
      BY <1>1, <1>3, <1>4, <2>2, <2>3 DEF Plan!Learn
  <1> QED
    BY <1>5, <1>6 DEF StartLive

LEMMA PlanGetLive == IInv /\ GetLive => \E n \in Nodes : Plan!Collect(n)
  <1> SUFFICES ASSUME IInv, GetLive PROVE \E n \in Nodes : Plan!Collect(n)
    OBVIOUS
  <1>1. /\ main = "live get" /\ main' = "live get" /\ InLive /\ InLive' /\ pipe # <<>>
        /\ reports' = reports \union {Head(pipe)}
        /\ UNCHANGED <<dead, live, perf, model_used>>
    BY DEF GetLive, InLive, bestVars
  <1>2. /\ Queue(live, reports, pipe, qsize) /\ reports \in SUBSET Nodes
        /\ live \in [Nodes -> ChildStates] /\ pipe \in Seq(Nodes) /\ qsize \in Int
        /\ Delivered(live) = Nodes
    BY <1>1 DEF IInv, LiveInv, States
  <1>3. PICK h : h = Head(pipe)
    OBVIOUS
  <1>4. h \in Nodes /\ h \notin reports
    BY <1>1, <1>2, <1>3, QueueGet
  <1>5. Received = reports /\ Received' = reports'
    BY <1>1 DEF Received
  <1>6. Results = Nodes /\ Results' = Nodes
    BY <1>1, <1>2 DEF Results, Delivered
  <1>7. Stage = "learning" /\ Stage' = "learning"
    BY <1>1 DEF Stage
  <1>8. Plan!Collect(h)
    BY <1>1, <1>3, <1>4, <1>5, <1>6, <1>7 DEF Plan!Collect, Plan!Receive
  <1> QED
    BY <1>4, <1>8

LEMMA PlanJoinAll == IInv /\ JoinAll => Plan!Report
  <1> SUFFICES ASSUME IInv, JoinAll PROVE Plan!Report
    OBVIOUS
  <1>1. /\ main = "live join" /\ main' = "done" /\ InLive /\ InLive'
        /\ UNCHANGED <<live, perf, model_used, reports>>
    BY DEF JoinAll, InLive, bestVars
  <1>2. Received = Nodes /\ Received' = Nodes /\ Results' = Results
    BY <1>1 DEF IInv, LiveInv, Received, Results, Delivered
  <1>3. Stage = "learning" /\ Stage' = "done"
    BY <1>1 DEF Stage
  <1> QED
    BY <1>1, <1>2, <1>3 DEF Plan!Report

LEMMA PlanDeadEnds ==
  ASSUME IInv, NEW n \in Nodes, DeadEnds(n)
  PROVE  Plan!Put(n) \/ UNCHANGED Plan!phaseVars
  <1>1. dead[n] = "running" /\ UNCHANGED <<main, live, pipe, model_used, reports>>
    BY DEF DeadEnds, bestVars
  <1>2. ~InLive /\ ~InLive'
    BY <1>1 DEF IInv, LiveInv, InLive
  <1>3. main = "dead wait"
    <2>1. n \notin Delivered(dead)
      BY <1>1 DEF Delivered
    <2> QED
      BY <1>1, <1>2, <2>1 DEF IInv, DeadInv, States, InLive
  <1>4. Stage = "pretraining" /\ Stage' = "pretraining"
    BY <1>1, <1>3 DEF Stage
  <1>5. dead \in [Nodes -> ChildStates]
    BY TypeFacts DEF IInv
  <1>6. \A m \in Nodes : dead'[m] = "exited" <=> dead[m] = "exited"
    BY <1>1, <1>5 DEF DeadEnds
  <1>7. Received' = Received
    BY <1>1, <1>2, <1>6 DEF Received, Outside
  <1>8. CASE dead' = [dead EXCEPT ![n] = "put"]
    <2>1. n \notin Results /\ Results' = Results \union {n}
      BY <1>1, <1>2, <1>5, <1>8 DEF Results, Delivered
    <2>2. \E w \in Performances : perf' = [perf EXCEPT ![n] = w]
      BY <1>1, <1>5, <1>8 DEF DeadEnds
    <2> QED
      BY <1>1, <1>4, <1>7, <2>1, <2>2 DEF Plan!Put
  <1>9. CASE dead' = [dead EXCEPT ![n] = "failed"]
    <2>1. Results' = Results
      BY <1>1, <1>2, <1>5, <1>9 DEF Results, Delivered
    <2>2. perf' = perf
      BY <1>1, <1>5, <1>9 DEF DeadEnds
    <2> QED
      BY <1>1, <1>4, <1>7, <2>1, <2>2, PlanStutter
  <1> QED
    BY <1>8, <1>9 DEF DeadEnds

LEMMA PlanLiveEnds ==
  ASSUME IInv, NEW n \in Nodes, LiveEnds(n)
  PROVE  Plan!Put(n) \/ UNCHANGED Plan!phaseVars
  <1>1. live[n] = "running" /\ UNCHANGED <<main, dead, perf, pipe, model_used, reports>>
    BY DEF LiveEnds, bestVars
  <1>2. InLive /\ InLive'
    BY <1>1 DEF IInv, DeadInv, InLive
  <1>3. main = "live wait"
    <2>1. n \notin Delivered(live)
      BY <1>1 DEF Delivered
    <2> QED
      BY <1>2, <2>1 DEF IInv, LiveInv
  <1>4. Stage = "learning" /\ Stage' = "learning" /\ Received' = Received
    BY <1>1, <1>2, <1>3 DEF Stage, Received
  <1>5. live \in [Nodes -> ChildStates]
    BY TypeFacts DEF IInv
  <1>6. CASE live' = [live EXCEPT ![n] = "put"]
    <2>1. n \notin Results /\ Results' = Results \union {n}
      BY <1>1, <1>2, <1>5, <1>6 DEF Results, Delivered
    <2> QED
      BY <1>1, <1>4, <2>1 DEF Plan!Put
  <1>7. CASE live' = [live EXCEPT ![n] = "failed"]
    <2>1. Results' = Results
      BY <1>1, <1>2, <1>5, <1>7 DEF Results, Delivered
    <2> QED
      BY <1>1, <1>4, <2>1, PlanStutter
  <1> QED
    BY <1>6, <1>7 DEF LiveEnds

(* A flushed result is in the pipe: it has not been received by that.       *)
LEMMA PlanFlush ==
  ASSUME IInv, NEW n \in Nodes, Flush(n)
  PROVE  UNCHANGED Plan!phaseVars
  <1>1. UNCHANGED <<main, perf, model_used, reports>>
    BY DEF Flush, bestVars
  <1>2. Stage' = Stage /\ InLive' = InLive
    BY <1>1 DEF Stage, InLive
  <1>3. /\ dead \in [Nodes -> ChildStates] /\ live \in [Nodes -> ChildStates]
        /\ pipe \in Seq(Nodes)
    BY TypeFacts DEF IInv
  <1>4. Results' = Results
    BY <1>2, <1>3 DEF Flush, Results, Delivered
  <1>5. CASE InLive
    BY <1>1, <1>2, <1>4, <1>5, PlanStutter DEF Received
  <1>6. CASE ~InLive
    <2>1. /\ dead[n] = "put" /\ dead' = [dead EXCEPT ![n] = "exited"]
          /\ Written(pipe, n, pipe')
      BY <1>6 DEF Flush, IInv, DeadInv, Written
    <2>2. PICK received \in SUBSET Nodes : received = Received
      BY <1>6, DeadReceived
    <2>3. Queue(dead, received, pipe, qsize) /\ qsize \in Int
      BY <1>6, <2>2, DeadReceived DEF IInv, States
    <2>4. Queue(dead', received, pipe', qsize)
      BY <1>3, <2>1, <2>3, QueueFlush
    <2>5. pipe' \in Seq(Nodes)
      BY <1>3, <2>1 DEF Written
    <2>6. Received' = received
      BY <1>2, <1>6, <2>4, <2>5, ReceivedAre DEF Received
    <2> QED
      BY <1>1, <1>2, <1>4, <2>2, <2>6, PlanStutter
  <1> QED
    BY <1>5, <1>6

LEMMA PlanStep == IInv /\ [Next]_vars => [Plan!Next]_Plan!phaseVars
  <1> SUFFICES ASSUME IInv, [Next]_vars PROVE [Plan!Next]_Plan!phaseVars
    OBVIOUS
  <1>1. CASE MainStep
    BY <1>1, PlanStartDead, PlanWaits, PlanGetDead, PlanStartLive, PlanGetLive, PlanJoinAll
       DEF MainStep, Plan!Next
  <1>2. CASE GetDeadTimeout
    BY <1>2, PlanTimeout DEF Plan!Next
  <1>3. ASSUME NEW n \in Nodes, ChildStep(n) PROVE [Plan!Next]_Plan!phaseVars
    <2>1. CASE LiveStep(n)
      BY <2>1, PlanQuiet DEF LiveStep, Core
    <2> QED
      BY <1>3, <2>1, PlanDeadEnds, PlanLiveEnds, PlanFlush DEF ChildStep, Plan!Next
  <1>4. CASE SimStep \/ ScriptStep \/ Terminating \/ UNCHANGED vars
    BY <1>4, PlanQuiet DEF SimStep, ScriptStep, Terminating, vars, Core
  <1> QED
    BY <1>1, <1>2, <1>3, <1>4 DEF Next

(* main.py with its queue, the children with their feeder threads and the   *)
(* busy waits keep the promise of Phases: each phase's results are looked   *)
(* at when they are all there, each once, the best model wins, and the      *)
(* learning starts only when everybody's pretraining has been received.     *)
THEOREM PhasesRefined == Spec => KeepsPhases
  <1> QED
    BY PlanInit, PlanStep, Invariance, PTL DEF Spec, KeepsPhases, Plan!Spec

(* The busy wait is entered with nothing received, and left before anything *)
(* is.                                                                      *)
Waiting == main \in {"dead wait", "live wait"}
WaitInv == Waiting => Received = {}

LEMMA WaitStep == IInv /\ WaitInv /\ [Next]_vars => WaitInv'
  <1> SUFFICES ASSUME IInv, WaitInv, [Next]_vars, Waiting' PROVE Received' = {}
    BY DEF WaitInv
  <1>1. CASE MainStep
    <2>1. StartDead \/ StartLive
      BY <1>1 DEF MainStep, WaitFor, GetDead, GotAllDead, GetLive, GotAllLive, JoinAll, Waiting
    <2>2. CASE StartDead
      <3>1. main = "start" /\ main' = "dead wait" /\ UNCHANGED pipe /\ dead' = AllRunning
        BY <2>2 DEF StartDead, queueVars
      <3>2. ~InLive' /\ \A n \in Nodes : dead'[n] = "running"
        BY <3>1 DEF InLive, AllRunning
      <3> QED
        BY <3>2 DEF Received, Outside
    <2>3. CASE StartLive
      BY <2>3, PlanStartLive DEF Plan!Learn
    <2> QED
      BY <2>1, <2>2, <2>3
  <1>2. CASE GetDeadTimeout
    BY <1>2 DEF GetDeadTimeout, Waiting
  <1>3. ASSUME NEW n \in Nodes, ChildStep(n) PROVE Received' = {}
    <2>1. UNCHANGED main
      BY <1>3 DEF ChildStep, DeadEnds, LiveStep, LiveEnds, Flush
    <2>2. CASE LiveStep(n)
      BY <2>2, PlanQuiet, <2>1 DEF LiveStep, Core, Plan!phaseVars, WaitInv, Waiting
    <2>3. CASE ~LiveStep(n)
      BY <1>3, <2>1, <2>3, PlanDeadEnds, PlanLiveEnds, PlanFlush
         DEF ChildStep, Plan!Put, Plan!phaseVars, WaitInv, Waiting
    <2> QED
      BY <2>2, <2>3
  <1>4. CASE SimStep \/ ScriptStep \/ Terminating \/ UNCHANGED vars
    BY <1>4, PlanQuiet DEF SimStep, ScriptStep, Terminating, vars, Core, Plan!phaseVars,
       WaitInv, Waiting
  <1> QED
    BY <1>1, <1>2, <1>3, <1>4 DEF Next

(* main.py spins for ever only after a failure: if every child of the phase *)
(* it waits for has ended and none of them died, the number of objects in   *)
(* the queue is the one it waits for.                                       *)
SpinsOnlyAfterFailure ==
    LET c == IF InLive THEN live ELSE dead IN
    Waiting /\ (\A n \in Nodes : c[n] = "exited") => qsize = NumAgents

(* Nothing but a dead child makes a busy wait endless, for any number of    *)
(* nodes: the safety half of what EndsUnlessFailure says.                   *)
THEOREM SpinsCorrect == Spec => []SpinsOnlyAfterFailure
  <1>1. IInv /\ WaitInv => SpinsOnlyAfterFailure
    <2> SUFFICES ASSUME IInv, WaitInv, Waiting, NEW c, c = IF InLive THEN live ELSE dead,
                        \A n \in Nodes : c[n] = "exited"
                 PROVE  qsize = NumAgents
      BY DEF SpinsOnlyAfterFailure
    <2>1. Queue(c, {}, pipe, qsize)
      BY DeadReceived DEF IInv, LiveInv, WaitInv, Received
    <2>2. Delivered(c) = Nodes
      BY DEF Delivered
    <2>3. qsize = Cardinality(Nodes) - Cardinality({})
      BY <2>1, <2>2 DEF Queue
    <2> QED
      BY <2>3, NodesFinite, FS_EmptySet
  <1>2. Init => WaitInv
    BY DEF Init, WaitInv, Waiting
  <1> QED
    BY <1>1, <1>2, WaitStep, Invariance, PTL DEF Spec

-------------------------------------------------------------------------------
(* The bridge inside the experiment: every step of the experiment is one of *)
(* OpenGym or leaves it alone, so that all that is proved in OpenGymProofs  *)
(* holds of the live run.  GP has the same definitions as Gym, and the      *)
(* theorems about them.                                                     *)

GP == INSTANCE OpenGymProofs

LEMMA BridgeAssumption == GP!OpenGymAssumption
  BY ExperimentAssumption DEF GP!OpenGymAssumption, FirstCheckedRound, MayInterrupt

LEMMA SameInit == Gym!Init <=> GP!Init
  BY DEF Gym!Interfaces, Gym!Agents, Gym!Attached, Gym!Ports, Gym!simVars,
         Gym!wireVars, Gym!agentVars, Gym!vars, Gym!NoReq, Gym!SimInitMsg,
         Gym!EnvStateMsg, Gym!Requests, Gym!Replies, Gym!SimPcs, Gym!AgentPcs,
         Gym!Init, GP!Interfaces, GP!Agents, GP!Attached, GP!Ports, GP!simVars,
         GP!wireVars, GP!agentVars, GP!vars, GP!NoReq, GP!SimInitMsg, GP!EnvStateMsg,
         GP!Requests, GP!Replies, GP!SimPcs, GP!AgentPcs, GP!Init

LEMMA SameTypes == Gym!TypeOK <=> GP!TypeOK
  BY DEF Gym!Interfaces, Gym!Agents, Gym!Attached, Gym!Ports, Gym!simVars,
         Gym!wireVars, Gym!agentVars, Gym!vars, Gym!NoReq, Gym!SimInitMsg,
         Gym!EnvStateMsg, Gym!Requests, Gym!Replies, Gym!SimPcs, Gym!AgentPcs,
         Gym!TypeOK, GP!Interfaces, GP!Agents, GP!Attached, GP!Ports, GP!simVars,
         GP!wireVars, GP!agentVars, GP!vars, GP!NoReq, GP!SimInitMsg, GP!EnvStateMsg,
         GP!Requests, GP!Replies, GP!SimPcs, GP!AgentPcs, GP!TypeOK

LEMMA SameSimStep == Gym!SimStep <=> GP!SimStep
  BY DEF Gym!Interfaces, Gym!Agents, Gym!Attached, Gym!Ports, Gym!simVars,
         Gym!wireVars, Gym!agentVars, Gym!vars, Gym!NoReq, Gym!SimInitMsg,
         Gym!EnvStateMsg, Gym!Requests, Gym!Replies, Gym!SimPcs, Gym!AgentPcs,
         Gym!GetGameOver, Gym!IsGameOver, Gym!SendState, Gym!Notify, Gym!RecvInitAck,
         Gym!RecvAct, Gym!RunReturns, Gym!NotifySimulationEnd, Gym!SimExits,
         Gym!SimStep, GP!Interfaces, GP!Agents, GP!Attached, GP!Ports, GP!simVars,
         GP!wireVars, GP!agentVars, GP!vars, GP!NoReq, GP!SimInitMsg, GP!EnvStateMsg,
         GP!Requests, GP!Replies, GP!SimPcs, GP!AgentPcs, GP!GetGameOver,
         GP!IsGameOver, GP!SendState, GP!Notify, GP!RecvInitAck, GP!RecvAct,
         GP!RunReturns, GP!NotifySimulationEnd, GP!SimExits, GP!SimStep

LEMMA SameAgentStep == \A n \in Nodes : Gym!AgentStep(n) <=> GP!AgentStep(n)
  BY DEF Gym!Interfaces, Gym!Agents, Gym!Attached, Gym!Ports, Gym!simVars,
         Gym!wireVars, Gym!agentVars, Gym!vars, Gym!NoReq, Gym!SimInitMsg,
         Gym!EnvStateMsg, Gym!Requests, Gym!Replies, Gym!SimPcs, Gym!AgentPcs,
         Gym!Goto, Gym!InitializeEnv, Gym!RxEnvState, Gym!FirstState, Gym!SendActions,
         Gym!SendRefused, Gym!StepReturns, Gym!Close, Gym!CloseDrain, Gym!CloseSend,
         Gym!AgentStep, GP!Interfaces, GP!Agents, GP!Attached, GP!Ports, GP!simVars,
         GP!wireVars, GP!agentVars, GP!vars, GP!NoReq, GP!SimInitMsg, GP!EnvStateMsg,
         GP!Requests, GP!Replies, GP!SimPcs, GP!AgentPcs, GP!Goto, GP!InitializeEnv,
         GP!RxEnvState, GP!FirstState, GP!SendActions, GP!SendRefused, GP!StepReturns,
         GP!Close, GP!CloseDrain, GP!CloseSend, GP!AgentStep

LEMMA BridgeStep == [Next]_vars => [Gym!Next]_gymVars /\ [GP!Next]_gymVars
  <1> SUFFICES ASSUME [Next]_vars PROVE [Gym!Next]_gymVars /\ [GP!Next]_gymVars
    OBVIOUS
  <1>1. CASE UNCHANGED gymVars
    BY <1>1
  <1>2. CASE SimStep
    BY <1>2, SameSimStep DEF SimStep, Gym!Next, GP!Next
  <1>3. ASSUME NEW n \in Nodes, LiveStep(n)
        PROVE  [Gym!Next]_gymVars /\ [GP!Next]_gymVars
    <2>1. Gym!AgentStep(n) /\ GP!AgentStep(n)
      BY <1>3, SameAgentStep DEF LiveStep
    <2>2. n \in Gym!Agents /\ n \in GP!Agents
      BY DEF Nodes, Gym!Agents, GP!Agents
    <2> QED
      BY <2>1, <2>2 DEF Gym!Next, GP!Next
  <1>4. \/ UNCHANGED gymVars \/ SimStep \/ \E n \in Nodes : LiveStep(n)
    <2>1. UNCHANGED vars => UNCHANGED gymVars
      BY DEF vars
    <2>2. MainStep \/ GetDeadTimeout \/ ScriptStep => UNCHANGED gymVars
      BY DEF MainStep, StartDead, WaitFor, GetDead, GotAllDead, StartLive, GetLive,
             GotAllLive, JoinAll, GetDeadTimeout, ScriptStep
    <2>3. \A n \in Nodes : DeadEnds(n) \/ LiveEnds(n) \/ Flush(n) => UNCHANGED gymVars
      BY DEF DeadEnds, LiveEnds, Flush
    <2> QED
      BY <2>1, <2>2, <2>3 DEF Next, ChildStep, Terminating
  <1> QED
    BY <1>1, <1>2, <1>3, <1>4

LEMMA SameVars == UNCHANGED gymVars => UNCHANGED Gym!vars /\ UNCHANGED GP!vars
  BY DEF gymVars, Gym!vars, Gym!simVars, Gym!wireVars, Gym!agentVars,
         GP!vars, GP!simVars, GP!wireVars, GP!agentVars

(* A whole experiment implements the bridge: the children that are started  *)
(* late, that fail and that end are still agents that take turns.           *)
THEOREM BridgeRefined == Spec => Gym!Spec
  <1>1. Init => Gym!Init
    BY DEF Init
  <1>2. [Next]_vars => [Gym!Next]_Gym!vars
    BY BridgeStep, SameVars
  <1> QED
    BY <1>1, <1>2, PTL DEF Spec, Gym!Spec

LEMMA BridgeHolds == Spec => GP!Spec
  <1>1. Init => GP!Init
    BY SameInit DEF Init
  <1>2. [Next]_vars => [GP!Next]_GP!vars
    BY BridgeStep, SameVars
  <1> QED
    BY <1>1, <1>2, PTL DEF Spec, GP!Spec

(* Type correctness of the experiment: of the bridge inside it, and of the  *)
(* counter of the queue, which stays between 0 and the number of nodes.     *)
THEOREM TypeCorrect == Spec => []TypeOK
  <1>1. Spec => GP!Spec
    BY BridgeHolds
  <1>2. GP!Spec => []GP!TypeOK
    BY BridgeAssumption, GP!TypeCorrect
  <1>3. IInv => qsize \in 0 .. NumAgents
    <2> SUFFICES ASSUME IInv PROVE qsize \in 0 .. NumAgents
      OBVIOUS
    <2>1. \E c, received : /\ received \in SUBSET Nodes
                           /\ Queue(c, received, pipe, qsize)
      <3>1. CASE InLive
        BY <3>1 DEF IInv, LiveInv, States
      <3>2. CASE ~InLive
        BY <3>2 DEF IInv, DeadInv
      <3> QED
        BY <3>1, <3>2
    <2>2. PICK c, received : /\ received \in SUBSET Nodes
                             /\ Queue(c, received, pipe, qsize)
      BY <2>1
    <2>3. received \subseteq Delivered(c) /\ Delivered(c) \in SUBSET Nodes
      BY <2>2 DEF Queue, Delivered
    <2>4. Cardinality(received) <= Cardinality(Delivered(c))
      BY <2>3, AllOfThem, FS_Subset
    <2>5. /\ Cardinality(received) \in Nat /\ Cardinality(Delivered(c)) \in Nat
          /\ Cardinality(Delivered(c)) <= NumAgents /\ NumAgents \in Nat
      BY <2>2, <2>3, AllOfThem, NodesFinite
    <2> QED
      BY <2>2, <2>4, <2>5 DEF Queue
  <1>4. IInv /\ GP!TypeOK => TypeOK
    BY <1>3, SameTypes DEF TypeOK, IInv, States
  <1> QED
    BY <1>1, <1>2, <1>4, Invariance, PTL

(* Why a child dies, if results can always be computed: its node closed a   *)
(* single window, so that the first message its loop got was the last.      *)
FailuresExplained ==
    ~MayFail => \A n \in Nodes :
        /\ dead[n] # "failed"
        /\ live[n] = "failed" => win[n] = 2 /\ simEnd[n] /\ rounds[n] = 1

FailInv ==
    ~MayFail => \A n \in Nodes :
        dead[n] # "failed" /\ (live[n] = "failed" => pc[n] = "crashed")

(* A crashed client takes no further step.                                  *)
LEMMA CrashedStays ==
  ASSUME GP!TypeOK, NEW n \in Nodes, NEW m \in Nodes, GP!AgentStep(m), pc[n] = "crashed"
  PROVE  pc'[n] = "crashed"
  <1>1. pc[m] # "crashed" /\ \E l : pc' = [pc EXCEPT ![m] = l]
    BY DEF GP!AgentStep, GP!InitializeEnv, GP!FirstState, GP!SendActions, GP!SendRefused,
       GP!StepReturns, GP!Close, GP!CloseDrain, GP!CloseSend, GP!Goto
  <1>2. pc \in [Nodes -> GP!AgentPcs]
    BY DEF GP!TypeOK, GP!Agents, Nodes
  <1> QED
    BY <1>1, <1>2

LEMMA FailStep == IInv /\ GP!TypeOK /\ FailInv /\ [Next]_vars => FailInv'
  <1> SUFFICES ASSUME IInv, GP!TypeOK, FailInv, [Next]_vars, ~MayFail, NEW n \in Nodes
               PROVE  dead'[n] # "failed" /\ (live'[n] = "failed" => pc'[n] = "crashed")
    BY DEF FailInv
  <1>a. dead[n] # "failed" /\ (live[n] = "failed" => pc[n] = "crashed")
    BY DEF FailInv
  <1>b. dead \in [Nodes -> ChildStates] /\ live \in [Nodes -> ChildStates]
    BY DEF IInv, States
  <1>1. /\ dead[n] # "failed" /\ (live[n] = "failed" => pc[n] = "crashed")
        /\ dead \in [Nodes -> ChildStates] /\ live \in [Nodes -> ChildStates]
    BY <1>a, <1>b
  <1>2. CASE MainStep \/ GetDeadTimeout
    <2>1. UNCHANGED pc /\ dead' \in {dead, AllRunning} /\ live' \in {live, AllRunning}
      BY <1>2 DEF MainStep, StartDead, WaitFor, GetDead, GotAllDead, StartLive, GetLive,
         GotAllLive, JoinAll, GetDeadTimeout, gymVars
    <2> QED
      BY <1>1, <2>1 DEF AllRunning
  <1>3. ASSUME NEW m \in Nodes, ChildStep(m)
        PROVE  dead'[n] # "failed" /\ (live'[n] = "failed" => pc'[n] = "crashed")
    <2>1. CASE DeadEnds(m)
      BY <1>1, <2>1 DEF DeadEnds, gymVars
    <2>2. CASE LiveStep(m)
      BY <1>1, <2>2, SameAgentStep, CrashedStays DEF LiveStep
    <2>3. CASE LiveEnds(m)
      BY <1>1, <2>3 DEF LiveEnds, gymVars
    <2>4. CASE Flush(m)
      BY <1>1, <2>4 DEF Flush, gymVars
    <2> QED
      BY <1>3, <2>1, <2>2, <2>3, <2>4 DEF ChildStep
  <1>4. CASE SimStep
    <2>1. UNCHANGED <<pc, dead, live>>
      BY <1>4, SameSimStep DEF SimStep, GP!SimStep, GP!Notify, GP!RecvInitAck, GP!RecvAct,
         GP!RunReturns, GP!NotifySimulationEnd, GP!SimExits, GP!agentVars
    <2> QED
      BY <1>1, <2>1
  <1>5. CASE ScriptStep \/ Terminating \/ UNCHANGED vars
    BY <1>1, <1>5 DEF ScriptStep, Terminating, vars, gymVars
  <1> QED
    BY <1>2, <1>3, <1>4, <1>5 DEF Next

(* From the wire to the report: if the results of an episode can always be  *)
(* computed, a child of the live phase dies, and main.py spins, only for a  *)
(* node that closed exactly one window; no pretraining dies.                *)
THEOREM FailuresAreShortEpisodes == Spec => []FailuresExplained
  <1>1. GP!Spec => []GP!TypeOK
    BY BridgeAssumption, GP!TypeCorrect
  <1>2. GP!Spec => []GP!CrashOnlyWhenShort
    BY BridgeAssumption, GP!CrashCorrect
  <1>3. FailInv /\ GP!CrashOnlyWhenShort => FailuresExplained
    <2> SUFFICES ASSUME FailInv, GP!CrashOnlyWhenShort, ~MayFail, NEW n \in Nodes
                 PROVE  /\ dead[n] # "failed"
                        /\ live[n] = "failed" => win[n] = 2 /\ simEnd[n] /\ rounds[n] = 1
      BY DEF FailuresExplained
    <2>1. dead[n] # "failed" /\ (live[n] = "failed" => pc[n] = "crashed")
      BY DEF FailInv
    <2>2. n \in GP!Agents
      BY DEF GP!Agents, Nodes
    <2>3. pc[n] = "crashed" => win[n] = 2 /\ simEnd[n] /\ rounds[n] = 1
      BY <2>2 DEF GP!CrashOnlyWhenShort
    <2> QED
      BY <2>1, <2>3
  <1>4. Init => FailInv
    BY DEF Init, FailInv
  <1> QED
    BY <1>1, <1>2, <1>3, <1>4, BridgeHolds, FailStep, Invariance, PTL DEF Spec
===============================================================================
