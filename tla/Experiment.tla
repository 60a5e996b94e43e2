------------------------------ MODULE Experiment ------------------------------
(***************************************************************************)
(* A whole experiment: run.Py starts the jam simulation and main.py, which *)
(* pretrains one model per node in child processes on recorded data ("dead *)
(* mode"), keeps the best one, and then starts one child process per node  *)
(* that learns on the running simulation ("live mode").                    *)
(*                                                                         *)
(* The live children are the agents of OpenGym; here they also get started *)
(* and, once their loop is over, compute and send their results.  All the  *)
(* children report through one multiprocessing.Queue.  Its qsize() counts  *)
(* an object as soon as put() is called; the object can be got only after  *)
(* the child's feeder thread has written it to the pipe.                   *)
(***************************************************************************)
EXTENDS Naturals, Sequences, FiniteSets

CONSTANTS NumInterfaces, NumAgents, NumNodes, MinWindows, MaxWindows, \* see OpenGym
          PretrainMode,   \* the pretrain_mode argument, as main.py gets it
          Performances,   \* the performances a pretraining can have
          MayFail,        \* results may not be computable (see JamAgent)
          MayBeLate       \* a feeder thread may take longer than get's timeout

FirstCheckedRound == 2     \* execute.py ignores the done of init_execute
MayInterrupt == FALSE

VARIABLES simPc, cur, initSent, simEnd, win, req, rep, owes,
          pc, newStateRx, envStopped, gameOver, obs, rounds, \* see OpenGym
          main,       \* where main.py is
          script,     \* where run.Py is
          dead, live, \* the child processes of the two phases
          perf,       \* the performance a pretraining child has put
          qsize,      \* q.qsize()
          pipe,       \* the senders of the objects in the pipe, in order
          best_perf, model_used, \* the best model so far, by its node (0: None)
          reports     \* the nodes whose results have been received

Gym == INSTANCE OpenGym

gymVars == <<simPc, cur, initSent, simEnd, win, req, rep, owes,
             pc, newStateRx, envStopped, gameOver, obs, rounds>>
queueVars == <<qsize, pipe>>
bestVars  == <<best_perf, model_used>>
vars == <<gymVars, main, script, dead, live, perf, queueVars, bestVars, reports>>

Nodes == 1 .. NumAgents

ASSUME ExperimentAssumption ==
    /\ NumAgents \in 1 .. 9        \* the values of nb_node main.py accepts
    /\ NumInterfaces \in Nat /\ NumNodes \in Nat
    /\ MinWindows \in Nat /\ MaxWindows \in Nat
    /\ Performances \subseteq Nat /\ Performances # {}
    /\ MayFail \in BOOLEAN /\ MayBeLate \in BOOLEAN

(* A process that has not been started, runs, died of an exception, has put *)
(* its result in the queue, or has exited after flushing it.                *)
ChildStates == {"none", "running", "failed", "put", "exited"}
Ended(c) == c \in {"failed", "exited"}

(* bool() of the command line argument                                      *)
Pretrains == PretrainMode # ""

Init == /\ Gym!Init
        /\ main = "start" /\ script = "join simulation"
        /\ dead = [n \in Nodes |-> "none"] /\ live = [n \in Nodes |-> "none"]
        /\ perf = [n \in Nodes |-> 0]
        /\ qsize = 0 /\ pipe = <<>>
        /\ best_perf = 0 /\ model_used = 0
        /\ reports = {}

-------------------------------------------------------------------------------
(* main.py                                                                  *)

AllRunning == [n \in Nodes |-> "running"]

StartDead == /\ main = "start" /\ Pretrains
             /\ main' = "dead wait"
             /\ dead' = AllRunning
             /\ UNCHANGED <<gymVars, script, live, perf, queueVars, bestVars, reports>>

(* Bug: any result in the queue ends the busy wait.                         *)
BugWaitForAny(here, next) ==
    /\ main = here
    /\ qsize > 0
    /\ main' = next
    /\ UNCHANGED <<gymVars, script, dead, live, perf, queueVars, bestVars, reports>>

(* Bug: the busy wait waits for one result too many.                        *)
BugWaitForMore(here, next) ==
    /\ main = here
    /\ qsize > NumAgents
    /\ main' = next
    /\ UNCHANGED <<gymVars, script, dead, live, perf, queueVars, bestVars, reports>>

(* The busy wait of either phase.                                           *)
WaitFor(here, next) ==
    /\ main = here
    /\ qsize = NumAgents
    /\ main' = next
    /\ UNCHANGED <<gymVars, script, dead, live, perf, queueVars, bestVars, reports>>

(* Bug: the last model is kept whatever it is worth.                        *)
BugGetDeadLast ==
    /\ main = "dead get" /\ qsize > 0 /\ pipe # <<>>
    /\ pipe' = Tail(pipe) /\ qsize' = qsize - 1
    /\ model_used' = Head(pipe) /\ best_perf' = perf[Head(pipe)]
    /\ UNCHANGED <<gymVars, main, script, dead, live, perf, reports>>

(* One q.get(timeout=10): the received model replaces the best one unless   *)
(* it is worse.                                                             *)
GetDead == LET n == Head(pipe) IN
           /\ main = "dead get" /\ qsize > 0 /\ pipe # <<>>
           /\ pipe' = Tail(pipe) /\ qsize' = qsize - 1
           /\ IF perf[n] >= best_perf
                THEN best_perf' = perf[n] /\ model_used' = n
                ELSE UNCHANGED bestVars
           /\ UNCHANGED <<gymVars, main, script, dead, live, perf, reports>>

(* Nothing came through the pipe in time: queue.Empty, which ends main.py.  *)
GetDeadTimeout == /\ MayBeLate
                  /\ main = "dead get" /\ qsize > 0 /\ pipe = <<>>
                  /\ main' = "failed"
                  /\ UNCHANGED <<gymVars, script, dead, live, perf, queueVars,
                                 bestVars, reports>>

(* Bug: the loop leaves the last object in the queue.                       *)
BugGotAllDead == /\ main = "dead get" /\ qsize <= 1
                 /\ main' = "dead join"
                 /\ UNCHANGED <<gymVars, script, dead, live, perf, queueVars, bestVars,
                                reports>>

(* q.qsize() > 0 no longer holds.                                           *)
GotAllDead == /\ main = "dead get" /\ qsize = 0
              /\ main' = "dead join"
              /\ UNCHANGED <<gymVars, script, dead, live, perf, queueVars, bestVars, reports>>

(* join() on every child of the pretraining, then the live phase is started *)
(* with a copy of the best model for each node.                             *)
StartLive == /\ \/ main = "start" /\ ~Pretrains
                \/ main = "dead join" /\ \A n \in Nodes : Ended(dead[n])
             /\ main' = "live wait"
             /\ live' = AllRunning
             /\ UNCHANGED <<gymVars, script, dead, perf, queueVars, bestVars, reports>>

GetLive == /\ main = "live get" /\ qsize > 0 /\ pipe # <<>>
           /\ pipe' = Tail(pipe) /\ qsize' = qsize - 1
           /\ reports' = reports \union {Head(pipe)}
           /\ UNCHANGED <<gymVars, main, script, dead, live, perf, bestVars>>

GotAllLive == /\ main = "live get" /\ qsize = 0
              /\ main' = "live join"
              /\ UNCHANGED <<gymVars, script, dead, live, perf, queueVars, bestVars, reports>>

(* join() on every child of both phases; then the report is written.        *)
JoinAll == /\ main = "live join"
           /\ \A n \in Nodes : Ended(live[n]) /\ (dead[n] = "none" \/ Ended(dead[n]))
           /\ main' = "done"
           /\ UNCHANGED <<gymVars, script, dead, live, perf, queueVars, bestVars, reports>>

MainStep == \/ StartDead
            \/ WaitFor("dead wait", "dead get") \/ GetDead \/ GotAllDead
            \/ StartLive
            \/ WaitFor("live wait", "live get") \/ GetLive \/ GotAllLive
            \/ JoinAll

-------------------------------------------------------------------------------
(* The child processes.                                                     *)

(* execute with live = False: the results, or an exception.                 *)
DeadEnds(n) == /\ dead[n] = "running"
               /\ \/ /\ \E p \in Performances : perf' = [perf EXCEPT ![n] = p]
                     /\ dead' = [dead EXCEPT ![n] = "put"]
                     /\ qsize' = qsize + 1
                  \/ /\ MayFail
                     /\ dead' = [dead EXCEPT ![n] = "failed"]
                     /\ UNCHANGED <<perf, qsize>>
               /\ UNCHANGED <<gymVars, main, script, live, pipe, bestVars, reports>>

(* execute with live = True, up to the end of its loop ...                  *)
LiveStep(n) == /\ live[n] = "running"
               /\ Gym!AgentStep(n)
               /\ UNCHANGED <<main, script, dead, live, perf, queueVars, bestVars, reports>>

(* ... and its results, or an exception in the loop or in the results.      *)
LiveEnds(n) == /\ live[n] = "running"
               /\ \/ /\ pc[n] = "finished"
                     /\ live' = [live EXCEPT ![n] = "put"]
                     /\ qsize' = qsize + 1
                  \/ /\ pc[n] = "crashed" \/ (MayFail /\ pc[n] = "finished")
                     /\ live' = [live EXCEPT ![n] = "failed"]
                     /\ UNCHANGED qsize
               /\ UNCHANGED <<gymVars, main, script, dead, perf, pipe, bestVars, reports>>

(* The feeder thread writes the object, and only then can the child exit.   *)
Flush(n) == /\ \/ /\ dead[n] = "put"
                  /\ dead' = [dead EXCEPT ![n] = "exited"] /\ UNCHANGED live
               \/ /\ live[n] = "put"
                  /\ live' = [live EXCEPT ![n] = "exited"] /\ UNCHANGED dead
            /\ pipe' = Append(pipe, n)
            /\ UNCHANGED <<gymVars, main, script, perf, qsize, bestVars, reports>>

ChildStep(n) == DeadEnds(n) \/ LiveStep(n) \/ LiveEnds(n) \/ Flush(n)

-------------------------------------------------------------------------------
(* The simulation, and run.Py, which joins it and then main.py.             *)
SimStep == /\ Gym!SimStep
           /\ UNCHANGED <<main, script, dead, live, perf, queueVars, bestVars, reports>>

ScriptStep ==
    /\ \/ /\ script = "join simulation" /\ simPc \in {"exited", "killed"}
          /\ script' = "join agents"
       \/ /\ script = "join agents" /\ main \in {"done", "failed"}
          /\ script' = "end"
    /\ UNCHANGED <<gymVars, main, dead, live, perf, queueVars, bestVars, reports>>

Terminating == script = "end" /\ UNCHANGED vars

Next == \/ MainStep
        \/ GetDeadTimeout
        \/ \E n \in Nodes : ChildStep(n)
        \/ SimStep
        \/ ScriptStep
        \/ Terminating

Spec == Init /\ [][Next]_vars

(* Every process is scheduled; a timeout is never owed.                     *)
Fairness == /\ WF_vars(MainStep) /\ WF_vars(SimStep) /\ WF_vars(ScriptStep)
            /\ \A n \in Nodes : WF_vars(ChildStep(n))

FairSpec == Spec /\ Fairness
-------------------------------------------------------------------------------
(* Type invariant.                                                          *)
TypeOK == /\ Gym!TypeOK
          /\ main \in {"start", "dead wait", "dead get", "dead join", "live wait",
                       "live get", "live join", "done", "failed"}
          /\ script \in {"join simulation", "join agents", "end"}
          /\ dead \in [Nodes -> ChildStates] /\ live \in [Nodes -> ChildStates]
          /\ perf \in [Nodes -> Performances \union {0}]
          /\ qsize \in 0 .. NumAgents
          /\ pipe \in Seq(Nodes)
          /\ best_perf \in Performances \union {0} /\ model_used \in Nodes \union {0}
          /\ reports \subseteq Nodes

InLive == main \in {"live wait", "live get", "live join", "done"}

(* The two phases share one queue and their messages have different shapes: *)
(* once a live child runs, everything counted or in the pipe is a live      *)
(* result that has not been received, and every object is received once.    *)
QueueHoldsOnePhase ==
    InLive => /\ \A n \in Nodes : dead[n] \in {"none", "exited"}
              /\ qsize = Cardinality({n \in Nodes : live[n] \in {"put", "exited"}})
                           - Cardinality(reports)
              /\ \A k \in DOMAIN pipe : live[pipe[k]] = "exited" /\ pipe[k] \notin reports

(* The live phase starts from a model no pretraining beats.                 *)
BestModelUsed ==
    InLive /\ Pretrains =>
        /\ model_used # 0
        /\ \A n \in Nodes : perf[n] <= perf[model_used]

(* The report is written from the results of every node.                    *)
ReportComplete == main = "done" => reports = Nodes

(* Nobody looks at a child that died: from the first failure on main.py     *)
(* stays where it is for ever, in the busy wait of the phase the child      *)
(* belonged to, whatever the other children still put in the queue.         *)
AFailureIsForEver ==
    [][(\E n \in Nodes : "failed" \in {dead[n], live[n]}) => UNCHANGED main]_vars

(* Everything ends if nobody fails: no child dies before it puts its result *)
(* and no get of the pretraining gives up.                                  *)
EndsUnlessFailure ==
    \/ <>(script = "end" /\ main = "done")
    \/ <>(main = "failed" \/ \E n \in Nodes : "failed" \in {dead[n], live[n]})

(* Everything ends: run.Py joins the simulation and main.py, which has      *)
(* joined every child ("Waiting for every subprocesses to finish.").        *)
ExperimentEnds == <>(script = "end" /\ main = "done")

(* main.py keeps the promise of Phases.  The pretrainings received are the  *)
(* ones that were flushed and are no longer in the pipe.                    *)
Stage == IF main = "start" THEN "idle"
         ELSE IF main \in {"dead wait", "dead get", "dead join"} THEN "pretraining"
         ELSE IF main \in {"live wait", "live get", "live join"} THEN "learning"
         ELSE main
Delivered(c) == {n \in Nodes : c[n] \in {"put", "exited"}}
Outside(p)   == {n \in Nodes : \A k \in DOMAIN p : p[k] # n}
Results  == Delivered(IF InLive THEN live ELSE dead)
Received == IF InLive THEN reports ELSE {n \in Outside(pipe) : dead[n] = "exited"}

Plan == INSTANCE Phases WITH stage <- Stage, put <- Results, got <- Received,
                             worth <- perf, chosen <- model_used
KeepsPhases == Plan!Spec
===============================================================================
