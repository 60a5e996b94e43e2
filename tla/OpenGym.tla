------------------------------- MODULE OpenGym --------------------------------
(***************************************************************************)
(* The OpenGym bridge between one ns-3 simulation and its learning agents. *)
(*                                                                         *)
(* The simulation is a single thread that owns one OpenGymInterface per    *)
(* port (sim.cc).  An interface talks to the Python process that bound the *)
(* same port over one ZeroMQ REQ/REP pair: it sends a request and blocks   *)
(* the whole simulation until the reply is in.  Each Python process is a   *)
(* Ns3Env on top of a Ns3ZmqBridge, driven either by execute.py (the       *)
(* learning agents) or by ns3test.py (the interactive test client).        *)
(*                                                                         *)
(* Ports are numbered from 1; port p is TCP port 5555 + p (Ns3gymLinker).  *)
(* Interface p exists for p <= NumInterfaces (--agentNum), has a data      *)
(* collector behind it for p <= NumNodes, and is served by a Python        *)
(* process for p <= NumAgents (main.py's nb_node).                         *)
(***************************************************************************)
EXTENDS Naturals

CONSTANTS NumInterfaces,      \* --agentNum of the jam simulation
          NumAgents,          \* Python processes, nb_node of main.py
          NumNodes,           \* honest nodes with a data collector attached
          FirstCheckedRound,  \* first round whose done flag the client tests
          MayInterrupt,       \* Ctrl-C can reach the clients (ns3test.py)
          MinWindows,         \* bound: windows per node before Run() returns
          MaxWindows          \* bound: windows per node

ASSUME OpenGymAssumption ==
    /\ NumInterfaces \in Nat /\ NumAgents \in Nat /\ NumNodes \in Nat
    /\ FirstCheckedRound \in {1, 2}
    /\ MayInterrupt \in BOOLEAN
    /\ MinWindows \in Nat /\ MaxWindows \in Nat

Interfaces == 1 .. NumInterfaces
Agents     == 1 .. NumAgents
Attached   == {i \in Interfaces : i <= NumNodes}
Ports      == Interfaces \union Agents

VARIABLES
  (* the simulation process *)
  simPc,     \* "run", "init" / "act" (blocked in recv), "end", "exited", "killed"
  cur,       \* the interface the simulation is blocked on, or the next to end
  initSent,  \* m_initSimMsgSent of each interface
  simEnd,    \* m_simEnd of each interface
  win,       \* number of state messages each interface has sent
  (* the ZeroMQ pair of each port *)
  req,       \* the request in flight
  rep,       \* the reply in flight
  owes,      \* the REP socket has received a request and not yet replied
  (* the Python processes *)
  pc,         \* where the client is
  newStateRx, \* Ns3ZmqBridge.newStateRx
  envStopped, \* Ns3ZmqBridge.envStopped
  gameOver,   \* Ns3ZmqBridge.gameOver
  obs,        \* number of the window in Ns3ZmqBridge.obsData (0: none yet)
  rounds      \* Linker.i: windows handed to the learner

simVars   == <<simPc, cur, initSent, simEnd, win>>
wireVars  == <<req, rep, owes>>
agentVars == <<pc, newStateRx, envStopped, gameOver, obs, rounds>>
vars      == <<simVars, wireVars, agentVars>>

-------------------------------------------------------------------------------
(* Messages.  A state message carries the number of the window it describes *)
(* and whether it is the game-over message; a reply is the init ack, an     *)
(* action (stopSimReq false) or a stop command (stopSimReq true).           *)

NoReq == [kind |-> "none", over |-> FALSE, win |-> 0]

SimInitMsg == [kind |-> "init", over |-> FALSE, win |-> 0]
EnvStateMsg(over, w) == [kind |-> "state", over |-> over, win |-> w]

Requests == [kind : {"none", "init", "state"}, over : BOOLEAN, win : Nat]
Replies  == {"none", "ack", "act", "stop"}

SimPcs   == {"run", "init", "act", "end", "exited", "killed"}
AgentPcs == {"init", "first", "step", "rx", "leave", "drain", "stop",
             "finished", "crashed"}

Init == /\ simPc = "run" /\ cur = 1
        /\ initSent = [i \in Interfaces |-> FALSE]
        /\ simEnd   = [i \in Interfaces |-> FALSE]
        /\ win      = [p \in Ports |-> 0]
        /\ req  = [p \in Ports |-> NoReq]
        /\ rep  = [p \in Ports |-> "none"]
        /\ owes = [p \in Ports |-> FALSE]
        /\ pc         = [a \in Agents |-> "init"]
        /\ newStateRx = [a \in Agents |-> FALSE]
        /\ envStopped = [a \in Agents |-> FALSE]
        /\ gameOver   = [a \in Agents |-> FALSE]
        /\ obs        = [a \in Agents |-> 0]
        /\ rounds     = [a \in Agents |-> 0]

-------------------------------------------------------------------------------
(* The simulation side: OpenGymInterface.                                   *)

(* MyGymEnv never ends an episode by itself, so a game-over message always  *)
(* carries the reason SimulationEnd.                                        *)
GetGameOver(i)       == FALSE
IsGameOver(i, ended) == GetGameOver(i) \/ ended

(* The second half of NotifyCurrentState up to the blocking receive; ended  *)
(* is the value of m_simEnd it reads.                                       *)
SendState(i, ended) ==
    /\ win' = [win EXCEPT ![i] = @ + 1]
    /\ req' = [req EXCEPT ![i] = EnvStateMsg(IsGameOver(i, ended), win[i] + 1)]
    /\ simPc' = "act"
    /\ cur' = i

(* Bug: the interface does not wait for the acknowledgement of its init.    *)
BugNotifyInitNoWait(i) ==
    /\ simPc = "run"
    /\ i \in Attached
    /\ win[i] < MaxWindows
    /\ IF initSent[i]
         THEN SendState(i, simEnd[i]) /\ UNCHANGED initSent
         ELSE /\ initSent' = [initSent EXCEPT ![i] = TRUE]
              /\ req' = [req EXCEPT ![i] = SimInitMsg]
              /\ cur' = i
              /\ UNCHANGED <<simPc, win>>
    /\ UNCHANGED <<simEnd, rep, owes, agentVars>>

(* A window closed on node i: the first notification sends the init         *)
(* message, every later one the state itself; both block.                   *)
Notify(i) == /\ simPc = "run"
             /\ i \in Attached
             /\ win[i] < MaxWindows
             /\ IF initSent[i]
                  THEN SendState(i, simEnd[i]) /\ UNCHANGED initSent
                  ELSE /\ initSent' = [initSent EXCEPT ![i] = TRUE]
                       /\ req' = [req EXCEPT ![i] = SimInitMsg]
                       /\ simPc' = "init"
                       /\ cur' = i
                       /\ UNCHANGED win
             /\ UNCHANGED <<simEnd, rep, owes, agentVars>>

(* Init() returns: NotifyCurrentState goes on with the state message.       *)
RecvInitAck == /\ simPc = "init"
               /\ rep[cur] = "ack"
               /\ rep' = [rep EXCEPT ![cur] = "none"]
               /\ UNCHANGED simEnd
               /\ SendState(cur, simEnd[cur])
               /\ UNCHANGED <<initSent, owes, agentVars>>

(* Bug: the stop request is obeyed before m_simEnd is looked at.            *)
BugRecvActStopFirst ==
    /\ simPc = "act"
    /\ rep[cur] \in {"act", "stop"}
    /\ rep' = [rep EXCEPT ![cur] = "none"]
    /\ simPc' = IF rep[cur] = "stop" THEN "killed"
                ELSE IF simEnd[cur] THEN "end" ELSE "run"
    /\ cur' = IF simEnd[cur] THEN cur + 1 ELSE cur
    /\ UNCHANGED <<initSent, simEnd, win, req, owes, agentVars>>

(* Bug: a receive that does not block; no reply counts as no action.        *)
BugRecvActNoWait ==
    /\ simPc = "act"
    /\ rep' = [rep EXCEPT ![cur] = "none"]
    /\ simPc' = IF simEnd[cur] THEN "end" ELSE "run"
    /\ cur' = IF simEnd[cur] THEN cur + 1 ELSE cur
    /\ UNCHANGED <<initSent, simEnd, win, req, owes, agentVars>>

(* The reply to a state message: at the end of the simulation it is dropped *)
(* whatever it says, otherwise a stop request exits the whole process and   *)
(* an action is executed.                                                   *)
RecvAct == /\ simPc = "act"
           /\ rep[cur] \in {"act", "stop"}
           /\ rep' = [rep EXCEPT ![cur] = "none"]
           /\ \/ /\ simEnd[cur]
                 /\ simPc' = "end"
                 /\ cur' = cur + 1
              \/ /\ ~simEnd[cur]
                 /\ simPc' = IF rep[cur] = "stop" THEN "killed" ELSE "run"
                 /\ UNCHANGED cur
           /\ UNCHANGED <<initSent, simEnd, win, req, owes, agentVars>>

(* Simulator::Run() returns after the simulated time of the scenario.       *)
RunReturns == /\ simPc = "run"
              /\ \A i \in Attached : win[i] >= MinWindows
              /\ simPc' = "end"
              /\ cur' = 1
              /\ UNCHANGED <<initSent, simEnd, win, wireVars, agentVars>>

(* Bug: the loop over the interfaces stops at the first unused one.         *)
BugNotifyEndBreak ==
    /\ simPc = "end"
    /\ cur \in Interfaces
    /\ simEnd' = [simEnd EXCEPT ![cur] = TRUE]
    /\ \/ initSent[cur] /\ SendState(cur, TRUE)
       \/ ~initSent[cur] /\ cur' = NumInterfaces + 1 /\ UNCHANGED <<simPc, win, req>>
    /\ UNCHANGED <<initSent, rep, owes, agentVars>>

(* ScenarioSetup's loop over the interfaces: an interface that never sent   *)
(* its init message is skipped, so its agent hears nothing at all.          *)
NotifySimulationEnd ==
    /\ simPc = "end"
    /\ cur \in Interfaces
    /\ simEnd' = [simEnd EXCEPT ![cur] = TRUE]
    /\ \/ initSent[cur] /\ SendState(cur, TRUE)
       \/ ~initSent[cur] /\ cur' = cur + 1 /\ UNCHANGED <<simPc, win, req>>
    /\ UNCHANGED <<initSent, rep, owes, agentVars>>

(* Bug: the interfaces are told of the end once more, from Destroy().       *)
BugSimExitsTellAgain == /\ simPc = "end"
                        /\ cur \notin Interfaces
                        /\ cur' = 1
                        /\ UNCHANGED <<simPc, initSent, simEnd, win, wireVars, agentVars>>

SimExits == /\ simPc = "end"
            /\ cur \notin Interfaces
            /\ simPc' = "exited"
            /\ UNCHANGED <<cur, initSent, simEnd, win, wireVars, agentVars>>

SimStep == \/ \E i \in Interfaces : Notify(i)
           \/ RecvInitAck
           \/ RecvAct
           \/ RunReturns
           \/ NotifySimulationEnd
           \/ SimExits

-------------------------------------------------------------------------------
(* The Python side: Ns3ZmqBridge, Ns3Env and their client.                  *)

Goto(a, l) == pc' = [pc EXCEPT ![a] = l]

(* The constructor blocks for the init message and acknowledges it.         *)
InitializeEnv(a) ==
    /\ pc[a] = "init"
    /\ req[a].kind = "init"
    /\ req' = [req EXCEPT ![a] = NoReq]
    /\ rep' = [rep EXCEPT ![a] = "ack"]
    /\ Goto(a, "first")
    /\ UNCHANGED <<simVars, owes, newStateRx, envStopped, gameOver, obs, rounds>>

(* Bug: the game-over message is left for the client to answer.             *)
BugRxEnvStateNoStop(a) ==
    IF newStateRx[a]
      THEN UNCHANGED <<wireVars, newStateRx, envStopped, gameOver, obs>>
      ELSE LET m == req[a] IN
           /\ m.kind = "state"
           /\ req' = [req EXCEPT ![a] = NoReq]
           /\ obs' = [obs EXCEPT ![a] = m.win]
           /\ gameOver' = [gameOver EXCEPT ![a] = m.over]
           /\ envStopped' = [envStopped EXCEPT ![a] = @ \/ m.over]
           /\ owes' = [owes EXCEPT ![a] = TRUE]
           /\ newStateRx' = [newStateRx EXCEPT ![a] = TRUE]
           /\ UNCHANGED rep

(* rx_env_state: nothing if the last state was not answered yet; otherwise  *)
(* a blocking receive.  The game-over message is answered on the spot with  *)
(* a stop command, any other is left for the client to answer.              *)
RxEnvState(a) ==
    IF newStateRx[a]
      THEN UNCHANGED <<wireVars, newStateRx, envStopped, gameOver, obs>>
      ELSE LET m == req[a] IN
           /\ m.kind = "state"
           /\ req' = [req EXCEPT ![a] = NoReq]
           /\ obs' = [obs EXCEPT ![a] = m.win]
           /\ gameOver' = [gameOver EXCEPT ![a] = m.over]
           /\ envStopped' = [envStopped EXCEPT ![a] = @ \/ m.over]
           /\ rep' = [rep EXCEPT ![a] = IF m.over THEN "stop" ELSE @]
           /\ owes' = [owes EXCEPT ![a] = ~m.over]
           /\ newStateRx' = [newStateRx EXCEPT ![a] = TRUE]

(* The end of Ns3Env.__init__; reset() on a clean environment does nothing, *)
(* so this first window never reaches the learner.                          *)
FirstState(a) == /\ pc[a] = "first"
                 /\ RxEnvState(a)
                 /\ Goto(a, "step")
                 /\ UNCHANGED <<simVars, rounds>>

(* Bug: newStateRx is not cleared, so the next rx_env_state returns the     *)
(* window just answered.                                                    *)
BugSendActionsKeepState(a) ==
    /\ pc[a] = "step"
    /\ owes[a]
    /\ rep' = [rep EXCEPT ![a] = "act"]
    /\ owes' = [owes EXCEPT ![a] = FALSE]
    /\ Goto(a, "rx")
    /\ UNCHANGED <<simVars, req, newStateRx, envStopped, gameOver, obs, rounds>>

(* step(): send_actions on a socket that owes a reply ...                   *)
SendActions(a) ==
    /\ pc[a] = "step"
    /\ owes[a]
    /\ rep' = [rep EXCEPT ![a] = "act"]
    /\ owes' = [owes EXCEPT ![a] = FALSE]
    /\ newStateRx' = [newStateRx EXCEPT ![a] = FALSE]
    /\ Goto(a, "rx")
    /\ UNCHANGED <<simVars, req, envStopped, gameOver, obs, rounds>>

(* ... and on one that does not: ZMQError, which nobody catches.            *)
SendRefused(a) == /\ pc[a] = "step"
                  /\ ~owes[a]
                  /\ Goto(a, "crashed")
                  /\ UNCHANGED <<simVars, wireVars, newStateRx, envStopped,
                                 gameOver, obs, rounds>>

(* Bug: the done flag is tested one round too late.                         *)
BugStepReturnsLate(a) ==
    /\ pc[a] = "rx"
    /\ RxEnvState(a)
    /\ rounds' = [rounds EXCEPT ![a] = @ + 1]
    /\ Goto(a, IF gameOver'[a] /\ rounds[a] >= FirstCheckedRound
                 THEN "leave" ELSE "step")
    /\ UNCHANGED simVars

(* step() returns: Ns3gymLinker.next() counts the round and the client      *)
(* leaves its loop on done, if it tests done in this round.                 *)
StepReturns(a) ==
    /\ pc[a] = "rx"
    /\ RxEnvState(a)
    /\ rounds' = [rounds EXCEPT ![a] = @ + 1]
    /\ Goto(a, IF gameOver'[a] /\ rounds[a] + 1 >= FirstCheckedRound
                 THEN "leave" ELSE "step")
    /\ UNCHANGED simVars

(* KeyboardInterrupt inside the client's loop; finally: env.close().        *)
Interrupt(a) == /\ MayInterrupt
                /\ pc[a] \in {"step", "rx"}
                /\ Goto(a, "leave")
                /\ UNCHANGED <<simVars, wireVars, newStateRx, envStopped,
                               gameOver, obs, rounds>>

(* close(): nothing to do once the simulation has announced its end.        *)
Close(a) == /\ pc[a] = "leave"
            /\ envStopped' = [envStopped EXCEPT ![a] = TRUE]
            /\ Goto(a, IF envStopped[a] THEN "finished" ELSE "drain")
            /\ UNCHANGED <<simVars, wireVars, newStateRx, gameOver, obs, rounds>>

(* close() on a running simulation takes the next state message ...         *)
CloseDrain(a) == /\ pc[a] = "drain"
                 /\ RxEnvState(a)
                 /\ Goto(a, "stop")
                 /\ UNCHANGED <<simVars, rounds>>

(* Bug: the second reply is put on the wire instead of being refused.       *)
BugCloseSendTwice(a) ==
    /\ pc[a] = "stop"
    /\ rep' = [rep EXCEPT ![a] = "stop"]
    /\ newStateRx' = [newStateRx EXCEPT ![a] = FALSE]
    /\ owes' = [owes EXCEPT ![a] = FALSE]
    /\ Goto(a, "finished")
    /\ UNCHANGED <<simVars, req, envStopped, gameOver, obs, rounds>>

(* Bug: the answer is an ordinary action, without stopSimReq.               *)
BugCloseSendAct(a) ==
    /\ pc[a] = "stop"
    /\ \/ /\ owes[a]
          /\ rep' = [rep EXCEPT ![a] = "act"]
          /\ newStateRx' = [newStateRx EXCEPT ![a] = FALSE]
       \/ ~owes[a] /\ UNCHANGED <<rep, newStateRx>>
    /\ owes' = [owes EXCEPT ![a] = FALSE]
    /\ Goto(a, "finished")
    /\ UNCHANGED <<simVars, req, envStopped, gameOver, obs, rounds>>

(* ... and answers it with a stop command.  If rx_env_state has answered it *)
(* already, the second send raises and close() swallows the exception.      *)
CloseSend(a) ==
    /\ pc[a] = "stop"
    /\ \/ /\ owes[a]
          /\ rep' = [rep EXCEPT ![a] = "stop"]
          /\ newStateRx' = [newStateRx EXCEPT ![a] = FALSE]
       \/ ~owes[a] /\ UNCHANGED <<rep, newStateRx>>
    /\ owes' = [owes EXCEPT ![a] = FALSE]
    /\ Goto(a, "finished")
    /\ UNCHANGED <<simVars, req, envStopped, gameOver, obs, rounds>>

AgentStep(a) == \/ InitializeEnv(a) \/ FirstState(a)
                \/ SendActions(a) \/ SendRefused(a) \/ StepReturns(a)
                \/ Close(a) \/ CloseDrain(a) \/ CloseSend(a)

-------------------------------------------------------------------------------
(* The run is over: no process has anything left to do.                     *)
Terminating == /\ simPc \in {"exited", "killed"}
               /\ \A a \in Agents : pc[a] \in {"finished", "crashed"}
               /\ UNCHANGED vars

Next == \/ SimStep
        \/ \E a \in Agents : AgentStep(a) \/ Interrupt(a)
        \/ Terminating

Spec == Init /\ [][Next]_vars

(* The simulator runs until its stop time, a blocked receive returns when a *)
(* message is there, and no Python process is suspended for ever.  Ctrl-C   *)
(* is never owed.                                                           *)
Fairness == WF_vars(SimStep) /\ \A a \in Agents : WF_vars(AgentStep(a))

FairSpec == Spec /\ Fairness
-------------------------------------------------------------------------------
(* Type invariant.                                                          *)
TypeOK == /\ simPc \in SimPcs
          /\ cur \in Nat
          /\ initSent \in [Interfaces -> BOOLEAN]
          /\ simEnd \in [Interfaces -> BOOLEAN]
          /\ win \in [Ports -> Nat]
          /\ req \in [Ports -> Requests]
          /\ rep \in [Ports -> Replies]
          /\ owes \in [Ports -> BOOLEAN]
          /\ pc \in [Agents -> AgentPcs]
          /\ newStateRx \in [Agents -> BOOLEAN]
          /\ envStopped \in [Agents -> BOOLEAN]
          /\ gameOver \in [Agents -> BOOLEAN]
          /\ obs \in [Agents -> Nat]
          /\ rounds \in [Agents -> Nat]

Quiet(p)  == req[p] = NoReq /\ rep[p] = "none" /\ ~owes[p]
Blocked   == simPc \in {"init", "act"}

(* Lockstep: over all ports together there is never more than one exchange  *)
(* under way, it is on the interface the simulation is blocked on, and it   *)
(* is in exactly one place: in the request, in the agent's hands, or in the *)
(* reply (OpenGymInterface::Init and NotifyCurrentState, bridge recv/send). *)
Lockstep ==
    /\ \A p \in Ports : (Blocked /\ p = cur) \/ Quiet(p)
    /\ Blocked => \/ req[cur] # NoReq /\ rep[cur] = "none" /\ ~owes[cur]
                  \/ req[cur] = NoReq /\ rep[cur] # "none" /\ ~owes[cur]
                  \/ req[cur] = NoReq /\ rep[cur] = "none" /\ owes[cur]

(* The learner decides on the present: in its loop it has been handed every *)
(* window but the constructor's exactly once and in order, and a window it  *)
(* has yet to answer is the one the simulation is standing at.              *)
NoWindowLostOrStale ==
    \A a \in Agents : pc[a] \in {"step", "rx"} =>
        /\ rounds[a] + 1 = obs[a]
        /\ obs[a] \in {win[a], win[a] - 1}
        /\ owes[a] => obs[a] = win[a]

(* A client dies of a refused send only when the simulation ended after a   *)
(* single window of its node, which execute.py's init_execute does not      *)
(* notice because it ignores the done flag of its first step.               *)
CrashOnlyWhenShort ==
    \A a \in Agents : pc[a] = "crashed" =>
        FirstCheckedRound = 2 /\ win[a] = 2 /\ simEnd[a] /\ rounds[a] = 1

(* A simulation that ends by itself leaves no client waiting for it, but    *)
(* for those whose node never closed a window.                              *)
NoOrphan ==
    simPc = "exited" =>
        \A a \in Agents : pc[a] \in {"init", "first", "rx"} => pc[a] = "init" /\ win[a] = 0

(* The stop command that answers the game-over message does not stop the    *)
(* simulation for the others: it is killed only on behalf of a client that  *)
(* was interrupted before it saw the end.                                   *)
KilledOnlyByInterrupt ==
    simPc = "killed" =>
        MayInterrupt /\ \E a \in Agents : pc[a] = "finished" /\ ~gameOver[a]

(* A client that has something to do by itself, or has what it waits for.   *)
CanMove(a) == \/ pc[a] \in {"step", "leave", "stop"}
              \/ pc[a] = "init" /\ req[a].kind = "init"
              \/ pc[a] \in {"first", "rx", "drain"} /\ (newStateRx[a] \/ req[a].kind = "state")

(* Both sides block in their receives, and a client may be interrupted      *)
(* between any two of them: a simulation that is blocked on a client has a  *)
(* reply it understands, or the client can move.                            *)
NoCircularWait ==
    Blocked /\ cur \in Agents =>
        \/ rep[cur] \in IF simPc = "init" THEN {"ack"} ELSE {"act", "stop"}
        \/ CanMove(cur)

(* While some agent is thinking about its window the simulation stands      *)
(* still: no clock, no other node and no other agent moves under it.        *)
SimulationFrozen == [][(\E a \in Agents : owes[a]) => UNCHANGED simVars]_vars

(* The game-over message is the last of its port.  Whatever is called after *)
(* it, the step nobody checks in init_execute, close() or an interrupt, no  *)
(* second stop command goes out; and the simulation sends nothing more: it  *)
(* would block for ever on a client that does not listen any longer.        *)
GameOverIsLast ==
    [][\A a \in Agents : gameOver[a] =>
          /\ gameOver'[a] /\ obs'[a] = obs[a]
          /\ win'[a] = win[a] /\ req'[a] = NoReq
          /\ rep'[a] \in {rep[a], "none"}]_vars

(* Every agent and the simulation come to their end (main.py joins all its  *)
(* subprocesses, run.Py joins both sides), but for the clients of nodes     *)
(* that closed no window and those that died of an episode of one.          *)
EveryoneFinishes ==
    <>(simPc = "exited" /\ \A a \in Agents : \/ pc[a] \in {"finished", "crashed"}
                                             \/ pc[a] = "init" /\ win[a] = 0)

(* An interrupted client brings the simulation down, if it is not at its    *)
(* end already.                                                             *)
InterruptStopsSimulation ==
    \A a \in Agents : pc[a] = "drain" ~> simPc \in {"killed", "exited"}

(* The bridge implements the agents taking turns.                           *)
Turns == INSTANCE GymTurns WITH holding <- [a \in Agents |-> owes[a]],
                                seen <- obs, done <- gameOver
TurnTaking == Turns!Spec
===============================================================================
