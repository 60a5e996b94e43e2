---------------------------- MODULE OpenGymProofs -----------------------------
(***************************************************************************)
(* Machine-checked proofs about OpenGym, for any number of interfaces,     *)
(* agents, nodes and windows.                                              *)
(***************************************************************************)
EXTENDS OpenGym, TLAPS

(* The inductive strengthening the proofs of OpenGymProofs rest on.         *)

Posted(p) == simPc = "act" /\ cur = p /\ req[p] # NoReq

(* What can be on the wire: an init exchange before the first window of a   *)
(* port, then state messages that carry the window the simulation is at.    *)
WireInv ==
    /\ Blocked => cur \in Interfaces
    /\ simPc = "init" => /\ req[cur] \in {NoReq, SimInitMsg}
                         /\ rep[cur] \in {"none", "ack"}
                         /\ ~owes[cur] /\ win[cur] = 0 /\ initSent[cur]
    /\ simPc = "act" => /\ rep[cur] # "ack" /\ win[cur] > 0 /\ initSent[cur]
                        /\ simEnd[cur] => win[cur] > 1
                        /\ req[cur] \in {NoReq, EnvStateMsg(simEnd[cur], win[cur])}
    /\ \A i \in Interfaces :
          initSent[i] => (win[i] > 0 \/ (simPc = "init" /\ cur = i))
    /\ \A p \in Ports : win[p] > 0 => p \in Interfaces /\ initSent[p]

(* The interfaces told of the end are those the final loop has reached.     *)
EndInv ==
    /\ simPc \in {"run", "init"} => \A i \in Interfaces : ~simEnd[i]
    /\ simPc = "act" => \/ \A i \in Interfaces : ~simEnd[i]
                        \/ \A i \in Interfaces : simEnd[i] <=> i <= cur
    /\ simPc = "end" => cur > 0 /\ \A i \in Interfaces : simEnd[i] <=> i < cur
    /\ simPc = "exited" => \A i \in Interfaces : simEnd[i]

(* Where a client is determines what it has seen.                           *)
ClientOK(a) ==
    /\ win[a] = IF Posted(a) THEN obs[a] + 1 ELSE obs[a]
    /\ pc[a] \in {"init", "first"} =>
          obs[a] = 0 /\ rounds[a] = 0 /\ ~newStateRx[a] /\ ~envStopped[a]
    /\ pc[a] # "init" => a \in Interfaces /\ initSent[a]
    /\ pc[a] \in {"step", "rx"} => obs[a] = rounds[a] + 1
    /\ pc[a] = "step" => owes[a] = ~gameOver[a]
    /\ pc[a] = "rx" => ~newStateRx[a] /\ ~owes[a]
    /\ pc[a] = "crashed" => gameOver[a] /\ obs[a] = 2 /\ rounds[a] = 1
    /\ pc[a] \in {"step", "crashed"} /\ gameOver[a] =>
          FirstCheckedRound = 2 /\ rounds[a] = 1
    /\ gameOver[a] => /\ envStopped[a] /\ ~owes[a] /\ a \in Interfaces
                      /\ pc[a] \in {"step", "leave", "stop", "finished", "crashed"}
                      /\ simEnd[a] /\ ~Posted(a)
    /\ a \in Interfaces /\ simEnd[a] /\ initSent[a] => gameOver[a] \/ Posted(a)
    /\ pc[a] = "leave" /\ ~envStopped[a] => MayInterrupt
    /\ pc[a] \in {"drain", "stop"} => MayInterrupt
    /\ rep[a] = "stop" =>
          simEnd[a] \/ (MayInterrupt /\ pc[a] = "finished" /\ ~gameOver[a])
    /\ rep[a] # "none" => pc[a] # "init"

ClientInv == \A a \in Agents : ClientOK(a)

(* Only a Python process writes replies, and a killed simulation was killed *)
(* by an interrupted client.                                                *)
KillInv == /\ \A p \in Ports : rep[p] # "none" => p \in Agents
           /\ KilledOnlyByInterrupt

IInv == TypeOK /\ Lockstep /\ WireInv /\ EndInv /\ ClientInv /\ KillInv

-------------------------------------------------------------------------------
LEMMA MessageTypes ==
  /\ NoReq \in Requests /\ SimInitMsg \in Requests
  /\ \A o \in BOOLEAN, w \in Nat : EnvStateMsg(o, w) \in Requests
BY DEF Requests, NoReq, SimInitMsg, EnvStateMsg

(* A receive that does not return at once takes the state message the       *)
(* simulation is blocked on.                                                *)
Receives(a) ==
    /\ simPc = "act" /\ cur = a /\ a \in Interfaces /\ Posted(a)
    /\ ~owes[a] /\ rep[a] = "none" /\ ~gameOver[a]
    /\ win[a] = obs[a] + 1 /\ (simEnd[a] => win[a] > 1)
    /\ req' = [req EXCEPT ![a] = NoReq]
    /\ obs' = [obs EXCEPT ![a] = win[a]]
    /\ gameOver' = [gameOver EXCEPT ![a] = simEnd[a]]
    /\ envStopped' = [envStopped EXCEPT ![a] = @ \/ simEnd[a]]
    /\ rep' = [rep EXCEPT ![a] = IF simEnd[a] THEN "stop" ELSE @]
    /\ owes' = [owes EXCEPT ![a] = ~simEnd[a]]
    /\ newStateRx' = [newStateRx EXCEPT ![a] = TRUE]

LEMMA RxEnvStateReceives ==
  ASSUME IInv, NEW a \in Agents, RxEnvState(a), ~newStateRx[a]
  PROVE  Receives(a)
<1> USE DEF IInv, Ports
<1>1. req[a].kind = "state"
  BY DEF RxEnvState
<1>2. a \in Ports /\ req[a] # NoReq
  BY <1>1 DEF NoReq
<1>3. simPc = "act" /\ cur = a
  BY <1>1, <1>2 DEF Lockstep, Quiet, Blocked, WireInv, SimInitMsg
<1>4. req[a] = EnvStateMsg(simEnd[a], win[a])
  BY <1>2, <1>3 DEF WireInv
<1>5. req[a].over = simEnd[a] /\ req[a].win = win[a]
  BY <1>4 DEF EnvStateMsg
<1>6. Posted(a)
  BY <1>2, <1>3 DEF Posted
<1>7. /\ a \in Interfaces /\ ~owes[a] /\ rep[a] = "none" /\ ~gameOver[a]
      /\ win[a] = obs[a] + 1 /\ (simEnd[a] => win[a] > 1)
  BY <1>2, <1>3, <1>6 DEF Lockstep, Blocked, WireInv, ClientInv, ClientOK
<1> QED BY <1>3, <1>5, <1>6, <1>7 DEF RxEnvState, Receives

LEMMA NotifyStep ==
  ASSUME IInv, NEW i \in Interfaces, Notify(i)
  PROVE  IInv'
<1> USE OpenGymAssumption DEF IInv, Interfaces, Agents, Ports, Notify,
        SendState, IsGameOver, GetGameOver, simVars, wireVars, agentVars
<1>1. CASE initSent[i]
  <2> USE <1>1
  <2>0. /\ i \in Ports /\ i \in Nat /\ win[i] \in Nat /\ simEnd[i] \in BOOLEAN
        /\ simPc' = "act" /\ cur' = i
        /\ req' = [req EXCEPT ![i] = EnvStateMsg(simEnd[i], win[i] + 1)]
        /\ win' = [win EXCEPT ![i] = win[i] + 1]
    BY DEF TypeOK, Attached
  <2>types. req' \in [Ports -> Requests] /\ win' \in [Ports -> Nat]
    BY <2>0, MessageTypes DEF TypeOK
  <2>1. TypeOK'
    BY <2>0, <2>types DEF TypeOK, SimPcs
  <2>2. Lockstep'
    BY <2>1 DEF TypeOK, Lockstep, Quiet, Blocked, NoReq, EnvStateMsg
  <2>3. WireInv'
    BY <2>0, <2>1 DEF TypeOK, Lockstep, WireInv, Quiet, Blocked
  <2>4. EndInv'
    BY <2>1 DEF TypeOK, EndInv, Attached
  <2>5. ASSUME NEW b \in Agents PROVE ClientOK(b)'
    <3>1. ClientOK(b)
      BY DEF ClientInv
    <3>2. ~Posted(b) /\ rep' = rep /\ owes' = owes /\ simEnd' = simEnd
      BY DEF Posted
    <3>3. CASE b = i
      <4>1. Posted(b)' /\ win'[b] = obs[b] + 1
        BY <2>0, <3>1, <3>2, <3>3 DEF ClientOK, Posted, EnvStateMsg, NoReq,
             TypeOK
      <4>2. ~simEnd[b]
        BY <3>3 DEF EndInv
      <4> QED BY <2>1, <3>1, <3>2, <4>1, <4>2 DEF ClientOK
    <3>4. CASE b # i
      <4>1. ~Posted(b)' /\ win'[b] = win[b]
        BY <2>0, <3>2, <3>4 DEF Posted, TypeOK
      <4> QED BY <2>1, <3>1, <3>2, <4>1 DEF ClientOK
    <3> QED BY <3>3, <3>4
  <2>6. KillInv'
    BY <2>1 DEF TypeOK, KillInv, KilledOnlyByInterrupt
  <2> QED BY <2>1, <2>2, <2>3, <2>4, <2>5, <2>6 DEF ClientInv
<1>2. CASE ~initSent[i]
  <2> USE <1>2
  <2>0. /\ i \in Ports /\ i \in Nat
        /\ simPc' = "init" /\ cur' = i /\ win' = win
        /\ req' = [req EXCEPT ![i] = SimInitMsg]
        /\ initSent' = [initSent EXCEPT ![i] = TRUE]
    BY DEF Attached
  <2>types. req' \in [Ports -> Requests]
    BY <2>0, MessageTypes DEF TypeOK
  <2>1. TypeOK'
    BY <2>0, <2>types DEF TypeOK, SimPcs
  <2>2. Lockstep'
    BY <2>1 DEF TypeOK, Lockstep, Quiet, Blocked, NoReq, SimInitMsg
  <2>3. WireInv'
    BY <2>1 DEF TypeOK, Lockstep, WireInv, Quiet, Blocked
  <2>4. EndInv'
    BY <2>1 DEF TypeOK, EndInv, Attached
  <2>5. ClientInv'
    BY <2>1 DEF TypeOK, EndInv, ClientInv, ClientOK, Posted
  <2>6. KillInv'
    BY <2>1 DEF TypeOK, KillInv, KilledOnlyByInterrupt
  <2> QED BY <2>1, <2>2, <2>3, <2>4, <2>5, <2>6
<1> QED BY <1>1, <1>2

LEMMA RecvInitAckStep ==
  ASSUME IInv, RecvInitAck
  PROVE  IInv'
<1> USE OpenGymAssumption DEF IInv, Interfaces, Agents, Ports, RecvInitAck,
        SendState, IsGameOver, GetGameOver, simVars, wireVars, agentVars
<1>1. TypeOK'
  <2>1. cur \in Ports /\ simEnd[cur] \in BOOLEAN /\ win[cur] + 1 \in Nat
    BY DEF TypeOK, WireInv, Blocked
  <2>2. EnvStateMsg(simEnd[cur], win[cur] + 1) \in Requests
    BY <2>1, MessageTypes
  <2> QED BY <2>1, <2>2 DEF TypeOK, Replies, SimPcs
<1>2. Lockstep'
  BY <1>1 DEF TypeOK, Lockstep, Quiet, Blocked, NoReq, EnvStateMsg
<1>3. WireInv'
  BY <1>1 DEF TypeOK, WireInv, EndInv, Blocked
<1>4. EndInv'
  BY <1>1 DEF TypeOK, EndInv, WireInv, Blocked
<1>5. ClientInv'
  BY <1>1 DEF TypeOK, EndInv, ClientInv, ClientOK, NoReq, EnvStateMsg, Posted
<1>6. KillInv'
  BY <1>1 DEF KillInv, KilledOnlyByInterrupt
<1> QED BY <1>1, <1>2, <1>3, <1>4, <1>5, <1>6

LEMMA RecvActStep ==
  ASSUME IInv, RecvAct
  PROVE  IInv'
<1> USE OpenGymAssumption DEF IInv, Interfaces, Agents, Ports, RecvAct, simVars,
        wireVars, agentVars
<1>1. TypeOK'
  <2>1. cur \in Nat /\ cur' \in Nat /\ simPc' \in SimPcs
    BY DEF TypeOK, SimPcs
  <2>2. rep' \in [Ports -> Replies]
    BY DEF TypeOK, Replies
  <2> QED BY <2>1, <2>2 DEF TypeOK
<1>2. Lockstep'
  BY <1>1 DEF TypeOK, Lockstep, Quiet, Blocked
<1>3. WireInv'
  BY <1>1 DEF WireInv, Blocked
<1>4. EndInv'
  BY <1>1 DEF TypeOK, EndInv, WireInv, Blocked
<1>5. ClientInv'
  BY <1>1 DEF Lockstep, ClientInv, ClientOK, Blocked, Posted
<1>6. KillInv'
  BY <1>1 DEF ClientInv, ClientOK, KillInv, KilledOnlyByInterrupt, WireInv,
       Blocked
<1> QED BY <1>1, <1>2, <1>3, <1>4, <1>5, <1>6

LEMMA RunReturnsStep ==
  ASSUME IInv, RunReturns
  PROVE  IInv'
<1> USE OpenGymAssumption DEF IInv, Interfaces, Agents, Ports, RunReturns,
        simVars, wireVars, agentVars
<1>1. TypeOK'
  BY DEF TypeOK, SimPcs
<1>2. Lockstep'
  BY <1>1 DEF Lockstep, Quiet, Blocked
<1>3. WireInv'
  BY <1>1 DEF WireInv, Blocked
<1>4. EndInv'
  BY <1>1 DEF TypeOK, EndInv, WireInv, Blocked
<1>5. ClientInv'
  BY <1>1 DEF ClientInv, ClientOK, Posted
<1>6. KillInv'
  BY <1>1 DEF KillInv, KilledOnlyByInterrupt
<1> QED BY <1>1, <1>2, <1>3, <1>4, <1>5, <1>6

LEMMA NotifySimulationEndStep ==
  ASSUME IInv, NotifySimulationEnd
  PROVE  IInv'
<1> USE OpenGymAssumption DEF IInv, Interfaces, Agents, Ports,
        NotifySimulationEnd, SendState, IsGameOver, GetGameOver, simVars,
        wireVars, agentVars
<1>1. CASE initSent[cur]
  <2> USE <1>1
  <2>0. /\ cur \in Ports /\ cur \in Nat /\ win[cur] \in Nat /\ TRUE \in BOOLEAN
        /\ simPc' = "act" /\ cur' = cur
        /\ req' = [req EXCEPT ![cur] = EnvStateMsg(TRUE, win[cur] + 1)]
        /\ win' = [win EXCEPT ![cur] = win[cur] + 1]
    BY DEF TypeOK, Attached
  <2>types. req' \in [Ports -> Requests] /\ win' \in [Ports -> Nat]
    <3>0. win[cur] + 1 \in Nat /\ TRUE \in BOOLEAN
      BY <2>0
    <3>1. EnvStateMsg(TRUE, win[cur] + 1) \in Requests
      BY <3>0, MessageTypes
    <3> QED BY <2>0, <3>0, <3>1 DEF TypeOK
  <2>1. TypeOK'
    BY <2>0, <2>types DEF TypeOK, SimPcs
  <2>2. Lockstep'
    BY <2>1 DEF TypeOK, Lockstep, Quiet, Blocked, NoReq, EnvStateMsg
  <2>sent. /\ win[cur] > 0 /\ cur \in Interfaces /\ simEnd'[cur] /\ rep[cur] = "none"
        /\ req'[cur] = EnvStateMsg(simEnd'[cur], win'[cur])
    BY <2>0 DEF TypeOK, WireInv, Lockstep, Quiet, Blocked
  <2>3. WireInv'
    <3>1. \A i \in Interfaces : initSent'[i] => win'[i] > 0
      BY <2>0, <2>sent DEF TypeOK, WireInv
    <3>2. \A p \in Ports : win'[p] > 0 => p \in Interfaces /\ initSent'[p]
      BY <2>0, <2>sent DEF TypeOK, WireInv
    <3>3. win'[cur] > 1 /\ initSent'[cur] /\ rep'[cur] # "ack"
      BY <2>0, <2>sent DEF TypeOK
    <3> QED BY <2>0, <2>sent, <3>1, <3>2, <3>3 DEF WireInv, Blocked
  <2>4. EndInv'
    BY <2>1 DEF TypeOK, EndInv, Attached
  <2>5. ClientInv'
    BY <2>1 DEF TypeOK, WireInv, EndInv, ClientInv, ClientOK, Blocked, NoReq,
         EnvStateMsg, Posted
  <2>6. KillInv'
    BY <2>1 DEF TypeOK, KillInv, KilledOnlyByInterrupt
  <2> QED BY <2>1, <2>2, <2>3, <2>4, <2>5, <2>6
<1>2. CASE ~initSent[cur]
  <2> USE <1>2
  <2>1. TypeOK'
    BY DEF TypeOK, SimPcs
  <2>2. Lockstep'
    BY <2>1 DEF Lockstep, Quiet, Blocked
  <2>3. WireInv'
    BY <2>1 DEF WireInv, Blocked
  <2>4. EndInv'
    BY <2>1 DEF TypeOK, EndInv, Attached
  <2>5. ClientInv'
    BY <2>1 DEF ClientInv, ClientOK, Posted
  <2>6. KillInv'
    BY <2>1 DEF TypeOK, KillInv, KilledOnlyByInterrupt
  <2> QED BY <2>1, <2>2, <2>3, <2>4, <2>5, <2>6
<1> QED BY <1>1, <1>2

LEMMA SimExitsStep ==
  ASSUME IInv, SimExits
  PROVE  IInv'
<1> USE OpenGymAssumption DEF IInv, Interfaces, Agents, Ports, SimExits,
        simVars, wireVars, agentVars
<1>1. TypeOK'
  BY DEF TypeOK, SimPcs
<1>2. Lockstep'
  BY <1>1 DEF Lockstep, Quiet, Blocked
<1>3. WireInv'
  BY <1>1 DEF WireInv, Blocked
<1>4. EndInv'
  BY <1>1 DEF TypeOK, EndInv, WireInv, Blocked
<1>5. ClientInv'
  BY <1>1 DEF ClientInv, ClientOK, Posted
<1>6. KillInv'
  BY <1>1 DEF KillInv, KilledOnlyByInterrupt
<1> QED BY <1>1, <1>2, <1>3, <1>4, <1>5, <1>6

LEMMA InitializeEnvStep ==
  ASSUME IInv, NEW a \in Agents, InitializeEnv(a)
  PROVE  IInv'
<1> USE OpenGymAssumption DEF IInv, Interfaces, Agents, Ports, InitializeEnv,
        Goto, simVars, wireVars, agentVars
<1>0. /\ simPc = "init" /\ cur = a /\ a \in Interfaces /\ initSent[a]
      /\ rep[a] = "none" /\ ~owes[a] /\ a \in Ports /\ ~gameOver[a]
      /\ ~Posted(a) /\ ~Posted(a)'
  BY DEF Lockstep, WireInv, ClientInv, ClientOK, Quiet, Blocked, NoReq,
       EnvStateMsg, Posted
<1>1. TypeOK'
  BY DEF TypeOK, Requests, Replies, AgentPcs, NoReq
<1>2. Lockstep'
  BY <1>1 DEF TypeOK, Lockstep, Quiet, Blocked, NoReq
<1>3. WireInv'
  BY <1>1 DEF WireInv, Blocked, NoReq, EnvStateMsg
<1>4. EndInv'
  BY <1>1 DEF TypeOK, EndInv, WireInv, Blocked
<1>5. ASSUME NEW b \in Agents PROVE ClientOK(b)'
  <2>1. ClientOK(b)
    BY DEF ClientInv
  <2>2. CASE b = a
    BY <2>1, <2>2, <1>0, <1>1 DEF TypeOK, ClientOK
  <2>3. CASE b # a
    BY <2>1, <2>3, <1>1 DEF ClientOK, Posted
  <2> QED BY <2>2, <2>3
<1>6. KillInv'
  BY <1>1 DEF KillInv, KilledOnlyByInterrupt
<1> QED BY <1>1, <1>2, <1>3, <1>4, <1>5, <1>6 DEF ClientInv

LEMMA FirstStateStep ==
  ASSUME IInv, NEW a \in Agents, FirstState(a)
  PROVE  IInv'
<1> USE OpenGymAssumption DEF IInv, Interfaces, Agents, Ports, FirstState, Goto,
        simVars, wireVars, agentVars
<1>0. ~newStateRx[a] /\ RxEnvState(a)
  BY DEF ClientInv, ClientOK
<1>rx. Receives(a)
  BY <1>0, RxEnvStateReceives
<1>types. /\ rep' \in [Ports -> Replies] /\ owes' \in [Ports -> BOOLEAN]
          /\ pc' \in [Agents -> AgentPcs] /\ rounds' \in [Agents -> Nat]
  BY <1>rx DEF Receives, TypeOK, AgentPcs, Replies
<1>1. TypeOK'
  BY <1>rx, <1>types, MessageTypes DEF Receives, TypeOK
<1>2. Lockstep'
  BY <1>1, <1>rx DEF Receives, TypeOK, Lockstep, WireInv, Quiet, Blocked
<1>3. WireInv'
  BY <1>1, <1>rx DEF Receives, TypeOK, WireInv, Blocked
<1>4. EndInv'
  BY DEF EndInv
<1>5. ASSUME NEW b \in Agents PROVE ClientOK(b)'
  <2>1. ClientOK(b)
    BY DEF ClientInv
  <2>2. CASE b = a
    BY <1>1, <2>1, <2>2, <1>rx DEF Receives, TypeOK, ClientOK, Posted
  <2>3. CASE b # a
    BY <1>1, <2>1, <2>3, <1>rx DEF Receives, TypeOK, ClientOK, Posted
  <2> QED BY <2>2, <2>3
<1>6. KillInv'
  BY <1>1, <1>rx DEF Receives, TypeOK, KillInv, KilledOnlyByInterrupt
<1> QED BY <1>1, <1>2, <1>3, <1>4, <1>5, <1>6 DEF ClientInv

LEMMA SendActionsStep ==
  ASSUME IInv, NEW a \in Agents, SendActions(a)
  PROVE  IInv'
<1> USE OpenGymAssumption DEF IInv, Interfaces, Agents, Ports, SendActions,
        Goto, simVars, wireVars, agentVars
<1>1. TypeOK'
  BY DEF TypeOK, Replies, AgentPcs
<1>2. Lockstep'
  BY <1>1 DEF TypeOK, Lockstep, Quiet, Blocked
<1>3. WireInv'
  BY <1>1 DEF WireInv, Blocked
<1>4. EndInv'
  BY <1>1 DEF TypeOK, EndInv, WireInv, Blocked
<1>5. ASSUME NEW b \in Agents PROVE ClientOK(b)'
  <2>1. ClientOK(b)
    BY DEF ClientInv
  <2>2. CASE b = a
    BY <1>1, <2>1, <2>2 DEF TypeOK, ClientOK, Posted
  <2>3. CASE b # a
    BY <1>1, <2>1, <2>3 DEF TypeOK, ClientOK, Posted
  <2> QED BY <2>2, <2>3
<1>6. KillInv'
  BY <1>1 DEF KillInv, KilledOnlyByInterrupt
<1> QED BY <1>1, <1>2, <1>3, <1>4, <1>5, <1>6 DEF ClientInv

LEMMA SendRefusedStep ==
  ASSUME IInv, NEW a \in Agents, SendRefused(a)
  PROVE  IInv'
<1> USE OpenGymAssumption DEF IInv, Interfaces, Agents, Ports, SendRefused,
        Goto, simVars, wireVars, agentVars
<1>1. TypeOK'
  BY DEF TypeOK, AgentPcs
<1>2. Lockstep'
  BY <1>1 DEF Lockstep, Quiet, Blocked
<1>3. WireInv'
  BY <1>1 DEF WireInv, Blocked
<1>4. EndInv'
  BY <1>1 DEF TypeOK, EndInv, WireInv, Blocked
<1>5. ASSUME NEW b \in Agents PROVE ClientOK(b)'
  <2>1. ClientOK(b)
    BY DEF ClientInv
  <2>2. CASE b = a
    BY <1>1, <2>1, <2>2 DEF TypeOK, ClientOK, Posted
  <2>3. CASE b # a
    BY <1>1, <2>1, <2>3 DEF TypeOK, ClientOK, Posted
  <2> QED BY <2>2, <2>3
<1>6. KillInv'
  BY <1>1 DEF KillInv, KilledOnlyByInterrupt
<1> QED BY <1>1, <1>2, <1>3, <1>4, <1>5, <1>6 DEF ClientInv

LEMMA StepReturnsStep ==
  ASSUME IInv, NEW a \in Agents, StepReturns(a)
  PROVE  IInv'
<1> USE OpenGymAssumption DEF IInv, Interfaces, Agents, Ports, StepReturns,
        Goto, simVars, wireVars, agentVars
<1>0. ~newStateRx[a] /\ RxEnvState(a)
  BY DEF ClientInv, ClientOK
<1>rx. Receives(a)
  BY <1>0, RxEnvStateReceives
<1>wire. rep' \in [Ports -> Replies] /\ owes' \in [Ports -> BOOLEAN]
  BY <1>rx DEF Receives, TypeOK, Replies
<1>pc. pc' \in [Agents -> AgentPcs]
  BY DEF TypeOK, AgentPcs
<1>rounds. rounds' \in [Agents -> Nat]
  BY DEF TypeOK
<1>1. TypeOK'
  BY <1>rx, <1>wire, <1>pc, <1>rounds, MessageTypes DEF Receives, TypeOK
<1>2. Lockstep'
  BY <1>1, <1>rx DEF Receives, TypeOK, Lockstep, WireInv, Quiet, Blocked
<1>3. WireInv'
  BY <1>1, <1>rx DEF Receives, TypeOK, WireInv, Blocked
<1>4. EndInv'
  BY DEF EndInv
<1>5. ASSUME NEW b \in Agents PROVE ClientOK(b)'
  <2>1. ClientOK(b)
    BY DEF ClientInv
  <2>2. CASE b = a
    <3>1. ~Posted(a)' /\ simEnd' = simEnd /\ win' = win /\ initSent' = initSent
      BY <1>1, <1>rx DEF Receives, Posted, TypeOK
    <3>2. /\ obs'[a] = win[a] /\ newStateRx'[a] /\ owes'[a] = ~simEnd[a]
          /\ gameOver'[a] = simEnd[a] /\ envStopped'[a] = (envStopped[a] \/ simEnd[a])
          /\ rounds'[a] = rounds[a] + 1
      BY <1>1, <1>rx DEF Receives, TypeOK
    <3> QED BY <1>1, <1>rx, <2>1, <2>2, <3>1, <3>2 DEF Receives, TypeOK,
        ClientOK
  <2>3. CASE b # a
    BY <2>1, <2>3, <1>1, <1>rx DEF Receives, TypeOK, ClientOK, Posted
  <2> QED BY <2>2, <2>3
<1>6. KillInv'
  BY <1>1, <1>rx DEF Receives, TypeOK, KillInv, KilledOnlyByInterrupt
<1> QED BY <1>1, <1>2, <1>3, <1>4, <1>5, <1>6 DEF ClientInv

LEMMA InterruptStep ==
  ASSUME IInv, NEW a \in Agents, Interrupt(a)
  PROVE  IInv'
<1> USE OpenGymAssumption DEF IInv, Interfaces, Agents, Ports, Interrupt, Goto,
        simVars, wireVars, agentVars
<1>1. TypeOK'
  BY DEF TypeOK, AgentPcs
<1>2. Lockstep'
  BY <1>1 DEF Lockstep, Quiet, Blocked
<1>3. WireInv'
  BY <1>1 DEF WireInv, Blocked
<1>4. EndInv'
  BY <1>1 DEF TypeOK, EndInv, WireInv, Blocked
<1>5. ASSUME NEW b \in Agents PROVE ClientOK(b)'
  <2>1. ClientOK(b)
    BY DEF ClientInv
  <2>2. CASE b = a
    BY <2>1, <2>2, <1>1 DEF TypeOK, ClientOK, Posted
  <2>3. CASE b # a
    BY <2>1, <2>3 DEF TypeOK, ClientOK, Posted
  <2> QED BY <2>2, <2>3
<1>6. KillInv'
  BY <1>1 DEF KillInv, KilledOnlyByInterrupt
<1> QED BY <1>1, <1>2, <1>3, <1>4, <1>5, <1>6 DEF ClientInv

LEMMA CloseStep ==
  ASSUME IInv, NEW a \in Agents, Close(a)
  PROVE  IInv'
<1> USE OpenGymAssumption DEF IInv, Interfaces, Agents, Ports, Close, Goto,
        simVars, wireVars, agentVars
<1>1. TypeOK'
  BY DEF TypeOK, AgentPcs
<1>2. Lockstep'
  BY <1>1 DEF Lockstep, Quiet, Blocked
<1>3. WireInv'
  BY <1>1 DEF WireInv, Blocked
<1>4. EndInv'
  BY <1>1 DEF TypeOK, EndInv, WireInv, Blocked
<1>5. ClientInv'
  BY <1>1 DEF ClientInv, ClientOK, Posted
<1>6. KillInv'
  BY <1>1 DEF KillInv, KilledOnlyByInterrupt
<1> QED BY <1>1, <1>2, <1>3, <1>4, <1>5, <1>6

LEMMA CloseDrainStep ==
  ASSUME IInv, NEW a \in Agents, CloseDrain(a)
  PROVE  IInv'
<1> USE OpenGymAssumption DEF IInv, Interfaces, Agents, Ports, CloseDrain, Goto,
        simVars, wireVars, agentVars
<1>1. CASE newStateRx[a]
  <2> USE <1>1 DEF RxEnvState
  <2>1. TypeOK'
    BY DEF TypeOK, AgentPcs
  <2>2. Lockstep'
    BY DEF Lockstep, Quiet, Blocked
  <2>3. WireInv'
    BY DEF WireInv, Blocked
  <2>4. EndInv'
    BY DEF EndInv
  <2>5. ASSUME NEW b \in Agents PROVE ClientOK(b)'
    <3>1. ClientOK(b)
      BY DEF ClientInv
    <3>2. CASE b = a
      BY <3>1, <3>2, <2>1 DEF TypeOK, ClientOK, Posted
    <3>3. CASE b # a
      BY <3>1, <3>3, <2>1 DEF TypeOK, ClientOK, Posted
    <3> QED BY <3>2, <3>3
  <2>6. KillInv'
    BY DEF TypeOK, KillInv, KilledOnlyByInterrupt
  <2> QED BY <2>1, <2>2, <2>3, <2>4, <2>5, <2>6 DEF ClientInv
<1>2. CASE ~newStateRx[a]
  <2>0. RxEnvState(a)
    OBVIOUS
  <2>rx. Receives(a)
    BY <1>2, <2>0, RxEnvStateReceives
  <2>1. TypeOK'
    BY <2>rx, MessageTypes DEF Receives, TypeOK, AgentPcs, Replies
  <2>2. Lockstep'
    BY <2>1, <2>rx DEF Receives, TypeOK, Lockstep, WireInv, Quiet, Blocked
  <2>3. WireInv'
    BY <2>1, <2>rx DEF Receives, TypeOK, WireInv, Blocked
  <2>4. EndInv'
    BY DEF EndInv
  <2>5. ASSUME NEW b \in Agents PROVE ClientOK(b)'
    <3>1. ClientOK(b)
      BY DEF ClientInv
    <3>2. CASE b = a
      BY <2>1, <3>1, <3>2, <2>rx DEF Receives, TypeOK, ClientOK, Posted
    <3>3. CASE b # a
      BY <2>1, <3>1, <3>3, <2>rx DEF Receives, TypeOK, ClientOK, Posted
    <3> QED BY <3>2, <3>3
  <2>6. KillInv'
    BY <2>1, <2>rx DEF Receives, TypeOK, KillInv, KilledOnlyByInterrupt
  <2> QED BY <2>1, <2>2, <2>3, <2>4, <2>5, <2>6 DEF ClientInv
<1> QED BY <1>1, <1>2

LEMMA CloseSendStep ==
  ASSUME IInv, NEW a \in Agents, CloseSend(a)
  PROVE  IInv'
<1> USE OpenGymAssumption DEF IInv, Interfaces, Agents, Ports, CloseSend, Goto,
        simVars, wireVars, agentVars
<1>1. TypeOK'
  <2>1. pc' \in [Agents -> AgentPcs] /\ newStateRx' \in [Agents -> BOOLEAN]
    BY DEF TypeOK, AgentPcs
  <2>2. rep' \in [Ports -> Replies] /\ owes' \in [Ports -> BOOLEAN]
    BY DEF TypeOK, Replies
  <2> QED BY <2>1, <2>2 DEF TypeOK
<1>2. Lockstep'
  BY <1>1 DEF TypeOK, Lockstep, Quiet, Blocked
<1>3. WireInv'
  BY <1>1 DEF TypeOK, WireInv, Blocked
<1>4. EndInv'
  BY <1>1 DEF TypeOK, EndInv, WireInv, Blocked
<1>5. ASSUME NEW b \in Agents PROVE ClientOK(b)'
  <2>1. ClientOK(b)
    BY DEF ClientInv
  <2>2. CASE b = a
    <3>1. pc[a] = "stop" /\ pc'[a] = "finished" /\ owes'[a] = FALSE
      BY DEF TypeOK
    <3>2. Posted(a)' <=> Posted(a)
      BY DEF Posted
    <3>3. UNCHANGED <<win, obs, rounds, envStopped, gameOver, initSent, simEnd>>
      OBVIOUS
    <3>4. rep'[a] = rep[a] \/ (rep'[a] = "stop" /\ owes[a])
      BY DEF TypeOK
    <3>5. ClientOK(a)
      BY DEF ClientInv
    <3> HIDE DEF CloseSend
    <3>6. owes[a] => ~gameOver[a] /\ MayInterrupt
      BY <3>1, <3>5 DEF ClientOK
    <3>7. ClientOK(a)'
      BY <3>1, <3>2, <3>3, <3>4, <3>5, <3>6 DEF ClientOK
    <3> QED BY <2>2, <3>7
  <2>3. CASE b # a
    BY <1>1, <2>1, <2>3 DEF TypeOK, ClientOK, Posted
  <2> QED BY <2>2, <2>3
<1>6. KillInv'
  BY <1>1 DEF TypeOK, KillInv, KilledOnlyByInterrupt
<1> QED BY <1>1, <1>2, <1>3, <1>4, <1>5, <1>6 DEF ClientInv

LEMMA InitIInv == Init => IInv
<1> SUFFICES ASSUME Init PROVE IInv
  OBVIOUS
<1> USE OpenGymAssumption DEF Init, Interfaces, Agents, Ports
<1>1. TypeOK
  BY MessageTypes DEF TypeOK, SimPcs, Replies, AgentPcs
<1>2. Lockstep
  BY DEF Lockstep, Quiet, Blocked
<1>3. WireInv
  BY DEF WireInv, Blocked
<1>4. EndInv
  BY DEF EndInv
<1>5. ClientInv
  BY DEF ClientInv, ClientOK, Posted
<1>6. KillInv
  BY DEF KillInv, KilledOnlyByInterrupt
<1> QED BY <1>1, <1>2, <1>3, <1>4, <1>5, <1>6 DEF IInv

LEMMA StutterIInv == ASSUME IInv, UNCHANGED vars PROVE IInv'
BY DEF IInv, TypeOK, Lockstep, WireInv, EndInv, ClientInv, ClientOK, KillInv,
     KilledOnlyByInterrupt, Quiet, Blocked, Posted, vars, simVars, wireVars,
     agentVars

LEMMA NextIInv == IInv /\ [Next]_vars => IInv'
<1> SUFFICES ASSUME IInv, [Next]_vars PROVE IInv'
  OBVIOUS
<1>1. CASE SimStep
  <2>1. ASSUME NEW i \in Interfaces, Notify(i) PROVE IInv'
    BY <2>1, NotifyStep
  <2> QED BY <1>1, <2>1, RecvInitAckStep, RecvActStep, RunReturnsStep,
      NotifySimulationEndStep, SimExitsStep DEF SimStep
<1>2. ASSUME NEW a \in Agents, AgentStep(a) PROVE IInv'
  BY <1>2, InitializeEnvStep, FirstStateStep, SendActionsStep, SendRefusedStep,
       StepReturnsStep, CloseStep, CloseDrainStep, CloseSendStep DEF AgentStep
<1>3. ASSUME NEW a \in Agents, Interrupt(a) PROVE IInv'
  BY <1>3, InterruptStep
<1>4. CASE UNCHANGED vars
  BY <1>4, StutterIInv
<1> QED BY <1>1, <1>2, <1>3, <1>4 DEF Next, Terminating

(* The strengthened invariant holds in every reachable state.               *)
THEOREM Invariance == Spec => []IInv
BY InitIInv, NextIInv, PTL DEF Spec

(* Every variable of the bridge stays in its type.                          *)
THEOREM TypeCorrect == Spec => []TypeOK
<1>1. IInv => TypeOK
  BY DEF IInv
<1> QED BY <1>1, Invariance, PTL

(* However many ports there are, at most one exchange is under way, and it  *)
(* is the one the simulation is blocked on.                                 *)
THEOREM LockstepCorrect == Spec => []Lockstep
<1>1. IInv => Lockstep
  BY DEF IInv
<1> QED BY <1>1, Invariance, PTL

(* No learner misses, repeats or answers late a window of its node.         *)
THEOREM WindowsCorrect == Spec => []NoWindowLostOrStale
<1>1. IInv => NoWindowLostOrStale
  <2> SUFFICES ASSUME IInv, NEW a \in Agents, pc[a] \in {"step", "rx"}
               PROVE  /\ rounds[a] + 1 = obs[a]
                      /\ obs[a] \in {win[a], win[a] - 1}
                      /\ owes[a] => obs[a] = win[a]
    BY DEF NoWindowLostOrStale
  <2>1. ClientOK(a) /\ a \in Ports /\ obs[a] \in Nat
    BY DEF IInv, ClientInv, TypeOK, Ports
  <2>2. rounds[a] + 1 = obs[a] /\ obs[a] \in {win[a], win[a] - 1}
    BY <2>1 DEF ClientOK
  <2>3. owes[a] => ~Posted(a)
    BY <2>1 DEF IInv, Lockstep, Quiet, Blocked, Posted
  <2> QED BY <2>1, <2>2, <2>3 DEF ClientOK
<1> QED BY <1>1, Invariance, PTL

(* The only way a client dies of a refused send is a simulation that ended  *)
(* after a single window of its node.                                       *)
THEOREM CrashCorrect == Spec => []CrashOnlyWhenShort
<1>1. IInv => CrashOnlyWhenShort
  BY DEF IInv, ClientInv, ClientOK, CrashOnlyWhenShort
<1> QED BY <1>1, Invariance, PTL

(* A simulation that ends by itself leaves waiting only the clients it      *)
(* never contacted.                                                         *)
THEOREM NoOrphanCorrect == Spec => []NoOrphan
<1>1. IInv => NoOrphan
  <2> SUFFICES ASSUME IInv, simPc = "exited", NEW a \in Agents,
                      pc[a] \in {"init", "first", "rx"}
               PROVE  pc[a] = "init" /\ win[a] = 0
    BY DEF NoOrphan
  <2>1. ~gameOver[a] /\ ~Posted(a) /\ a \in Ports
    BY DEF IInv, ClientInv, ClientOK, Posted, Ports
  <2>2. ~(a \in Interfaces /\ initSent[a])
    BY <2>1 DEF IInv, EndInv, ClientInv, ClientOK
  <2>3. pc[a] = "init"
    BY <2>2 DEF IInv, ClientInv, ClientOK
  <2>4. win[a] = 0
    BY <2>1, <2>2 DEF IInv, TypeOK, WireInv
  <2> QED BY <2>3, <2>4
<1> QED BY <1>1, Invariance, PTL

(* No client that saw the end of the simulation ever kills it.              *)
THEOREM KilledCorrect == Spec => []KilledOnlyByInterrupt
<1>1. IInv => KilledOnlyByInterrupt
  BY DEF IInv, KillInv
<1> QED BY <1>1, Invariance, PTL

(* Nothing follows the game-over message of a port.                         *)
THEOREM GameOverCorrect == Spec => GameOverIsLast
<1>1. ASSUME IInv, Next, NEW a \in Agents, gameOver[a]
      PROVE  /\ gameOver'[a] /\ obs'[a] = obs[a]
             /\ win'[a] = win[a] /\ req'[a] = NoReq
             /\ rep'[a] \in {rep[a], "none"}
  <2> USE DEF IInv, Ports
  <2>1. /\ a \in Interfaces /\ simEnd[a] /\ ~owes[a] /\ ~Posted(a)
        /\ pc[a] \in {"step", "leave", "stop", "finished", "crashed"}
    BY <1>1 DEF ClientInv, ClientOK
  <2>2. simPc \notin {"run", "init"} /\ ~(simPc = "end" /\ cur = a)
    BY <1>1, <2>1, OpenGymAssumption DEF EndInv, Interfaces
  <2>3. req[a] = NoReq
    BY <1>1, <2>1, <2>2 DEF Lockstep, Quiet, Blocked, Posted
  <2>4. CASE SimStep
    <3>1. CASE RecvAct
      BY <1>1, <2>3, <3>1 DEF RecvAct, agentVars, TypeOK
    <3>2. CASE NotifySimulationEnd
      BY <1>1, <2>2, <2>3, <3>2 DEF NotifySimulationEnd, SendState, agentVars, TypeOK
    <3>3. CASE SimExits
      BY <1>1, <2>3, <3>3 DEF SimExits, wireVars, agentVars
    <3> QED
      BY <2>2, <2>4, <3>1, <3>2, <3>3 DEF SimStep, Notify, RecvInitAck, RunReturns
  <2>5. ASSUME NEW b \in Agents, AgentStep(b) \/ Interrupt(b), b # a
        PROVE  UNCHANGED <<gameOver[a], obs[a], win, req[a], rep[a]>>
    <3>1. a \in Ports /\ TypeOK
      BY <1>1
    <3>2. ASSUME RxEnvState(b)
          PROVE  UNCHANGED <<gameOver[a], obs[a], req[a], rep[a]>>
      <4>1. CASE newStateRx[b]
        BY <3>2, <4>1 DEF RxEnvState, wireVars
      <4>2. CASE ~newStateRx[b]
        BY <2>5, <3>1, <3>2, <4>2 DEF RxEnvState, TypeOK
      <4> QED BY <4>1, <4>2
    <3>3. CASE FirstState(b) \/ StepReturns(b) \/ CloseDrain(b)
      BY <3>2, <3>3 DEF FirstState, StepReturns, CloseDrain, simVars
    <3>4. CASE InitializeEnv(b) \/ SendActions(b) \/ CloseSend(b)
      BY <2>5, <3>1, <3>4 DEF InitializeEnv, SendActions, CloseSend, simVars, TypeOK
    <3>5. CASE SendRefused(b) \/ Close(b) \/ Interrupt(b)
      BY <3>5 DEF SendRefused, Close, Interrupt, simVars, wireVars
    <3> QED
      BY <2>5, <3>3, <3>4, <3>5 DEF AgentStep
  <2>6. CASE AgentStep(a) \/ Interrupt(a)
    BY <1>1, <2>1, <2>3, <2>6 DEF AgentStep, InitializeEnv, FirstState, SendActions,
       SendRefused, StepReturns, Close, CloseDrain, CloseSend, Interrupt, simVars, wireVars
  <2>7. CASE Terminating
    BY <1>1, <2>3, <2>7 DEF Terminating, vars, simVars, wireVars, agentVars
  <2> QED
    BY <1>1, <2>3, <2>4, <2>5, <2>6, <2>7 DEF Next
<1>2. IInv /\ [Next]_vars =>
        [\A a \in Agents : gameOver[a] =>
           /\ gameOver'[a] /\ obs'[a] = obs[a]
           /\ win'[a] = win[a] /\ req'[a] = NoReq
           /\ rep'[a] \in {rep[a], "none"}]_vars
  BY <1>1
<1> QED BY <1>2, Invariance, PTL DEF Spec, GameOverIsLast

(* The simulation makes no step while an agent holds a window.              *)
THEOREM FrozenCorrect == Spec => SimulationFrozen
<1>1. IInv /\ [Next]_vars => [(\E a \in Agents : owes[a]) => UNCHANGED simVars]_vars
  <2> SUFFICES ASSUME IInv, Next, NEW a \in Agents, owes[a]
               PROVE  UNCHANGED simVars
    OBVIOUS
  <2>1. Blocked /\ cur = a /\ req[a] = NoReq /\ rep[a] = "none"
    BY DEF IInv, Lockstep, Quiet, Ports, Blocked
  <2>2. ~SimStep
    BY <2>1 DEF SimStep, Notify, RecvInitAck, RecvAct, RunReturns,
         NotifySimulationEnd, SimExits, Blocked
  <2> QED BY <2>2 DEF Next, Terminating, AgentStep, InitializeEnv, FirstState,
      SendActions, SendRefused, StepReturns, Close, CloseDrain, CloseSend,
      Interrupt, vars
<1> QED BY <1>1, Invariance, PTL DEF Spec, SimulationFrozen

-------------------------------------------------------------------------------
(* Nobody waits in a circle.                                                *)

(* What a blocked simulation needs to know of its client: it holds a window *)
(* only where it is going to answer it, it is past its constructor once the *)
(* init exchange is, and it is gone only if its stop command is on the way; *)
(* a state it received is one it has to answer, unless it was the last one. *)
MoveOK(a) ==
    /\ owes[a] => newStateRx[a] /\ pc[a] \in {"step", "leave", "drain", "stop"}
    /\ a \in Interfaces /\ initSent[a] /\ pc[a] = "init" => simPc = "init" /\ cur = a
    /\ simPc = "init" /\ cur = a /\ req[a] # NoReq => pc[a] = "init"
    /\ pc[a] = "finished" /\ ~gameOver[a] =>
         \/ simPc = "killed"
         \/ rep[a] = "stop" /\ simPc = "act" /\ cur = a /\ ~simEnd[a]
    /\ pc[a] \in {"step", "rx", "leave"} /\ envStopped[a] => gameOver[a]
    /\ pc[a] \in {"step", "leave", "drain"} /\ newStateRx[a] => owes[a] \/ gameOver[a]
    /\ pc[a] = "stop" => owes[a] \/ gameOver[a]

MoveInv == \A a \in Agents : MoveOK(a)

LEMMA SimMove ==
  ASSUME IInv, MoveInv, SimStep
  PROVE  MoveInv'
<1> USE DEF IInv, Ports
<1> SUFFICES ASSUME NEW b \in Agents PROVE MoveOK(b)'
  BY DEF MoveInv
<1>1. /\ MoveOK(b) /\ UNCHANGED agentVars /\ owes' = owes
  BY DEF MoveInv, SimStep, Notify, RecvInitAck, RecvAct, RunReturns, NotifySimulationEnd,
     SimExits, wireVars
<1>2. owes'[b] => newStateRx'[b] /\ pc'[b] \in {"step", "leave", "drain", "stop"}
  BY <1>1 DEF MoveOK, agentVars
<1>3. ASSUME NEW i \in Interfaces, Notify(i) PROVE MoveOK(b)'
  <2>1. simPc = "run" /\ i \in Ports /\ (simPc' = "init" => cur' = i /\ initSent' = [initSent EXCEPT ![i] = TRUE])
        /\ req' \in [Ports -> Requests] /\ (initSent[i] => initSent' = initSent)
    BY <1>3, MessageTypes DEF Notify, SendState, TypeOK, IsGameOver, GetGameOver
  <2> QED
    BY <1>1, <1>2, <1>3, <2>1 DEF MoveOK, agentVars, Notify, SendState, TypeOK, ClientInv, ClientOK
<1>4. CASE RecvInitAck
  BY <1>1, <1>2, <1>4 DEF MoveOK, agentVars, RecvInitAck, SendState, TypeOK, ClientInv, ClientOK
<1>5. CASE RecvAct
  BY <1>1, <1>2, <1>5 DEF MoveOK, agentVars, RecvAct, TypeOK, Lockstep, Quiet
<1>6. CASE RunReturns \/ SimExits
  BY <1>1, <1>2, <1>6 DEF MoveOK, agentVars, RunReturns, SimExits, wireVars
<1>7. CASE NotifySimulationEnd
  BY <1>1, <1>2, <1>7 DEF MoveOK, agentVars, NotifySimulationEnd, SendState, TypeOK
<1> QED
  BY <1>3, <1>4, <1>5, <1>6, <1>7 DEF SimStep

(* A client's step leaves the others as they were.                          *)
LEMMA OthersMove ==
  ASSUME IInv, MoveInv, NEW a \in Agents, AgentStep(a) \/ Interrupt(a), NEW b \in Agents, a # b
  PROVE  MoveOK(b)'
<1> USE DEF IInv, Ports
<1>1. /\ UNCHANGED simVars
      /\ pc'[b] = pc[b] /\ newStateRx'[b] = newStateRx[b] /\ gameOver'[b] = gameOver[b]
      /\ envStopped'[b] = envStopped[b]
      /\ owes'[b] = owes[b] /\ rep'[b] = rep[b] /\ req'[b] = req[b]
  BY DEF AgentStep, Interrupt, InitializeEnv, FirstState, SendActions, SendRefused, StepReturns,
     Close, CloseDrain, CloseSend, RxEnvState, Goto, TypeOK, wireVars
<1> QED
  BY <1>1 DEF MoveInv, MoveOK, simVars

LEMMA RxMove ==
  ASSUME IInv, MoveInv, NEW a \in Agents, RxEnvState(a), UNCHANGED simVars,
         pc[a] \in {"first", "rx", "drain"}, NEW l, Goto(a, l),
         l = "stop" \/ (l \in {"step", "leave"} /\ pc[a] # "drain")
  PROVE  MoveOK(a)'
<1> USE DEF IInv, Ports
<1>1. /\ pc'[a] = l /\ MoveOK(a) /\ ClientOK(a)
      /\ newStateRx[a] \in BOOLEAN /\ envStopped[a] \in BOOLEAN
  BY DEF TypeOK, Goto, MoveInv, ClientInv
<1>2. CASE newStateRx[a]
  <2>1. pc[a] = "drain" /\ l = "stop"
    BY <1>1, <1>2 DEF ClientOK
  <2>2. UNCHANGED <<simVars, wireVars, newStateRx, envStopped, gameOver>>
    BY <1>2 DEF RxEnvState
  <2> QED
    BY <1>1, <1>2, <2>1, <2>2 DEF MoveOK, simVars, wireVars
<1>3. CASE ~newStateRx[a]
  <2>1. Receives(a)
    BY <1>3, RxEnvStateReceives
  <2>2. /\ simPc = "act" /\ newStateRx'[a] /\ simEnd[a] \in BOOLEAN
        /\ owes'[a] = ~simEnd[a] /\ gameOver'[a] = simEnd[a]
        /\ envStopped'[a] = (envStopped[a] \/ simEnd[a])
    BY <2>1 DEF Receives, TypeOK
  <2>3. pc[a] \in {"first", "rx"} => ~envStopped[a]
    BY <1>1, <2>1 DEF ClientOK, MoveOK, Receives
  <2> QED
    BY <1>1, <2>2, <2>3 DEF MoveOK, simVars
<1> QED
  BY <1>2, <1>3

LEMMA AgentMove ==
  ASSUME IInv, MoveInv, NEW a \in Agents, AgentStep(a) \/ Interrupt(a)
  PROVE  MoveOK(a)'
<1> USE DEF IInv, Ports
<1>1. MoveOK(a) /\ ClientOK(a)
  BY DEF MoveInv, ClientInv
<1>2. CASE InitializeEnv(a)
  <2>1. /\ req'[a] = NoReq /\ pc'[a] = "first"
        /\ UNCHANGED <<simVars, owes, newStateRx, envStopped, gameOver>>
    BY <1>2 DEF InitializeEnv, Goto, TypeOK
  <2>2. ~owes[a]
    BY <1>1, <1>2 DEF MoveOK, InitializeEnv
  <2> QED
    BY <2>1, <2>2 DEF MoveOK, simVars
<1>3. CASE FirstState(a)
  <2>1. RxEnvState(a) /\ UNCHANGED simVars /\ pc[a] = "first" /\ Goto(a, "step")
    BY <1>3 DEF FirstState
  <2> QED
    BY <2>1, RxMove
<1>4. CASE SendActions(a)
  <2>1. ~owes'[a] /\ pc'[a] = "rx" /\ UNCHANGED <<simVars, req, envStopped, gameOver>>
    BY <1>4 DEF SendActions, Goto, TypeOK
  <2> QED
    BY <1>1, <1>4, <2>1 DEF MoveOK, simVars, SendActions
<1>5. CASE SendRefused(a)
  <2>1. ~owes'[a] /\ pc'[a] = "crashed" /\ pc[a] # "init" /\ UNCHANGED <<simVars, req>>
    BY <1>5 DEF SendRefused, Goto, TypeOK, wireVars
  <2> QED
    BY <1>1, <2>1 DEF MoveOK, simVars
<1>6. CASE StepReturns(a)
  <2> PICK l : l = IF gameOver'[a] /\ rounds[a] + 1 >= FirstCheckedRound THEN "leave" ELSE "step"
    OBVIOUS
  <2>1. /\ RxEnvState(a) /\ UNCHANGED simVars /\ pc[a] = "rx" /\ Goto(a, l)
        /\ l \in {"step", "leave"}
    BY <1>6 DEF StepReturns
  <2> QED
    BY <2>1, RxMove
<1>7. CASE Interrupt(a)
  <2>1. /\ pc'[a] = "leave" /\ pc[a] \in {"step", "rx"}
        /\ UNCHANGED <<simVars, wireVars, newStateRx, envStopped, gameOver>>
    BY <1>7 DEF Interrupt, Goto, TypeOK
  <2> QED
    BY <1>1, <2>1 DEF MoveOK, ClientOK, simVars, wireVars
<1>8. CASE Close(a)
  <2>1. /\ pc[a] = "leave" /\ UNCHANGED <<simVars, wireVars, newStateRx, gameOver>>
        /\ pc'[a] = IF envStopped[a] THEN "finished" ELSE "drain"
    BY <1>8 DEF Close, Goto, TypeOK
  <2>2. envStopped[a] => gameOver[a] /\ ~owes[a]
    BY <1>1, <2>1 DEF MoveOK, ClientOK
  <2> QED
    BY <1>1, <2>1, <2>2 DEF MoveOK, simVars, wireVars
<1>9. CASE CloseDrain(a)
  <2>1. RxEnvState(a) /\ UNCHANGED simVars /\ pc[a] = "drain" /\ Goto(a, "stop")
    BY <1>9 DEF CloseDrain
  <2> QED
    BY <2>1, RxMove
<1>10. CASE CloseSend(a)
  <2>1. /\ pc[a] = "stop" /\ pc'[a] = "finished" /\ ~owes'[a]
        /\ UNCHANGED <<simVars, req, gameOver>> /\ (owes[a] => rep'[a] = "stop")
    BY <1>10 DEF CloseSend, Goto, TypeOK
  <2>2. ASSUME ~gameOver[a]
        PROVE  owes[a] /\ simPc = "act" /\ cur = a /\ ~simEnd[a]
    <3>1. owes[a]
      BY <1>1, <2>1, <2>2 DEF MoveOK
    <3>2. Blocked /\ cur = a /\ req[a] = NoReq
      BY <3>1 DEF Lockstep, Quiet
    <3>3. simPc = "act"
      BY <3>1, <3>2 DEF Blocked, WireInv
    <3>4. ~Posted(a) /\ a \in Interfaces /\ initSent[a]
      BY <3>2, <3>3 DEF Posted, WireInv, Blocked
    <3> QED
      BY <1>1, <2>2, <3>1, <3>2, <3>3, <3>4 DEF ClientOK
  <2> QED
    BY <1>1, <2>1, <2>2 DEF MoveOK, simVars
<1> QED
  BY <1>2, <1>3, <1>4, <1>5, <1>6, <1>7, <1>8, <1>9, <1>10 DEF AgentStep

LEMMA MoveNext ==
  ASSUME IInv, MoveInv, [Next]_vars
  PROVE  MoveInv'
<1>1. CASE SimStep
  BY <1>1, SimMove
<1>2. ASSUME NEW a \in Agents, AgentStep(a) \/ Interrupt(a) PROVE MoveInv'
  <2>1. \A b \in Agents : MoveOK(b)'
    BY <1>2, AgentMove, OthersMove
  <2>2. Agents' = Agents
    BY DEF Agents
  <2> QED
    BY <2>1, <2>2 DEF MoveInv
<1>3. CASE Terminating \/ UNCHANGED vars
  BY <1>3 DEF Terminating, MoveInv, MoveOK, vars, simVars, wireVars, agentVars
<1> QED
  BY <1>1, <1>2, <1>3 DEF Next

LEMMA MoveInit ==
  ASSUME Init
  PROVE  MoveInv
BY DEF Init, MoveInv, MoveOK, Ports

(* No circular wait: in every state in which the simulation is blocked on   *)
(* a Python process, either the reply is there and is one it accepts, or    *)
(* that process can go on without anybody's help, wherever Ctrl-C cut into  *)
(* its loop or into close().                                                *)
THEOREM NoCircularWaitCorrect == Spec => []NoCircularWait
<1>1. IInv /\ MoveInv => NoCircularWait
  <2> SUFFICES ASSUME IInv, MoveInv, Blocked, cur \in Agents,
                      ~(rep[cur] \in IF simPc = "init" THEN {"ack"} ELSE {"act", "stop"})
               PROVE  CanMove(cur)
    BY DEF NoCircularWait
  <2> DEFINE a == cur
  <2> USE DEF IInv, Ports
  <2>1. /\ MoveOK(a) /\ ClientOK(a) /\ a \in Interfaces /\ initSent[a]
        /\ pc[a] \in AgentPcs /\ rep[a] \in Replies
    BY DEF MoveInv, ClientInv, WireInv, TypeOK, Blocked
  <2>2. rep[a] = "none"
    BY <2>1 DEF WireInv, Replies, Blocked
  <2>3. CASE owes[a]
    BY <2>1, <2>3 DEF MoveOK, CanMove
  <2>4. CASE req[a] # NoReq /\ simPc = "init"
    BY <2>1, <2>4 DEF MoveOK, CanMove, WireInv, SimInitMsg
  <2>5. CASE req[a] # NoReq /\ simPc = "act"
    <3>1. req[a].kind = "state" /\ Posted(a)
      BY <2>5 DEF WireInv, EnvStateMsg, Posted
    <3>2. pc[a] \notin {"init", "finished", "crashed"}
      BY <2>1, <2>2, <2>5, <3>1 DEF MoveOK, ClientOK
    <3> QED
      BY <2>1, <3>1, <3>2 DEF CanMove, AgentPcs
  <2> QED
    BY <2>2, <2>3, <2>4, <2>5 DEF Lockstep, Blocked
<1>2. Init => MoveInv
  BY MoveInit
<1>3. IInv /\ MoveInv /\ [Next]_vars => MoveInv'
  BY MoveNext
<1> QED
  BY <1>1, <1>2, <1>3, Invariance, PTL DEF Spec

(* An interface nobody serves blocks for ever: once the simulation waits on *)
(* a port that no Python process has bound, it never takes another step.    *)
UnservedBlocks == [][Blocked /\ cur \notin Agents => UNCHANGED simVars]_vars

(* What running more interfaces than agents comes to (run.Py's eight): the  *)
(* first window of an unserved node is the last event of the simulation.    *)
THEOREM UnservedBlocksForEver == Spec => UnservedBlocks
<1>1. ASSUME IInv, Next, Blocked, cur \notin Agents
      PROVE  UNCHANGED simVars
  <2>1. rep[cur] = "none"
    BY <1>1 DEF IInv, KillInv, WireInv, Ports
  <2>2. ~SimStep
    BY <1>1, <2>1 DEF SimStep, Notify, RecvInitAck, RecvAct, RunReturns,
       NotifySimulationEnd, SimExits, Blocked
  <2> QED
    BY <1>1, <2>2 DEF Next, Terminating, AgentStep, InitializeEnv, FirstState,
       SendActions, SendRefused, StepReturns, Close, CloseDrain, CloseSend,
       Interrupt, vars
<1>2. IInv /\ [Next]_vars => [Blocked /\ cur \notin Agents => UNCHANGED simVars]_vars
  BY <1>1
<1> QED
  BY <1>2, Invariance, PTL DEF Spec, UnservedBlocks

-------------------------------------------------------------------------------
(* Refinement of GymTurns.                                                  *)

(* What a receive does to the turns: it stutters, or it shows the agent its *)
(* next window while nobody holds one.                                      *)
LEMMA RxEnvStateTurn ==
  ASSUME IInv, NEW a \in Agents, RxEnvState(a)
  PROVE  [Turns!Next]_(Turns!vars)
<1> DEFINE held == [b \in Agents |-> owes[b]]
<1>1. CASE newStateRx[a]
  BY <1>1 DEF RxEnvState, wireVars, Turns!vars
<1>2. CASE ~newStateRx[a]
  <2>1. /\ cur = a /\ ~gameOver[a] /\ ~owes[a] /\ win[a] = obs[a] + 1
        /\ simEnd[a] => win[a] > 1
        /\ obs' = [obs EXCEPT ![a] = win[a]]
        /\ gameOver' = [gameOver EXCEPT ![a] = simEnd[a]]
        /\ owes' = [owes EXCEPT ![a] = ~simEnd[a]]
        /\ a \in Interfaces
    BY <1>2, RxEnvStateReceives DEF Receives
  <2>2. Turns!Free
    BY <2>1 DEF IInv, Lockstep, Quiet, Ports, Turns!Free
  <2>3. /\ obs' = [obs EXCEPT ![a] = @ + 1]
        /\ held' = [held EXCEPT ![a] = ~simEnd[a]]
    BY <2>1 DEF IInv, TypeOK, Ports
  <2>4. CASE simEnd[a]
    <3>1. obs[a] > 0
      BY <2>1, <2>4 DEF IInv, TypeOK
    <3>2. held' = held
      BY <2>1, <2>3, <2>4 DEF IInv, TypeOK, Ports
    <3>3. gameOver' = [gameOver EXCEPT ![a] = TRUE]
      BY <2>1, <2>4
    <3> QED BY <2>1, <2>2, <2>3, <3>1, <3>2, <3>3 DEF Turns!Next, Turns!Finish
  <2>5. CASE ~simEnd[a]
    <3>1. gameOver' = gameOver
      BY <2>1, <2>5 DEF IInv, TypeOK
    <3>2. held' = [held EXCEPT ![a] = TRUE]
      BY <2>3, <2>5
    <3> QED BY <2>1, <2>2, <2>3, <3>1, <3>2 DEF Turns!Next, Turns!Observe
  <2> QED BY <2>4, <2>5 DEF IInv, TypeOK, Ports
<1> QED BY <1>1, <1>2

(* Sending a reply is giving the turn back.                                 *)
LEMMA ReplyTurn ==
  ASSUME IInv, NEW a \in Agents, owes[a], owes' = [owes EXCEPT ![a] = FALSE],
         UNCHANGED <<obs, gameOver>>
  PROVE  Turns!Next
<1> DEFINE held == [b \in Agents |-> owes[b]]
<1>1. held' = [held EXCEPT ![a] = FALSE]
  BY DEF IInv, TypeOK, Ports
<1> QED BY <1>1 DEF Turns!Next, Turns!Answer

(* The bridge, with its handshakes, crashes and interrupts, implements the  *)
(* agents taking turns.                                                     *)
THEOREM TurnsRefined == Spec => TurnTaking
<1>1. Init => Turns!Init
  BY DEF Init, Turns!Init, Ports
<1>2. IInv /\ [Next]_vars => [Turns!Next]_(Turns!vars)
  <2> SUFFICES ASSUME IInv, [Next]_vars PROVE [Turns!Next]_(Turns!vars)
    OBVIOUS
  <2>1. CASE SimStep \/ Terminating \/ UNCHANGED vars
    BY <2>1 DEF SimStep, Notify, RecvInitAck, RecvAct, RunReturns, SimExits,
         NotifySimulationEnd, Terminating, vars, wireVars, agentVars, Turns!vars
  <2>2. ASSUME NEW a \in Agents, InitializeEnv(a) \/ SendRefused(a) \/ Interrupt(a) \/ Close(a)
        PROVE  [Turns!Next]_(Turns!vars)
    BY <2>2 DEF InitializeEnv, SendRefused, Interrupt, Close, wireVars,
         Turns!vars
  <2>3. ASSUME NEW a \in Agents, FirstState(a) \/ StepReturns(a) \/ CloseDrain(a)
        PROVE  [Turns!Next]_(Turns!vars)
    BY <2>3, RxEnvStateTurn DEF FirstState, StepReturns, CloseDrain
  <2>4. ASSUME NEW a \in Agents, SendActions(a) PROVE [Turns!Next]_(Turns!vars)
    BY <2>4, ReplyTurn DEF SendActions
  <2>5. ASSUME NEW a \in Agents, CloseSend(a) PROVE [Turns!Next]_(Turns!vars)
    <3>1. CASE owes[a]
      BY <2>5, <3>1, ReplyTurn DEF CloseSend
    <3>2. CASE ~owes[a]
      <4>1. owes' = owes
        BY <2>5, <3>2 DEF CloseSend, IInv, TypeOK, Ports
      <4> QED BY <2>5, <4>1 DEF CloseSend, Turns!vars
    <3> QED BY <3>1, <3>2
  <2> QED BY <2>1, <2>2, <2>3, <2>4, <2>5 DEF Next, AgentStep
<1> QED BY <1>1, <1>2, Invariance, PTL DEF Spec, TurnTaking, Turns!Spec
===============================================================================
