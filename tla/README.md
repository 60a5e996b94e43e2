# Verification of the RL4Jam simulation and its learning agents

This directory holds TLA+ models of the jamming experiment in `src/ns3gym/scratch/jam`,
of the OpenGym bridge it runs on (`src/ns3gym/contrib/opengym/model`), and of the
jamming module of the simulation (`src/ns3gym/src/jamming/model`).  The models are
checked with TLC on small instances; the safety properties of every part are also
proved with TLAPS for every value of its constants.

Contents: [the system](#1-the-system), [the plan](#2-the-plan), [the modules](#3-the-modules),
[the runs](#4-the-runs), [fairness](#5-fairness), [the proofs](#6-the-proofs),
[findings](#7-findings), [what is not modelled](#8-what-is-not-modelled).

## 1. The system

A vehicular network of honest nodes and reactive jammers is simulated by ns-3.  Every
honest node cuts its time into windows (the interval between two channel switches) and
counts what its radio did in each.  Every window of the control channel is handed to a
Python agent, one per node, which predicts with a bandit algorithm whether the window
was jammed and learns from the quality of service of the next one.

```
 run.Py ──starts──> ns-3 simulation (one thread)            main.py
    └────starts──────────────────────────────────────────────> │ starts, queue
                                                               v
   jammers ─> data collection ─> gym env ─> OpenGym ══REQ/REP══ agent (one process
              (per node)         (per node)  interface   per    per node: Ns3Env,
                                             (per node)  port   linker, algorithm)
```

| Part | State it keeps | Operations | Interacts with |
|---|---|---|---|
| OpenGym interface (`opengym_interface.cc`) | init sent, simulation ended, stop requested | `Init`, `NotifyCurrentState`, `NotifySimulationEnd`, `WaitForStop` | blocks the simulation thread on the REQ socket of its port |
| Python bridge (`ns3env.py`) | `newStateRx`, `envStopped`, `gameOver`, last observation | `initialize_env`, `rx_env_state`, `send_actions`, `send_close_command`, `close`, `step`, `reset` | REP socket of the same port |
| Gym environment (`mygym.cc`) | copy of the last traced datum | `DatumTrace`, the `Get…` callbacks | traced by the data collection, read by the interface |
| Data collection (`datacollection-module-utility.cc`, `neighborlist.h`) | current datum, list of closed ones, neighbour list | trace functions, `ResetAfterSwitching`, `UpdateChannelNumber`, `Receive` | radio trace sources, jammer trace source |
| Reactive jammer (`reactive-jammer.cc`, `jammer-wifi-phy.cc`, `wireless-module-utility.cc`) | pending jamming event, `m_victim` | `DoStartRxHandler`, `ReactToPacket`, `UtilitySendPacket` | channel, data collection of every node |
| Learning agent (`execute.py`) | process values, confusion matrix, graph lists | `init_execute`, `run`, `execute`, performance values | linker, algorithm, queue |
| Linkers (`linker/`) | `i`, `done`, current data, histories | `next`, `getQOS`, `getEvaluation` | bridge or dataset files |
| Bandits (`algo/`) | round, counts or matrices, contexts | `choose_action`, `update_reward`, `appendContext` | agent |
| Experiment (`main.py`, `run.Py`) | child processes, queue, best model, reports | two phases, join, report | agents, simulation |
| Best-model tables (`execute.py`, `PDFGenerator.py`) | two CSV files, plots, data files, reports | `resetPlotImg`, `save_images`, `save_node_data`, `GeneratePDF`, `findGlobalBest`, `findModeBest` | experiment; outlive the process |

Hard behaviours, with what makes each part correct:

* **Bridge.**  Nine processes over eight strictly alternating channels, one of them a
  single thread that blocks on whichever channel it wrote last.  Requests and replies
  must alternate on every port; windows must reach their agent once, in order, and
  fresh; the simulation must not move while somebody thinks; the end must reach
  everyone, and the reply to it must not be taken for a stop; an interrupted client
  must bring the simulation down.
* **Agent.**  Rewards arrive one round late and are credited by remembered indices; the
  counters of the report are updated in different branches.  Every decision must be
  made on, labelled with and credited to its own window; the counts must be those of
  the lists; a result must be sent whenever one can be computed.
* **Experiment.**  Two phases share a queue whose size runs ahead of its contents,
  children may die before they put anything, a `get` may time out.  Phases must not
  mix, the best model must be used, the report must be complete, everything must end.
* **Data collection and jammer.**  Traces of the radio, of the jammers and of the
  receive path interleave with the channel switch and its delayed update.  Every event
  must be counted in exactly one window, every closed control-channel window must be
  handed over exactly once, the label must be justified.
* **Best-model tables.**  Files are rewritten row by row by a process that may be stopped
  anywhere, rows are found by their value and dropped by their name, and what is in
  `plot/` and `data/` may be from another experiment.  The tables must keep the best
  reports and agree with each other, and a report must show its own experiment.

The complete list of hazards, each at its line, is in `PROJECT.json`.

## 2. The plan

Modules are written bottom-up along the path of a window: how it gets to an agent, what
the agent does with it, what the experiment does with the agents, and where the window
came from.

| # | Module | Models | State |
|---|---|---|---|
| 1 | `GymTurns` | what the bridge promises (abstract) | done |
| 2 | `OpenGym` | the bridge, both sides, all ports | done, proved |
| 3 | `JamAgent` | one learning agent with its linker, its evaluator and the bookkeeping of its bandit | done, proved |
| 4 | `Phases`, `Experiment` | what `main.py` promises (abstract); `run.Py` and `main.py` around `OpenGym` | done, proved |
| 5 | `ReactiveJammer`, `Collector` | the jammer and the windows of one node | done, proved |
| 6 | `Reports` | the files a series of experiments leaves: plots, data, reports and the two tables of the best | done, proved |

A module for the QoS computers was planned and given up: the modes with a history are
unreachable (section 8).  What the bandits keep under delayed rewards became part of
`JamAgent`, because it is the agent that decides when a reward comes.

`GymTurns` is an abstract specification refined by `OpenGym`, `Phases` one refined by
`Experiment`, which refines `OpenGym` as well.  The tables need none of
their own: `KeepsBest` is stated over everything a table was ever offered, which is what
an abstract table of the best would keep.

Each run answers one question (section 4), in at most a minute or so.  Section 6 lists
the theorems.

## 3. The modules

### OpenGym, GymTurns

`OpenGym` has the simulation thread (`simPc`, `cur`, and per interface `initSent`,
`simEnd`, `win`), the ZeroMQ pair of each port (`req`, `rep`, and `owes`: the REP socket
must send before it may receive) and one Python process per port (`pc` and the fields of
`Ns3ZmqBridge`).

| Action | Code |
|---|---|
| `Notify` | `MyGymEnv::DatumTrace` → `OpenGymInterface::NotifyCurrentState` up to the blocking receive; the first call goes through `Init` |
| `RecvInitAck` | `Init` returns and `NotifyCurrentState` sends its state message |
| `RecvAct` | the rest of `NotifyCurrentState`: dropped reply at the end, `exit` on a stop request, or the action |
| `RunReturns`, `NotifySimulationEnd`, `SimExits` | the end of `ScenarioSetup` and its loop over the interfaces |
| `InitializeEnv`, `FirstState` | the constructor of `Ns3Env` |
| `SendActions`, `SendRefused`, `StepReturns` | `Ns3Env.step` in the client's loop; a refused send is a `ZMQError` |
| `Close`, `CloseDrain`, `CloseSend` | `Ns3ZmqBridge.close`; `RxEnvState` is `rx_env_state` |
| `Interrupt` | Ctrl-C in the loop of `ns3test.py` |

A state message carries the number of its window; observations, rewards and actions
have no effect on the protocol (`ExecuteActions` of `MyGymEnv` does nothing).
`FirstCheckedRound` tells the two clients apart: `execute.py` ignores the done flag of
the step `init_execute` makes, `ns3test.py` tests every one.

`GymTurns` is the promise: agents take turns, windows come in order, nothing follows the
end.  The refinement maps *holding a turn* to the reply the socket owes.

`CanMove` says when a client has something to do by itself or has what it waits for;
`NoCircularWait`, that a simulation blocked on a client has its reply or the client can
move.  It is what `InterruptStopsSimulation` needs of a single state.

### JamAgent

State is that of `execute.py`: the linker's `i` and `done`, the contexts and rounds of
the algorithm, `dict_process_value`, `dict_conf_matrix`, `dict_graph_list`.  A window is
its number; its label and its QoS are inputs of the round.  `InitExecute`, `Round`
(linker, `run`, loop test), `ReadFails` and `Results` are the operations.  `learned`
stands for the algorithm's matrices: the sequence of `update_reward` calls determines
them.  `chosen` is history.  `mode` is fixed at the start: a fresh agent on a dataset, a
fresh or a pretrained one on the simulation, and the algorithm.  The algorithms share the
first rounds, in which the arms take turns, and differ afterwards: `Random` takes no
turns, the scores of a fresh `UCB1` are computed (counts, values, and the division by the
count of an arm that was pulled and never rewarded), `LinTS` fails in its constructor, and
the others choose either arm, since their scores are samples or real-valued algebra.

### Experiment, Phases

`Experiment` instantiates `OpenGym` and puts `main.py`, `run.Py`, the children of both
phases and the queue around it.  A live child takes the steps of its `OpenGym` agent once
it has been started, then computes and puts its results.  `qsize` moves at `put`, `pipe`
when the feeder thread writes.  What `JamAgent` shows of the end of an episode, that the
results may not be computable, is the choice `MayFail` here.

`Phases` is the promise of `main.py` without queue, pipe or busy wait: the results of a
phase are looked at when all of them are there, each once, a model gives way only to one
as good, and the learning starts when every pretraining has been received.  The
refinement maps the results a phase has to the children that have put one, and the
received ones of the pretraining, which no variable holds, to those that were flushed and
are not in the pipe any more.

### Reports

`Reports` is about files, and its state outlives `main.py`: a series of experiments, one
after the other.  `Start` clears the plots, `ChildSaves` writes the plots and the data of
a node, `Report` and `FindBest` are the end of `main.py`.  An experiment may be stopped
anywhere, also while a table is being written, which leaves an empty file; the table can
then be lost, and created anew, or stay broken.  A table is a set of rows: rows are only
appended, so their order in the file is that of their numbers, and `Worst` picks the row
that the `<=` of the search for the minimum ends with.  `listing` is the order in which
`glob` returns the data directories, arbitrary and fixed.  `offered`, `lost` and `cut` are
history.

### ReactiveJammer, Collector

`Collector` is one node: the state of its radio, the current datum, the closed ones, what
`MyGymEnv` copied and what the agent was shown, and the neighbour list with its clock.
It instantiates `ReactiveJammer`: the scheduled reaction, the radio of the jammer, and
what the last reaction did.  Trace functions are actions (`RxDrop`, `RxError`, `TxEnd`,
`RxOk`, `RxOkOther`, `Reaction`); `Switch` is the whole chain that the `SWITCHING` state
of the radio sets off, from the closing of the window to the agent's answer, and
`UpdateChannelNumber` the event it leaves scheduled.  `truth`, `heard` and `lastRx` are
history, kept apart from the variables of the code.

## 4. The runs

| Run | Bounds | Question |
|---|---|---|
| `gym_episode` | 3 agents, interfaces, nodes; 0–3 windows each | With nobody interrupted, does the bridge keep its protocol, deliver every window once, fresh and in order, freeze the simulation meanwhile, send nothing on a port after its game-over message, refine `GymTurns`, and end; and what can a node that closes no window, or one, do to its agent? |
| `gym_interrupt` | 2 interactive clients; 0–2 windows | Does an interrupted client bring the simulation down, and only an interrupted one; can both sides ever wait for each other? |
| `gym_mismatch` | 2 agents, 3 interfaces | (violation) `run.Py` with fewer agents than interfaces |
| `agent_rounds` | 6 windows, 3 QoS values, fluctuation 1; every algorithm, live or on a dataset | Does a pretrained agent decide on the window of its round, is every live decision credited exactly once and every round counted on the right side, does a fresh `UCB1` try both arms, and when can no result be sent? |
| `agent_labels` | as above, fresh agent on a dataset | (violation) labels and windows |
| `agent_judge` | as above, pretrained live agent | (violation) the prediction and its reward |
| `exp_phases` | 3 nodes, 2 performances, failures and late results allowed | Do the phases mix; is the best model used; is the report complete; does everything end if nobody fails, and nothing once somebody has; does `main.py` implement `Phases`? |
| `exp_spins` | 2 nodes, failures allowed | (violation) a child that dies |
| `collector_windows` | 2 senders, 4 windows, 2 counted events, clock 0–2 | Is every event in its window and every control window shown? |
| `collector_label` | 1 sender, 3 windows, 2 events | (violation) what a label means |
| `reports_tables` | 4 experiments of 2 modes and 2 performances on 1–3 nodes with 2 data directories; tables of 2 rows | Do the tables keep the best, agree, and name reports that exist and show their own experiment, wherever experiments are stopped? |
| `reports_nodes` | 1 node, 2 data directories | (violation) whose data a report lists |

Why the bounds are enough.  Three ports are the smallest number for which "another agent
than the first and than the one before" exists, and the code treats ports alike.  Three
windows are the first, one in the middle and a last; the init exchange makes the first
one special and `simEnd` the last one; none and one are the short episodes.  Six windows
let the first pull of both arms, the first reward of each and two choices by score happen
on a live run, where rewards come a round late; the three QoS values are two neighbours within
the accepted fluctuation and two extremes that are not.  Three children can finish in
any order, each with a better, a worse or an equal model than the best before, and any of
them can fail while the others succeed.  Four windows of the collector are the untraced first one, one of each
channel after it and the current one; two events can fall in one window or in two, on
either side of a switch or of the delayed update.  `MaxQueueTime` 1 with a clock up to 2
has a neighbour on, before and after its expiry.  Four experiments fill a table of two
rows and replace each of them, with a tie and with an order, in one mode or across two;
three nodes with two directories is the `nb_node` nobody clamps.

Deadlock is checked in `agent_*`, `collector_*` and `reports_*`: `Terminating` is enabled
only where the program is over.  It is off in `gym_*` and `exp_*`, where the code really
stops for good, a client that waits for a simulation that is gone or a `main.py` that
spins, and the properties say in which cases that may happen.

## 5. Fairness

`OpenGym` assumes weak fairness of the simulation thread and of each Python process: ns-3
runs to its stop time, a blocking receive returns once a message is there, and the
operating system suspends nobody for ever.  `Interrupt` is outside: nobody owes a Ctrl-C.
`Experiment` assumes the same of `main.py`, `run.Py` and the children, feeder threads
included; a timeout is never owed.  `JamAgent`, `Collector` and `Reports` state safety
only.
Liveness is checked by TLC; it is out of the reach of the prover.

## 6. The proofs

Each proof module extends the module it is about, strengthens its invariants to an
inductive `IInv`, shows that `IInv` holds initially and is kept by every action, and
derives the theorems from `Invariance`.  The only assumptions are those on the constants.
`IInv` was checked by TLC on the instances of section 4 before it was proved.

### OpenGymProofs

`OpenGymProofs` proves, for any number of interfaces, agents, nodes and windows and for
both clients, from `OpenGymAssumption` alone:

| Theorem | Says |
|---|---|
| `TypeCorrect` | the type invariant, which TLC checks as a part of that of `Experiment` in `exp_phases` |
| `LockstepCorrect` | at most one exchange over all ports, in one place, on the port the simulation is blocked on |
| `WindowsCorrect` | an agent in its loop has been handed every window once, in order, and answers the present one |
| `CrashCorrect` | a client dies of a refused send only after an episode of a single window |
| `NoOrphanCorrect` | a simulation that ends leaves nobody waiting but the clients of nodes that closed no window |
| `KilledCorrect` | the simulation is killed only on behalf of an interrupted client |
| `FrozenCorrect` | the simulation stands still while an agent thinks |
| `NoCircularWaitCorrect` | a simulation blocked on a client has a reply it accepts, or the client can move, wherever it was interrupted |
| `UnservedBlocksForEver` | a simulation that waits on a port nobody serves never takes another step |
| `GameOverCorrect` | after the game-over message of a port nothing more is sent on it, and it is not answered twice |
| `TurnsRefined` | `OpenGym` implements `GymTurns` |

None of the invariants is inductive.  `Lockstep` says where the one exchange is, not what
the message in it says nor who sent it: a state message from nowhere could carry any
window.  `IInv` adds

* `WireInv`: an init exchange comes before the first window of a port, and a state
  message in flight carries the window and the end flag the simulation stands at;
* `EndInv`: the interfaces told of the end are those below the loop index;
* `ClientInv`: where a client is determines what it has received, and its window is the
  interface's, or one behind while a request is posted;
* `KillInv`: replies come from Python processes only.

`IInv` is shown to hold initially (`InitIInv`) and to be kept by every action, one lemma
each, joined in `NextIInv`; the lemma `RxEnvStateReceives` reduces the three callers of
`rx_env_state` to one effect.  `Invariance` follows with PTL, and the other theorems from
it; the refinement adds one lemma for the receive and one for the reply.

`NoCircularWait` needs an invariant of its own, `MoveInv`, which is inductive on top of
`IInv`.  A window is held only at the four places of the client that end in an answer; a
client is in its constructor exactly as long as the init message waits for it; a state
that was received is still to be answered, unless it was the last one, so that `close`
does not drain one it has already got; and a client that is gone without having seen the
end has left its stop command on the wire.  One conjunct each rules out one way of
waiting in a circle.  `UnservedBlocksForEver` is the exact form of the finding
`gym_mismatch`: only a Python process writes replies (`KillInv`).

### JamAgentProofs

For episodes of any length, any QoS values and any fluctuation:

| Theorem | Says |
|---|---|
| `TypeCorrect` | the type invariant |
| `DecisionsOnTime` | in round k a pretrained agent decides on window k, and a fresh one on the window before |
| `CreditOneRoundLate` | live rewards are credited once, in order, one round late, under the decision they are about |
| `AccuracyBounded` | no accuracy exceeds one |
| `MatrixExact` | the confusion matrix is that of the lists |
| `SendingCorrect` | which episodes end in a report and which in an exception |
| `FirstRoundsFixed` | the first four decisions of a fresh `UCB1` on a dataset, and its third on a live run |
| `LabelsOneBehind` | on a dataset, every label is learned with the window before the one it labels |

The properties compare lists that several functions extend, so `IInv` says that they grow
together: in the loop, all lists of the graphs are as long as `chosen`, the contexts are
one ahead for a fresh agent (`WindowInv`), `learned` is one behind on a live run, and
`proc` holds the last entry of each list (`RoundInv`).  `EpisodeInv` ties the linker to
the number of rounds.  `CountInv` says that a count of the matrix is zero exactly if no
entry of a list makes it so, which turns a division by zero into the absence of an
entry.  `MatrixExact` counts sets of indices: each round adds its index to the sets its
counters are about (`ConfusionStep`).

`UcbFirstRounds` is about scores that are quotients.  The code compares them; the model
cross-multiplies them, and the prover gets the products by cases, since the counts are
at most two: with a count of zero the other arm cannot win, and with one pull each the
winner is pulled, falls behind by its greater count whatever its reward, and the other is
next (`UcbInv` carries the counts from round to round).  `LabelsOneBehind` is the exact
form of the finding `agent_labels`, as `CreditOneRoundLate` is of `agent_judge`.

### CollectorProofs

For any finite set of senders, any number of windows and events, any `MaxQueueTime`:

| Theorem | Says |
|---|---|
| `TypeCorrect` | the type invariant |
| `EventsCounted` | every event is counted in the window it happened in |
| `ChannelsCorrect` | a closed window carries the channel it was observed on |
| `NeighboursCorrect` | the neighbour count is that of the last reception |
| `ObservationsCorrect` | the agent is shown the windows of the control channel but the first, once and in order |
| `NoSignalUnlabelled` | a window in which the jammer put a signal on the air is labelled as jammed |

`ChannelRecorded` is about closed windows, and a window is closed before the delayed
update of its successor: `ChannelInv` says that the present datum knows the channel
except between the two, and that the radio is then still switching, so that no window
can be closed.  `NeighbourInv` says that the list holds exactly the senders heard
`MaxQueueTime` before the last reception, with their expiry.

`ControlWindowsObserved` compares two lists of different length: the ids in the shorter
are those of the closed control windows, they grow, and each points to the window it
names (`ShownAre`).  `ObservedInv` adds what the code tests before it shows a window: the
id `latest_datum` remembers is that of the last closed window, and what `MyGymEnv` has
copied is that window, unless it is the untraced first.  `NoSignalUnlabelled` is the half of the label that holds, against the
finding `collector_label`: a signal implies a reaction, and every reaction is traced.

### ExperimentProofs

For one to nine nodes and any performances:

| Theorem | Says |
|---|---|
| `PhasesKeptApart` | the queue holds results of one phase, each once |
| `BestModelKept` | no pretraining beats the model of the live phase |
| `ReportsAllNodes` | the report is written from the results of all nodes |
| `FailureIsForEver` | once a child has died `main.py` never leaves the wait of its phase |
| `SpinsCorrect` | a wait is over when all the children of the phase have exited: only a failure makes it endless |
| `PhasesRefined` | `Experiment` implements `Phases` |
| `FailuresAreShortEpisodes` | if results can be computed, a child dies only when its node closed exactly one window |
| `BridgeRefined` | every behaviour of an experiment is one of `OpenGym` |
| `TypeCorrect` | the type invariant, with that of the bridge and the range of the queue counter |

`Queue` relates the children of one phase, the pipe and the counter: the pipe holds each
flushed result that was not received once, and the counter is ahead by those put and not
flushed.  It is stated for any phase and kept by each of the operations put, die, flush
and get (one lemma each).  The busy wait then ends only if everybody has put, because a
set of nodes as large as the set of the nodes is that set (`QueueFull`), and the loop of
the gets only if everything has been received (`QueueEmpty`); so nothing of the
pretraining is left when the live children start, and none of its children is alive.
The received set of the pretraining is not a variable: `DeadInv` says that there is one,
and `ReceivedAre` that it can only be the one of the refinement of `Phases`.  That
refinement has a lemma for each step of `main.py` and of the children: a `get` is a
`Choose` or a `Collect`, a `put` a `Put`, and everything between, waits, joins and the
feeder threads, does nothing that `Phases` can see.

`FailureIsForEver` and `SpinsCorrect` are together the exact form of the finding
`exp_spins`, and the safety half of `EndsUnlessFailure`.

`BridgeRefined` composes the proofs as `Experiment` composes the models: every step of an
experiment is one of `OpenGym` (instance `Gym`) or leaves its variables alone.  The
theorems are those of the instance `GP` of `OpenGymProofs`, whose definitions are shown
to be those of `Gym` (`SameInit`, `SameTypes`, `SameSimStep`, `SameAgentStep`); so the
invariants of the bridge hold although children are started late and may die.
`FailuresAreShortEpisodes` uses one of them, `CrashCorrect`: what the wire can do to a
client is what can make `main.py` spin.

### ReportsProofs

For any number of experiments, modes, nodes and any size of a table:

| Theorem | Says |
|---|---|
| `TypeCorrect` | the type invariant |
| `BestKept` | a table keeps the best of what it was offered |
| `TablesAgree` | a report among the best of all is among the best of its mode |
| `ReportsExist` | a row names a report that exists |
| `ReportsTrue` | a report draws the plots of its own experiment |
| `SilenceCorrect` | an empty `best.csv` ends all writing |

The hard one is `TablesAgree`, because of ties: which of two rows of one performance is
given up depends on their order, and both tables have to choose alike.  Suppose that
`best.csv` keeps a row which the table of its mode gives up or turns down.  The latter is
then full of rows that `best.csv` was offered, too, and since both have the same size,
one of them is not in `best.csv` any more (`OutsideBest`).  It is no better than the rows
`best.csv` kept and no worse than the row in question, hence a tie.  `TableOK` decides
it: a row that outlives an earlier one of its performance is the last that entered.

### What is only model-checked

Liveness, which the prover does not reach: `EveryoneFinishes`, `InterruptStopsSimulation`
and `EndsUnlessFailure`.  What they need of single states and steps is proved
(`NoCircularWaitCorrect`, `NoOrphanCorrect`, `SpinsCorrect`, `FailureIsForEver`); that the
steps which are possible are also taken, under the fairness of section 5, is left to TLC.
All the other properties of the passing runs are theorems.  That the inductive invariants
hold of the instances was checked before they were proved, and the theorems which state no
property of a run (`LabelsOneBehind`, `NoSignalUnlabelled`, `SpinsCorrect`,
`FailuresAreShortEpisodes`, `UnservedBlocksForEver`) are about what the findings come to.

## 7. Findings

* `gym_mismatch`: `run.Py` starts the simulation with eight interfaces whatever number of
  nodes it was given; with fewer agents the simulation blocks on the first port nobody
  serves, and everybody waits.
* `exp_spins`: a child whose results divide by zero, or index an empty list, exits before
  `q.put`, and `main.py` spins for ever on the size of the queue.
* `agent_labels`: a model that starts from nothing keeps the window that was read only to
  size it, so every label of a pretraining is learned with the window before its own.
* `agent_judge`: the previous prediction is the string `"0"` or `"1"`, and both are true;
  a reward does not depend on what was predicted.
* `collector_label`: a window is labelled as jammed although the jammer's radio, still
  sending or switching channels, put nothing on the air.
* `reports_nodes`: with fewer nodes than data directories a report lists the files of the
  first directories `glob` returns, stale ones of other nodes among them.

Seen while reading, without a run: `type=bool` makes `pretrain_mode` true for every
non-empty argument, so that switching the pretraining off in `run.Py` does not
(`Pretrains` in `Experiment` models it); `LinTS` uses an undefined name in its
constructor (it crashes in `JamAgent`); `minRxOkPowerW` starts as 0 and is only ever lowered; `m_victim =+ 1` assigns.

## 8. What is not modelled

* The radio channel, the MAC layers and mobility of ns-3: external.  `Collector` takes
  their events in any order its radio state allows.  The assumption it makes of the
  scenario is that at most one jammer is within reach of a node: jammers are a kilometre
  apart and reach 250 m.
* The scores of the bandits other than `UCB1`: they are samples of distributions or
  real-valued linear algebra, so the arm they choose is a free choice in `JamAgent`.
* The QoS computers: the QoS of a window is an input of `JamAgent`.  `Linker.getQOS`
  passes no mode, so the computer runs in its default mode whatever the command line
  says; nothing is ever appended to the histories the windowed modes average over, and
  the iteration they weight by stays the one the computer was built with.  Those modes
  cannot be reached.
* Layout of the reports and plots, the upload to Google Drive and the viewer: input and
  output without state.
* A Ctrl-C between the receive of `rx_env_state` and `newStateRx = True` (`ns3env.py:180`):
  the signal arrives between two bytecodes and `OpenGym` interrupts only between calls.
* The prototypes outside `src/ns3gym` (`algossim` and its variants): older versions of the
  same agent.
* The vendored ns-3 tree.
