------------------------------ MODULE Collector -------------------------------
(***************************************************************************)
(* What a node knows of its radio: DataCollectionModuleUtility cuts the    *)
(* time of the node into windows at every channel switch and counts what   *)
(* happens in each, NeighborList remembers who was heard lately, and       *)
(* MyGymEnv hands the closed windows of the control channel to the agent   *)
(* of the node.  A reactive jammer is within reach of the node or not.     *)
(*                                                                         *)
(* The jammers of the scenario are a kilometre apart and the platoon is    *)
(* short: the jammer of this module is the one that the node passes.       *)
(***************************************************************************)
EXTENDS Naturals, Sequences, FiniteSets

CONSTANTS Senders,       \* the other honest nodes that can be heard
          MaxQueueTime,  \* how long a neighbour is remembered
          LevelOutcomes, \* see ReactiveJammer
          MaxTime,       \* bound: the clock of the neighbour list
          MaxWindows,    \* bound: windows
          MaxEvents      \* bound: counted events and reactions in all windows

ASSUME CollectorAssumption ==
    /\ IsFiniteSet(Senders)
    /\ MaxQueueTime \in Nat /\ MaxTime \in Nat
    /\ LevelOutcomes \subseteq BOOLEAN /\ LevelOutcomes # {}
    /\ MaxWindows \in Nat \ {0} /\ MaxEvents \in Nat

CCH == 178
SCH1 == 172
NoChannel == 0    \* currentChannel before the first switch
None == MaxTime + MaxQueueTime + 1

VARIABLES
  (* the node *)
  phy,       \* "ready" (idle or receiving), "tx", "switching"
  channel,   \* the channel number of the radio
  datum,     \* m_datum
  dataset,   \* m_dataset
  latest,    \* the contentionwindowid of latest_datum
  env,       \* what MyGymEnv has copied; its cwid is history
  observed,  \* the states handed to the agent
  ended,     \* NotifySimulationEnd has been called
  list,      \* the expiry time of each neighbour in m_list, or None
  now,       \* Simulator::Now, in units of the neighbour list
  near,      \* the jammer is within 250 m
  (* the jammer, see ReactiveJammer *)
  pending, radio, signal,
  (* history: what happened in each window, and who was heard when *)
  truth, heard, lastRx

Jammer == INSTANCE ReactiveJammer

jamVars    == <<pending, radio, signal>>
windowVars == <<channel, dataset, latest, env, observed>>
nearbyVars == <<list, heard, lastRx>>
vars == <<phy, windowVars, datum, ended, nearbyVars, now, near, jamVars, truth>>

Counters == {"ls", "lc", "le", "ltx"}

(* What is told of a window; jams counts the reactions of a jammer within   *)
(* reach and sent those that were put on the air.                           *)
NewTruth(ch) == [channel |-> ch, ls |-> 0, lc |-> 0, le |-> 0, ltx |-> 0,
                 jams |-> 0, sent |-> 0]

NewDatum == [contentionwindowid |-> 1, currentChannel |-> NoChannel,
             ls |-> 0, lc |-> 0, le |-> 0, ltx |-> 0,
             m_numberofNeighbor |-> 0, m_jammed |-> FALSE]

Init == /\ phy = "ready" /\ channel = CCH
        /\ datum = NewDatum /\ dataset = <<>> /\ latest = 1
        /\ env = NewDatum /\ observed = <<>> /\ ended = FALSE
        /\ list = [s \in Senders |-> None] /\ now = 0 /\ near = FALSE
        /\ Jammer!Init
        /\ truth = <<NewTruth(CCH)>>
        /\ heard = [s \in Senders |-> None] /\ lastRx = None

Window == Len(truth)

(* The bound on events, checked by each of them.                            *)
Events(w) == truth[w].ls + truth[w].lc + truth[w].le + truth[w].ltx + truth[w].jams
MoreEvents ==
    LET UpTo[w \in 0 .. Window] == IF w = 0 THEN 0 ELSE UpTo[w - 1] + Events(w)
    IN  UpTo[Window] < MaxEvents

Happens(what) == truth' = [truth EXCEPT ![Window][what] = @ + 1]

-------------------------------------------------------------------------------
(* Trace functions of the radio.                                            *)

(* RxDrop, RxError and PhyTxEnd.                                            *)
Count(what) == /\ MoreEvents /\ ~ended
               /\ datum' = [datum EXCEPT ![what] = @ + 1]
               /\ Happens(what)
               /\ UNCHANGED <<windowVars, ended, nearbyVars, now, near, jamVars>>

RxDrop  == Count("lc") /\ UNCHANGED phy
RxError == phy = "ready" /\ Count("le") /\ UNCHANGED phy
TxBegin == /\ phy = "ready" /\ ~ended /\ MoreEvents
           /\ phy' = "tx"
           /\ UNCHANGED <<windowVars, datum, ended, nearbyVars, now, near, jamVars, truth>>
TxEnd   == phy = "tx" /\ Count("ltx") /\ phy' = "ready"

(* Bug: an entry goes at its expiry time rather than after it.              *)
BugRefreshList == [s \in Senders |-> IF list[s] # None /\ now >= list[s]
                                       THEN None ELSE list[s]]

(* NeighborList: QueueingTimeExceed and RefreshList.                        *)
RefreshList == [s \in Senders |-> IF list[s] # None /\ now > list[s]
                                    THEN None ELSE list[s]]

(* UpdateList: the sender's entry is replaced.                              *)
UpdateList(s) == list' = [RefreshList EXCEPT ![s] = now + MaxQueueTime]
GetSize == Cardinality({s \in Senders : list'[s] # None})

(* A frame is received: the radio counts it and, if it is a data frame of   *)
(* an honest node, the device hands it on to Receive in the same event.     *)
RxOk(s) == /\ phy = "ready" /\ MoreEvents /\ ~ended
           /\ UpdateList(s)
           /\ datum' = [datum EXCEPT !.ls = @ + 1, !.m_numberofNeighbor = GetSize]
           /\ Happens("ls")
           /\ heard' = [heard EXCEPT ![s] = now] /\ lastRx' = now
           /\ UNCHANGED <<phy, windowVars, ended, now, near, jamVars>>

(* Any other frame that is received, such as a jamming signal on its own.   *)
RxOkOther == phy = "ready" /\ Count("ls") /\ UNCHANGED phy

-------------------------------------------------------------------------------
(* Channel switching.                                                       *)

(* Bug: every window is handed to the agent.                                *)
BugDatumTrace(d) == env' = d /\ observed' = Append(observed, d)

(* MyGymEnv::DatumTrace; Notify returns when the agent has answered.        *)
DatumTrace(d) == /\ env' = d
                 /\ observed' = IF d.currentChannel = CCH THEN Append(observed, d)
                                                          ELSE observed

(* Bug: the error counter is carried into the next window.                  *)
BugReset(d) == [d EXCEPT !.ls = 0, !.lc = 0, !.ltx = 0, !.m_jammed = FALSE,
                         !.contentionwindowid = @ + 1]

(* ResetAfterSwitching on m_datum; the number of neighbours is kept.        *)
Reset(d) == [d EXCEPT !.ls = 0, !.lc = 0, !.le = 0, !.ltx = 0, !.m_jammed = FALSE,
                      !.contentionwindowid = @ + 1]

(* SetChannelNumber by the channel scheduler, which waits for the end of a  *)
(* frame being sent: the state SWITCHING is logged and closes the window,   *)
(* and only then the radio has its new number.  latest_datum is traced only *)
(* if the id of the window has changed, which that of the first has not.    *)
Switch == /\ phy = "ready" /\ ~ended /\ Window < MaxWindows
          /\ dataset' = Append(dataset, datum)
          /\ latest' = datum.contentionwindowid
          /\ \/ datum.contentionwindowid # latest /\ DatumTrace(datum)
             \/ datum.contentionwindowid = latest /\ UNCHANGED <<env, observed>>
          /\ datum' = Reset(datum)
          /\ phy' = "switching"
          /\ channel' = IF channel = CCH THEN SCH1 ELSE CCH
          /\ truth' = Append(truth, NewTruth(channel'))
          /\ UNCHANGED <<ended, nearbyVars, now, near, jamVars>>

(* Bug: the number is read when the switch is announced (as a line that is  *)
(* commented out in ResetAfterSwitching did).                               *)
BugUpdateChannelNumber ==
    /\ phy = "switching" /\ ~ended
    /\ phy' = "ready"
    /\ datum' = [datum EXCEPT !.currentChannel = IF channel = CCH THEN SCH1 ELSE CCH]
    /\ UNCHANGED <<windowVars, ended, nearbyVars, now, near, jamVars, truth>>

(* After the switching delay the radio is ready and UpdateChannelNumber is  *)
(* due.                                                                     *)
UpdateChannelNumber ==
    /\ phy = "switching" /\ ~ended
    /\ phy' = "ready"
    /\ datum' = [datum EXCEPT !.currentChannel = channel]
    /\ UNCHANGED <<windowVars, ended, nearbyVars, now, near, jamVars, truth>>

(* NotifySimulationEnd shows the agent what MyGymEnv holds, if the agent    *)
(* has been shown a window before.                                          *)
End == /\ ~ended
       /\ ended' = TRUE
       /\ observed' = IF observed = <<>> THEN observed ELSE Append(observed, env)
       /\ UNCHANGED <<phy, channel, datum, dataset, latest, env, nearbyVars, now, near,
                      jamVars, truth>>

-------------------------------------------------------------------------------
(* The jammer and its label.                                                *)

(* m_victim of JammerWifiPhy is set by "=+ 1" and starts as 1.              *)
m_victim == 1

(* The trace of SendPacket fires for every reaction.                        *)
TraceFunction_Jammer ==
    datum' = [datum EXCEPT !.m_jammed = @ \/ (m_victim = 1 /\ near)]

Reaction == /\ ~ended /\ MoreEvents
            /\ Jammer!ReactToPacket
            /\ TraceFunction_Jammer
            /\ truth' = IF near
                          THEN [truth EXCEPT ![Window].jams = @ + 1,
                                             ![Window].sent = IF signal'.sent THEN @ + 1 ELSE @]
                          ELSE truth
            /\ UNCHANGED <<phy, windowVars, ended, nearbyVars, now, near>>

JammerStep == /\ ~ended
              /\ Jammer!StartRxHandler \/ Jammer!RadioStep
              /\ UNCHANGED <<phy, windowVars, datum, ended, nearbyVars, now, near, truth>>

Move == /\ ~ended
        /\ near' = ~near
        /\ UNCHANGED <<phy, windowVars, datum, ended, nearbyVars, now, jamVars, truth>>

Tick == /\ ~ended /\ now < MaxTime
        /\ now' = now + 1
        /\ UNCHANGED <<phy, windowVars, datum, ended, nearbyVars, near, jamVars, truth>>

Terminating == ended /\ UNCHANGED vars

Next == \/ RxDrop \/ RxError \/ TxBegin \/ TxEnd \/ RxOkOther
        \/ \E s \in Senders : RxOk(s)
        \/ Switch \/ UpdateChannelNumber \/ End
        \/ Reaction \/ JammerStep \/ Move \/ Tick
        \/ Terminating

Spec == Init /\ [][Next]_vars
-------------------------------------------------------------------------------
Datum == [contentionwindowid : Nat, currentChannel : {NoChannel, CCH, SCH1},
          ls : Nat, lc : Nat, le : Nat, ltx : Nat,
          m_numberofNeighbor : Nat, m_jammed : BOOLEAN]
Truth == [channel : {CCH, SCH1}, ls : Nat, lc : Nat, le : Nat, ltx : Nat,
          jams : Nat, sent : Nat]
Times == 0 .. (MaxTime + MaxQueueTime)

(* Type invariant.                                                          *)
TypeOK == /\ Jammer!TypeOK
          /\ phy \in {"ready", "tx", "switching"} /\ channel \in {CCH, SCH1}
          /\ datum \in Datum /\ dataset \in Seq(Datum) /\ latest \in Nat
          /\ env \in Datum /\ observed \in Seq(Datum) /\ ended \in BOOLEAN
          /\ list \in [Senders -> Times \union {None}] /\ now \in 0 .. MaxTime
          /\ near \in BOOLEAN
          /\ truth \in Seq(Truth)
          /\ heard \in [Senders -> 0 .. None] /\ lastRx \in 0 .. None

(* Window k of the dataset, or the current one.                             *)
Recorded(k) == IF k <= Len(dataset) THEN dataset[k] ELSE datum

(* Every traced event is counted in the window it happened in and in no     *)
(* other, and a window is labelled if and only if a jammer within reach     *)
(* reacted in it, however the traces interleave with the switches.          *)
EventsInTheirWindow ==
    \A k \in 1 .. Window :
        /\ Recorded(k).contentionwindowid = k
        /\ \A what \in Counters : Recorded(k)[what] = truth[k][what]
        /\ Recorded(k).m_jammed <=> truth[k].jams > 0

(* A closed window is recorded with the channel the radio was on, although  *)
(* the number is read after the switching delay; only the first has none.   *)
ChannelRecorded ==
    \A k \in DOMAIN dataset :
        dataset[k].currentChannel = IF k = 1 THEN NoChannel ELSE truth[k].channel

(* Until the end the agent is shown every closed window of the control      *)
(* channel but the first, once, in order, and no other; the state that      *)
(* tells it of the end shows the last closed window of any channel, again   *)
(* if it was of the control channel.                                        *)
ControlWindowsObserved ==
    LET Told  == ended /\ observed # <<>>
        Shown == 1 .. (IF Told THEN Len(observed) - 1 ELSE Len(observed))
        id(j) == observed[j].contentionwindowid
        Control == {k \in 2 .. Len(dataset) : truth[k].channel = CCH}
    IN  /\ {id(j) : j \in Shown} = Control
        /\ \A j \in Shown : observed[j] = dataset[id(j)]
        /\ \A j, k \in Shown : j < k => id(j) < id(k)
        /\ Told => Shown # {} /\ observed[Len(observed)] = dataset[Len(dataset)]

(* The number of neighbours is the number of senders heard within           *)
(* MaxQueueTime of the last reception: it counts everybody heard that       *)
(* recently, and stands still when nothing is received.                     *)
NeighboursOfLastReception ==
    datum.m_numberofNeighbor =
        Cardinality({s \in Senders : /\ heard[s] # None
                                     /\ heard[s] + MaxQueueTime >= lastRx})

(* A window is labelled as jammed only if a jamming signal was sent: the    *)
(* trace behind the label is the "trace callback when a jamming packet is   *)
(* sent".                                                                   *)
JammedMeansSent ==
    \A k \in 1 .. Window : Recorded(k).m_jammed => truth[k].sent > 0
===============================================================================
