---------------------------- MODULE CollectorProofs ---------------------------
(***************************************************************************)
(* Machine-checked proofs about Collector, for any number of senders, of   *)
(* windows and of events.                                                  *)
(***************************************************************************)
EXTENDS Collector, FiniteSetTheorems, TLAPS

(* The inductive strengthening the proofs of CollectorProofs rest on.       *)

(* There is one window more than closed ones, and its datum says so.        *)
WindowInv == Window = Len(dataset) + 1

(* The datum knows the channel except while the radio switches to it and in *)
(* the first window; a radio that is switching is past that one.            *)
ChannelInv ==
    /\ truth[Window].channel = channel
    /\ IF phy = "switching" THEN Window > 1
       ELSE datum.currentChannel = IF Window = 1 THEN NoChannel ELSE channel

(* The neighbour list as of the last reception: an entry expires            *)
(* MaxQueueTime after its sender was heard, and is there until then.        *)
Recent(s) == heard[s] # None /\ heard[s] + MaxQueueTime >= lastRx

NeighbourInv ==
    /\ \A s \in Senders : heard[s] # None => heard[s] <= now /\ lastRx # None
    /\ lastRx # None => lastRx <= now
    /\ \A s \in Senders : list[s] # None <=> Recent(s)
    /\ \A s \in Senders : list[s] # None => list[s] = heard[s] + MaxQueueTime
    /\ datum.m_numberofNeighbor = Cardinality({s \in Senders : list[s] # None})

IInv == TypeOK /\ WindowInv /\ EventsInTheirWindow /\ ChannelInv /\ ChannelRecorded
        /\ NeighbourInv
-------------------------------------------------------------------------------
(* What the types say of the places the steps look at.                      *)
LEMMA Places ==
    ASSUME TypeOK, WindowInv
    PROVE  /\ Window \in Nat /\ Window >= 1 /\ Len(dataset) = Window - 1
           /\ DOMAIN truth = 1 .. Window /\ DOMAIN dataset = 1 .. Window - 1
           /\ truth[Window] \in Truth /\ datum \in Datum
           /\ Recorded(Window) = datum
<1>1. truth \in Seq(Truth) /\ dataset \in Seq(Datum) /\ datum \in Datum
  BY DEF TypeOK
<1>2. Window \in Nat /\ Len(dataset) \in Nat /\ Window = Len(dataset) + 1
  BY <1>1 DEF Window, WindowInv
<1>3. DOMAIN truth = 1 .. Window /\ DOMAIN dataset = 1 .. Len(dataset)
  BY <1>1 DEF Window
<1>4. truth[Window] \in Truth
  BY <1>1, <1>2, <1>3
<1> QED
  BY <1>1, <1>2, <1>3, <1>4 DEF Recorded

(* A change of the told window, and of no other.                            *)
LEMMA ToldWindow ==
    ASSUME TypeOK, WindowInv, NEW t \in Truth, truth' = [truth EXCEPT ![Window] = t],
           dataset' = dataset
    PROVE  /\ truth' \in Seq(Truth) /\ Window' = Window /\ WindowInv'
           /\ truth'[Window] = t
           /\ \A k \in 1 .. Window : k # Window => truth'[k] = truth[k]
<1>1. truth \in Seq(Truth) /\ Window \in DOMAIN truth /\ DOMAIN truth = 1 .. Window
  BY Places DEF TypeOK
<1>2. truth' \in Seq(Truth) /\ Len(truth') = Len(truth)
  BY <1>1
<1> QED
  BY <1>1, <1>2 DEF Window, WindowInv

(* What is recorded of every window but the current one stays.              *)
LEMMA OthersRecorded ==
    ASSUME TypeOK, WindowInv, dataset' = dataset, Window' = Window
    PROVE  /\ \A k \in 1 .. Window : k # Window => Recorded(k)' = Recorded(k)
           /\ \A k \in 1 .. Window : k = Window => Recorded(k)' = datum'
<1>1. Window \in Nat /\ Len(dataset) = Window - 1
  BY Places
<1>2. \A k \in 1 .. Window : k = Window => Recorded(k)' = datum'
  BY <1>1 DEF Recorded
<1>3. ASSUME NEW k \in 1 .. Window, k # Window
      PROVE  Recorded(k)' = Recorded(k)
  BY <1>1, <1>3 DEF Recorded
<1> QED
  BY <1>2, <1>3

(* One event of the current window, counted: the shape of every trace of    *)
(* the radio.                                                               *)
LEMMA CountedOnce ==
    ASSUME IInv, NEW what \in Counters, Happens(what), dataset' = dataset,
           datum' \in Datum, datum'[what] = datum[what] + 1,
           \A w \in Counters : w # what => datum'[w] = datum[w],
           datum'.contentionwindowid = datum.contentionwindowid,
           datum'.m_jammed = datum.m_jammed
    PROVE  /\ truth' \in Seq(Truth) /\ Window' = Window /\ WindowInv'
           /\ EventsInTheirWindow'
           /\ \A k \in 1 .. Window : truth'[k].channel = truth[k].channel
<1> DEFINE t == [truth[Window] EXCEPT ![what] = @ + 1]
<1>1. TypeOK /\ WindowInv /\ EventsInTheirWindow
  BY DEF IInv
<1>2. Window \in Nat /\ Window \in 1 .. Window /\ truth[Window] \in Truth /\ Recorded(Window) = datum
  BY <1>1, Places
<1>3. /\ t \in Truth /\ t[what] = truth[Window][what] + 1
      /\ \A w \in Counters : w # what => t[w] = truth[Window][w]
      /\ t.channel = truth[Window].channel /\ t.jams = truth[Window].jams
  BY <1>2 DEF Truth, Counters
<1>4. truth' = [truth EXCEPT ![Window] = t]
  BY DEF Happens
<1> HIDE DEF t
<1>5. /\ truth' \in Seq(Truth) /\ Window' = Window /\ WindowInv'
      /\ truth'[Window] = t
      /\ \A k \in 1 .. Window : k # Window => truth'[k] = truth[k]
  BY <1>1, <1>3, <1>4, ToldWindow
<1>6. /\ \A k \in 1 .. Window : k # Window => Recorded(k)' = Recorded(k)
      /\ \A k \in 1 .. Window : k = Window => Recorded(k)' = datum'
  BY <1>1, <1>5, OthersRecorded
<1>7. EventsInTheirWindow'
  <2>1. SUFFICES ASSUME NEW k \in 1 .. Window
                 PROVE  /\ Recorded(k)'.contentionwindowid = k
                        /\ \A w \in Counters : Recorded(k)'[w] = truth'[k][w]
                        /\ Recorded(k)'.m_jammed <=> truth'[k].jams > 0
    BY <1>5 DEF EventsInTheirWindow
  <2>2. /\ Recorded(k).contentionwindowid = k
        /\ \A w \in Counters : Recorded(k)[w] = truth[k][w]
        /\ Recorded(k).m_jammed <=> truth[k].jams > 0
    BY <1>1 DEF EventsInTheirWindow
  <2>3. CASE k # Window
    BY <1>5, <1>6, <2>2, <2>3
  <2>4. CASE k = Window
    <3>1. Recorded(k)' = datum' /\ truth'[k] = t /\ Recorded(k) = datum
      BY <1>2, <1>5, <1>6, <2>4
    <3>2. \A w \in Counters : datum'[w] = t[w]
      BY <1>3, <2>2, <2>4, <3>1
    <3>3. datum'.m_jammed <=> t.jams > 0
      BY <1>3, <2>2, <2>4, <3>1
    <3> QED
      BY <2>2, <3>1, <3>2, <3>3
  <2> QED
    BY <2>3, <2>4
<1>8. ASSUME NEW k \in 1 .. Window
      PROVE  truth'[k].channel = truth[k].channel
  BY <1>3, <1>5
<1> QED
  BY <1>5, <1>7, <1>8
-------------------------------------------------------------------------------
(* What the parts of the invariant rest on.                                 *)

(* The channels stay recorded while the node only counts.                   *)
LEMMA ChannelsKept ==
    ASSUME IInv, Window' = Window, dataset' = dataset, channel' = channel,
           \A k \in 1 .. Window : truth'[k].channel = truth[k].channel,
           datum'.currentChannel = datum.currentChannel,
           phy' = "switching" <=> phy = "switching"
    PROVE  ChannelInv' /\ ChannelRecorded'
<1>1. /\ Window \in Nat /\ Window \in 1 .. Window /\ DOMAIN dataset = 1 .. Window - 1
      /\ DOMAIN dataset \subseteq 1 .. Window
  BY Places DEF IInv
<1>2. ChannelInv'
  BY <1>1 DEF IInv, ChannelInv
<1>3. ChannelRecorded'
  BY <1>1 DEF IInv, ChannelRecorded
<1> QED
  BY <1>2, <1>3

(* The neighbours stay what they are while nothing is received.             *)
LEMMA NeighboursKept ==
    ASSUME IInv, list' = list, heard' = heard, lastRx' = lastRx,
           datum'.m_numberofNeighbor = datum.m_numberofNeighbor,
           now' \in Nat, now' >= now
    PROVE  NeighbourInv'
<1>1. /\ now \in Nat /\ lastRx \in Nat /\ \A s \in Senders : heard[s] \in Nat
  BY CollectorAssumption DEF IInv, TypeOK, None
<1>2. \A s \in Senders : heard'[s] # None => heard'[s] <= now' /\ lastRx' # None
  BY <1>1 DEF IInv, NeighbourInv
<1>3. lastRx' # None => lastRx' <= now'
  BY <1>1 DEF IInv, NeighbourInv
<1>4. /\ \A s \in Senders : list'[s] # None <=> Recent(s)'
      /\ \A s \in Senders : list'[s] # None => list'[s] = heard'[s] + MaxQueueTime
      /\ datum'.m_numberofNeighbor = Cardinality({s \in Senders : list'[s] # None})
  BY DEF IInv, NeighbourInv, Recent
<1> QED
  BY <1>2, <1>3, <1>4 DEF NeighbourInv
-------------------------------------------------------------------------------
(* One lemma per kind of step.                                              *)

(* Nothing is counted, closed or received.                                  *)
LEMMA QuietStep ==
    ASSUME IInv, UNCHANGED <<channel, datum, dataset, list, heard, lastRx, truth>>,
           phy' = "switching" <=> phy = "switching", now' >= now, TypeOK'
    PROVE  IInv'
<1>1. Window' = Window /\ WindowInv'
  BY DEF IInv, Window, WindowInv
<1>2. EventsInTheirWindow'
  BY <1>1 DEF IInv, EventsInTheirWindow, Recorded
<1>3. ChannelInv' /\ ChannelRecorded'
  BY <1>1, ChannelsKept
<1>4. now' \in Nat
  BY CollectorAssumption DEF TypeOK
<1>5. NeighbourInv'
  BY <1>4, NeighboursKept
<1> QED
  BY <1>1, <1>2, <1>3, <1>5 DEF IInv

(* RxDrop, RxError, TxEnd and RxOkOther.                                    *)
LEMMA CountStep ==
    ASSUME IInv, NEW what \in Counters, Count(what), phy' \in {"ready", "tx", "switching"},
           phy' = "switching" <=> phy = "switching"
    PROVE  IInv'
<1>1. /\ datum' = [datum EXCEPT ![what] = @ + 1] /\ Happens(what)
      /\ UNCHANGED <<windowVars, ended, nearbyVars, now, near, jamVars>>
  BY DEF Count
<1>2. datum \in Datum
  BY DEF IInv, TypeOK
<1>3. /\ datum' \in Datum /\ datum'[what] = datum[what] + 1
      /\ \A w \in Counters : w # what => datum'[w] = datum[w]
      /\ datum'.contentionwindowid = datum.contentionwindowid
      /\ datum'.m_jammed = datum.m_jammed
      /\ datum'.currentChannel = datum.currentChannel
      /\ datum'.m_numberofNeighbor = datum.m_numberofNeighbor
  BY <1>1, <1>2 DEF Datum, Counters
<1>4. /\ truth' \in Seq(Truth) /\ Window' = Window /\ WindowInv' /\ EventsInTheirWindow'
      /\ \A k \in 1 .. Window : truth'[k].channel = truth[k].channel
  BY <1>1, <1>3, CountedOnce DEF windowVars
<1>5. TypeOK'
  BY <1>1, <1>3, <1>4 DEF IInv, TypeOK, windowVars, nearbyVars, jamVars, Jammer!TypeOK
<1>6. ChannelInv' /\ ChannelRecorded'
  BY <1>1, <1>3, <1>4, ChannelsKept DEF windowVars
<1>7. now' \in Nat /\ now' >= now
  BY <1>1, CollectorAssumption DEF IInv, TypeOK
<1>8. NeighbourInv'
  BY <1>1, <1>3, <1>7, NeighboursKept DEF nearbyVars
<1> QED
  BY <1>4, <1>5, <1>6, <1>8 DEF IInv

LEMMA RxOkStep ==
    ASSUME IInv, NEW s \in Senders, RxOk(s)
    PROVE  IInv'
<1>1. /\ list' = [RefreshList EXCEPT ![s] = now + MaxQueueTime]
      /\ datum' = [datum EXCEPT !.ls = @ + 1, !.m_numberofNeighbor = GetSize]
      /\ Happens("ls")
      /\ heard' = [heard EXCEPT ![s] = now] /\ lastRx' = now
      /\ UNCHANGED <<phy, windowVars, ended, now, near, jamVars>>
  BY DEF RxOk, UpdateList
<1>2. /\ now \in Nat /\ now <= MaxTime /\ MaxQueueTime \in Nat /\ MaxTime \in Nat
      /\ list \in [Senders -> Times \union {None}] /\ heard \in [Senders -> 0 .. None]
      /\ datum \in Datum
  BY CollectorAssumption DEF IInv, TypeOK
<1>3. list' \in [Senders -> Times \union {None}] /\ GetSize \in Nat
  <2>1. now + MaxQueueTime \in Times
    BY <1>2 DEF Times
  <2>2. RefreshList \in [Senders -> Times \union {None}]
    BY <1>2 DEF RefreshList
  <2>3. list' \in [Senders -> Times \union {None}]
    BY <1>1, <2>1, <2>2
  <2>4. IsFiniteSet({x \in Senders : list'[x] # None})
    BY CollectorAssumption, FS_Subset
  <2> QED
    BY <2>3, <2>4, FS_CardinalityType DEF GetSize
<1>4. /\ datum' \in Datum /\ datum'["ls"] = datum["ls"] + 1
      /\ \A w \in Counters : w # "ls" => datum'[w] = datum[w]
      /\ datum'.contentionwindowid = datum.contentionwindowid
      /\ datum'.m_jammed = datum.m_jammed
      /\ datum'.currentChannel = datum.currentChannel
      /\ datum'.m_numberofNeighbor = GetSize
  <2> DEFINE g == GetSize
  <2>1. datum' = [datum EXCEPT !.ls = @ + 1, !.m_numberofNeighbor = g] /\ g \in Nat
    BY <1>1, <1>3
  <2> HIDE DEF g
  <2>2. /\ datum' \in Datum /\ datum'["ls"] = datum["ls"] + 1
        /\ \A w \in Counters : w # "ls" => datum'[w] = datum[w]
        /\ datum'.contentionwindowid = datum.contentionwindowid
        /\ datum'.m_jammed = datum.m_jammed
        /\ datum'.currentChannel = datum.currentChannel
        /\ datum'.m_numberofNeighbor = g
    <3>1. datum' \in Datum
      <4>1. datum.ls \in Nat
        BY <1>2 DEF Datum
      <4>2. PICK n \in Nat : n = datum.ls + 1
        BY <4>1
      <4>3. datum' = [datum EXCEPT !.ls = n, !.m_numberofNeighbor = g]
        BY <2>1, <4>2
      <4> QED
        BY <1>2, <2>1, <4>3 DEF Datum
    <3>2. datum'["ls"] = datum["ls"] + 1
      BY <1>2, <2>1 DEF Datum
    <3>3. \A w \in Counters : w # "ls" => datum'[w] = datum[w]
      BY <1>2, <2>1 DEF Datum, Counters
    <3>4. /\ datum'.contentionwindowid = datum.contentionwindowid
          /\ datum'.m_jammed = datum.m_jammed
          /\ datum'.currentChannel = datum.currentChannel
          /\ datum'.m_numberofNeighbor = g
      BY <1>2, <2>1 DEF Datum
    <3> QED
      BY <3>1, <3>2, <3>3, <3>4
  <2> QED
    BY <2>2 DEF g
<1>5. /\ truth' \in Seq(Truth) /\ Window' = Window /\ WindowInv' /\ EventsInTheirWindow'
      /\ \A k \in 1 .. Window : truth'[k].channel = truth[k].channel
  <2>1. "ls" \in Counters
    BY DEF Counters
  <2> QED
    BY <1>1, <1>4, <2>1, CountedOnce DEF windowVars
<1>6. now \in 0 .. None /\ now # None /\ None \in Nat
  BY <1>2 DEF None
<1>7. TypeOK'
  <2>1. heard' \in [Senders -> 0 .. None] /\ lastRx' \in 0 .. None
    BY <1>1, <1>2, <1>6
  <2> QED
    BY <1>1, <1>3, <1>4, <1>5, <2>1 DEF IInv, TypeOK, windowVars, jamVars, Jammer!TypeOK
<1>8. ChannelInv' /\ ChannelRecorded'
  BY <1>1, <1>4, <1>5, ChannelsKept DEF windowVars
<1>9. NeighbourInv'
  <2>1. now' = now /\ lastRx' = now /\ lastRx' # None /\ lastRx' <= now'
    BY <1>1, <1>2, <1>6
  <2>2. ASSUME NEW x \in Senders
        PROVE  /\ heard'[x] # None => heard'[x] <= now' /\ lastRx' # None
               /\ list'[x] # None <=> Recent(x)'
               /\ list'[x] # None => list'[x] = heard'[x] + MaxQueueTime
    <3>1. /\ heard[x] \in Nat /\ lastRx \in Nat
          /\ heard[x] # None => heard[x] <= now /\ lastRx # None
          /\ lastRx # None => lastRx <= now
          /\ list[x] # None <=> heard[x] # None /\ heard[x] + MaxQueueTime >= lastRx
          /\ list[x] # None => list[x] = heard[x] + MaxQueueTime
      BY <1>2, <1>6 DEF IInv, NeighbourInv, Recent, TypeOK
    <3>2. CASE x = s
      <4>1. heard'[x] = now /\ list'[x] = now + MaxQueueTime
        BY <1>1, <1>2, <3>2 DEF RefreshList
      <4>2. list'[x] # None
        BY <1>2, <4>1 DEF None
      <4> QED
        BY <1>2, <1>6, <2>1, <4>1, <4>2 DEF Recent
    <3>3. CASE x # s
      <4>1. /\ heard'[x] = heard[x]
            /\ list'[x] = IF list[x] # None /\ now > list[x] THEN None ELSE list[x]
        BY <1>1, <1>2, <3>3 DEF RefreshList
      <4> QED
        BY <1>2, <2>1, <3>1, <4>1 DEF Recent
    <3> QED
      BY <3>2, <3>3
  <2>3. datum'.m_numberofNeighbor = Cardinality({x \in Senders : list'[x] # None})
    BY <1>4 DEF GetSize
  <2> QED
    BY <2>1, <2>2, <2>3 DEF NeighbourInv
<1> QED
  BY <1>5, <1>7, <1>8, <1>9 DEF IInv
LEMMA SwitchStep ==
    ASSUME IInv, Switch
    PROVE  IInv'
<1>1. /\ phy = "ready" /\ dataset' = Append(dataset, datum)
      /\ latest' = datum.contentionwindowid
      /\ datum' = Reset(datum) /\ phy' = "switching"
      /\ channel' = (IF channel = CCH THEN SCH1 ELSE CCH)
      /\ truth' = Append(truth, NewTruth(channel'))
      /\ UNCHANGED <<ended, nearbyVars, now, near, jamVars>>
  BY DEF Switch
<1>2. /\ env' = datum \/ env' = env
      /\ observed' = Append(observed, datum) \/ observed' = observed
  BY DEF Switch, DatumTrace
<1>3. /\ truth \in Seq(Truth) /\ dataset \in Seq(Datum) /\ datum \in Datum
      /\ channel \in {CCH, SCH1} /\ observed \in Seq(Datum) /\ env \in Datum
  BY DEF IInv, TypeOK
<1>4. /\ Window \in Nat /\ Window >= 1 /\ Len(dataset) = Window - 1
      /\ DOMAIN truth = 1 .. Window /\ DOMAIN dataset = 1 .. Window - 1
      /\ Recorded(Window) = datum
  BY Places DEF IInv
<1>5. /\ channel' \in {CCH, SCH1} /\ NewTruth(channel') \in Truth
      /\ NewTruth(channel').channel = channel' /\ NewTruth(channel').jams = 0
      /\ \A w \in Counters : NewTruth(channel')[w] = 0
  BY <1>1, <1>3 DEF NewTruth, Truth, Counters
<1>6. /\ truth' \in Seq(Truth) /\ Window' = Window + 1
      /\ truth'[Window + 1] = NewTruth(channel')
      /\ \A k \in 1 .. Window : truth'[k] = truth[k]
  BY <1>1, <1>3, <1>4, <1>5 DEF Window
<1>7. /\ dataset' \in Seq(Datum) /\ Len(dataset') = Window
      /\ dataset'[Window] = datum
      /\ \A k \in 1 .. Window - 1 : dataset'[k] = dataset[k]
      /\ DOMAIN dataset' = 1 .. Window
  BY <1>1, <1>3, <1>4
<1>8. /\ datum' \in Datum /\ datum'.contentionwindowid = datum.contentionwindowid + 1
      /\ datum'.m_jammed = FALSE
      /\ datum'.m_numberofNeighbor = datum.m_numberofNeighbor
      /\ \A w \in Counters : datum'[w] = 0
  <2>1. datum.contentionwindowid \in Nat
    BY <1>3 DEF Datum
  <2>2. PICK n \in Nat : n = datum.contentionwindowid + 1
    BY <2>1
  <2>3. datum' = [datum EXCEPT !.ls = 0, !.lc = 0, !.le = 0, !.ltx = 0, !.m_jammed = FALSE,
                               !.contentionwindowid = n]
    BY <1>1, <2>2 DEF Reset
  <2>4. datum' \in Datum
    BY <1>3, <2>3 DEF Datum
  <2>5. /\ datum'.contentionwindowid = n /\ datum'.m_jammed = FALSE
        /\ datum'.m_numberofNeighbor = datum.m_numberofNeighbor
    BY <1>3, <2>3 DEF Datum
  <2>6. \A w \in Counters : datum'[w] = 0
    BY <1>3, <2>3 DEF Datum, Counters
  <2> QED
    BY <2>2, <2>4, <2>5, <2>6
<1>9. WindowInv'
  BY <1>6, <1>7 DEF WindowInv
<1>10. TypeOK'
  <2>1. env' \in Datum /\ observed' \in Seq(Datum)
    <3>1. datum \in Datum /\ env \in Datum /\ observed \in Seq(Datum)
      BY <1>3
    <3>2. Append(observed, datum) \in Seq(Datum)
      BY <3>1
    <3> QED
      BY <1>2, <3>1, <3>2
  <2>2. latest' \in Nat
    BY <1>1, <1>3 DEF Datum
  <2> QED
    BY <1>1, <1>5, <1>6, <1>7, <1>8, <2>1, <2>2 DEF IInv, TypeOK, nearbyVars, jamVars, Jammer!TypeOK
<1>11. ASSUME NEW k \in 1 .. Window
       PROVE  Recorded(k)' = Recorded(k)
  BY <1>4, <1>7 DEF Recorded
<1>12. \A k \in 1 .. Window + 1 : k = Window + 1 => Recorded(k)' = datum'
  BY <1>4, <1>7 DEF Recorded
<1>13. EventsInTheirWindow'
  <2>1. SUFFICES ASSUME NEW k \in 1 .. Window + 1
                 PROVE  /\ Recorded(k)'.contentionwindowid = k
                        /\ \A w \in Counters : Recorded(k)'[w] = truth'[k][w]
                        /\ Recorded(k)'.m_jammed <=> truth'[k].jams > 0
    BY <1>6 DEF EventsInTheirWindow
  <2>2. CASE k \in 1 .. Window
    BY <1>6, <1>11, <2>2 DEF IInv, EventsInTheirWindow
  <2>3. CASE k = Window + 1
    <3>1. datum.contentionwindowid = Window
      BY <1>4 DEF IInv, EventsInTheirWindow
    <3>2. Recorded(k)' = datum' /\ truth'[k] = NewTruth(channel')
      BY <1>6, <1>12, <2>3
    <3> QED
      BY <1>5, <1>8, <2>3, <3>1, <3>2
  <2> QED
    BY <1>4, <2>2, <2>3
<1>14. ChannelInv'
  <2>1. truth'[Window'].channel = channel'
    BY <1>5, <1>6
  <2>2. Window' > 1 /\ phy' = "switching"
    BY <1>1, <1>4, <1>6
  <2> QED
    BY <2>1, <2>2 DEF ChannelInv
<1>15. ChannelRecorded'
  <2>1. SUFFICES ASSUME NEW k \in 1 .. Window
                 PROVE  dataset'[k].currentChannel = IF k = 1 THEN NoChannel ELSE truth'[k].channel
    BY <1>7 DEF ChannelRecorded
  <2>2. CASE k = Window
    BY <1>1, <1>6, <1>7, <2>2 DEF IInv, ChannelInv
  <2>3. CASE k # Window
    <3>1. k \in DOMAIN dataset /\ k \in 1 .. Window - 1
      BY <1>4, <2>3
    <3> QED
      BY <1>6, <1>7, <3>1 DEF IInv, ChannelRecorded
  <2> QED
    BY <2>2, <2>3
<1>16. NeighbourInv'
  <2>1. now' = now /\ now \in Nat
    BY <1>1, CollectorAssumption DEF IInv, TypeOK
  <2> QED
    BY <1>1, <1>8, <2>1, NeighboursKept DEF nearbyVars
<1> QED
  BY <1>9, <1>10, <1>13, <1>14, <1>15, <1>16 DEF IInv

LEMMA UpdateChannelNumberStep ==
    ASSUME IInv, UpdateChannelNumber
    PROVE  IInv'
<1>1. /\ phy = "switching" /\ phy' = "ready"
      /\ datum' = [datum EXCEPT !.currentChannel = channel]
      /\ UNCHANGED <<windowVars, ended, nearbyVars, now, near, jamVars, truth>>
  BY DEF UpdateChannelNumber
<1>2. datum \in Datum /\ channel \in {CCH, SCH1}
  BY DEF IInv, TypeOK
<1>3. /\ datum' \in Datum /\ datum'.currentChannel = channel
      /\ datum'.contentionwindowid = datum.contentionwindowid
      /\ datum'.m_jammed = datum.m_jammed
      /\ datum'.m_numberofNeighbor = datum.m_numberofNeighbor
      /\ \A w \in Counters : datum'[w] = datum[w]
  BY <1>1, <1>2 DEF Datum, Counters
<1>4. Window' = Window /\ WindowInv' /\ dataset' = dataset /\ channel' = channel /\ truth' = truth
  BY <1>1 DEF IInv, Window, WindowInv, windowVars
<1>5. TypeOK'
  BY <1>1, <1>3 DEF IInv, TypeOK, windowVars, nearbyVars, jamVars, Jammer!TypeOK
<1>6. EventsInTheirWindow'
  <2>1. Window \in Nat /\ Recorded(Window) = datum
    BY Places DEF IInv
  <2>2. /\ \A k \in 1 .. Window : k # Window => Recorded(k)' = Recorded(k)
        /\ \A k \in 1 .. Window : k = Window => Recorded(k)' = datum'
    BY <1>4, OthersRecorded DEF IInv
  <2>3. SUFFICES ASSUME NEW k \in 1 .. Window
                 PROVE  /\ Recorded(k)'.contentionwindowid = k
                        /\ \A w \in Counters : Recorded(k)'[w] = truth[k][w]
                        /\ Recorded(k)'.m_jammed <=> truth[k].jams > 0
    BY <1>4 DEF EventsInTheirWindow
  <2>4. /\ Recorded(k).contentionwindowid = k
        /\ \A w \in Counters : Recorded(k)[w] = truth[k][w]
        /\ Recorded(k).m_jammed <=> truth[k].jams > 0
    BY DEF IInv, EventsInTheirWindow
  <2>5. CASE k # Window
    BY <2>2, <2>4, <2>5
  <2>6. CASE k = Window
    BY <1>3, <2>1, <2>2, <2>4, <2>6
  <2> QED
    BY <2>5, <2>6
<1>7. ChannelInv' /\ ChannelRecorded'
  BY <1>1, <1>3, <1>4 DEF IInv, ChannelInv, ChannelRecorded
<1>8. NeighbourInv'
  <2>1. now' = now /\ now \in Nat
    BY <1>1, CollectorAssumption DEF IInv, TypeOK
  <2> QED
    BY <1>1, <1>3, <2>1, NeighboursKept DEF nearbyVars
<1> QED
  BY <1>4, <1>5, <1>6, <1>7, <1>8 DEF IInv

LEMMA ReactionStep ==
    ASSUME IInv, Reaction
    PROVE  IInv'
<1> DEFINE t == [truth[Window] EXCEPT !.jams = @ + 1,
                                      !.sent = IF signal'.sent THEN @ + 1 ELSE @]
<1>1. /\ Jammer!ReactToPacket
      /\ datum' = [datum EXCEPT !.m_jammed = @ \/ near]
      /\ UNCHANGED <<phy, windowVars, ended, nearbyVars, now, near>>
      /\ near => truth' = [truth EXCEPT ![Window] = t]
      /\ ~near => truth' = truth
  <2>1. datum' = [datum EXCEPT !.m_jammed = @ \/ near]
    BY DEF Reaction, TraceFunction_Jammer, m_victim
  <2> QED
    BY <2>1 DEF Reaction
<1>2. datum \in Datum /\ near \in BOOLEAN /\ TypeOK /\ WindowInv
  BY DEF IInv, TypeOK
<1>3. /\ datum' \in Datum /\ datum'.m_jammed = (datum.m_jammed \/ near)
      /\ datum'.contentionwindowid = datum.contentionwindowid
      /\ datum'.currentChannel = datum.currentChannel
      /\ datum'.m_numberofNeighbor = datum.m_numberofNeighbor
      /\ \A w \in Counters : datum'[w] = datum[w]
  BY <1>1, <1>2 DEF Datum, Counters
<1>4. Window \in Nat /\ truth[Window] \in Truth /\ Recorded(Window) = datum
  BY <1>2, Places
<1>5. /\ t \in Truth /\ t.channel = truth[Window].channel /\ t.jams > 0
      /\ \A w \in Counters : t[w] = truth[Window][w]
  <2> DEFINE u == truth[Window]
  <2>1. u \in Truth /\ u.jams \in Nat /\ u.sent \in Nat
    BY <1>4 DEF Truth
  <2>2. PICK j \in Nat, n \in Nat :
           j = u.jams + 1 /\ n = (IF signal'.sent THEN u.sent + 1 ELSE u.sent)
    BY <2>1
  <2>3. t = [u EXCEPT !.jams = j, !.sent = n] /\ j > 0
    BY <2>1, <2>2
  <2> HIDE DEF t, u
  <2>4. t \in Truth
    BY <2>1, <2>3 DEF Truth
  <2>5. t.channel = u.channel /\ t.jams > 0
    BY <2>1, <2>3 DEF Truth
  <2>6. \A w \in Counters : t[w] = u[w]
    BY <2>1, <2>3 DEF Truth, Counters
  <2> QED
    BY <2>4, <2>5, <2>6 DEF u
<1> HIDE DEF t
<1>6. /\ truth' \in Seq(Truth) /\ Window' = Window /\ WindowInv'
      /\ truth'[Window] = (IF near THEN t ELSE truth[Window])
      /\ \A k \in 1 .. Window : k # Window => truth'[k] = truth[k]
  <2>1. CASE near
    BY <1>1, <1>2, <1>5, <2>1, ToldWindow DEF windowVars
  <2>2. CASE ~near
    BY <1>1, <1>2, <2>2 DEF TypeOK, Window, WindowInv, windowVars
  <2> QED
    BY <1>2, <2>1, <2>2
<1>7. /\ \A k \in 1 .. Window : k # Window => Recorded(k)' = Recorded(k)
      /\ \A k \in 1 .. Window : k = Window => Recorded(k)' = datum'
  BY <1>1, <1>2, <1>6, OthersRecorded DEF windowVars
<1>8. EventsInTheirWindow'
  <2>1. SUFFICES ASSUME NEW k \in 1 .. Window
                 PROVE  /\ Recorded(k)'.contentionwindowid = k
                        /\ \A w \in Counters : Recorded(k)'[w] = truth'[k][w]
                        /\ Recorded(k)'.m_jammed <=> truth'[k].jams > 0
    BY <1>6 DEF EventsInTheirWindow
  <2>2. /\ Recorded(k).contentionwindowid = k
        /\ \A w \in Counters : Recorded(k)[w] = truth[k][w]
        /\ Recorded(k).m_jammed <=> truth[k].jams > 0
    BY DEF IInv, EventsInTheirWindow
  <2>3. CASE k # Window
    BY <1>6, <1>7, <2>2, <2>3
  <2>4. CASE k = Window /\ near
    <3>1. Recorded(k)' = datum' /\ Recorded(k) = datum /\ truth'[k] = t
      BY <1>4, <1>6, <1>7, <2>4
    <3>2. datum'.m_jammed /\ t.jams > 0
      BY <1>3, <1>5, <2>4
    <3>3. \A w \in Counters : datum'[w] = t[w]
      BY <1>3, <1>5, <2>2, <2>4, <3>1
    <3> QED
      BY <1>3, <2>2, <3>1, <3>2, <3>3
  <2>5. CASE k = Window /\ ~near
    <3>1. Recorded(k)' = datum' /\ Recorded(k) = datum /\ truth'[k] = truth[k]
      BY <1>4, <1>6, <1>7, <2>5
    <3>2. datum'.m_jammed <=> datum.m_jammed
      BY <1>3, <2>5
    <3>3. \A w \in Counters : datum'[w] = truth[k][w]
      BY <1>3, <2>2, <3>1
    <3> QED
      BY <1>3, <2>2, <3>1, <3>2, <3>3
  <2> QED
    BY <2>3, <2>4, <2>5
<1>9. TypeOK'
  <2>1. Jammer!TypeOK'
    BY <1>1, <1>2, CollectorAssumption DEF TypeOK, Jammer!TypeOK, Jammer!ReactToPacket, Jammer!UtilitySendPacket,
       Jammer!Radio
  <2> QED
    BY <1>1, <1>3, <1>6, <2>1 DEF IInv, TypeOK, windowVars, nearbyVars
<1>10. ChannelInv' /\ ChannelRecorded'
  BY <1>1, <1>3, <1>5, <1>6, ChannelsKept DEF windowVars
<1>11. NeighbourInv'
  <2>1. now' = now /\ now \in Nat
    BY <1>1, CollectorAssumption DEF IInv, TypeOK
  <2> QED
    BY <1>1, <1>3, <2>1, NeighboursKept DEF nearbyVars
<1> QED
  BY <1>6, <1>8, <1>9, <1>10, <1>11 DEF IInv
-------------------------------------------------------------------------------
LEMMA InitIInv == Init => IInv
<1> SUFFICES ASSUME Init
             PROVE  IInv
  OBVIOUS
<1>1. /\ phy = "ready" /\ channel = CCH /\ datum = NewDatum /\ dataset = <<>> /\ latest = 1
      /\ env = NewDatum /\ observed = <<>> /\ ended = FALSE
      /\ list = [s \in Senders |-> None] /\ now = 0 /\ near = FALSE
      /\ truth = <<NewTruth(CCH)>>
      /\ heard = [s \in Senders |-> None] /\ lastRx = None
      /\ Jammer!Init
  BY DEF Init
<1>2. NewDatum \in Datum /\ NewTruth(CCH) \in Truth
  BY DEF NewDatum, Datum, NewTruth, Truth
<1>3. Window = 1 /\ truth[1] = NewTruth(CCH) /\ truth \in Seq(Truth)
  BY <1>1, <1>2 DEF Window
<1>4. None \in Nat /\ None \in 0 .. None
  BY CollectorAssumption DEF None
<1>5. TypeOK
  <2>1. Jammer!TypeOK
    BY <1>1 DEF Jammer!Init, Jammer!TypeOK, Jammer!Radio
  <2>2. 0 \in 0 .. MaxTime
    BY CollectorAssumption
  <2>3. /\ phy \in {"ready", "tx", "switching"} /\ channel \in {CCH, SCH1}
        /\ now \in 0 .. MaxTime /\ ended \in BOOLEAN /\ near \in BOOLEAN
    BY <1>1, <2>2
  <2>4. /\ datum \in Datum /\ dataset \in Seq(Datum) /\ latest \in Nat
        /\ env \in Datum /\ observed \in Seq(Datum)
    BY <1>1, <1>2
  <2>5. list \in [Senders -> Times \union {None}]
    BY <1>1
  <2>6. heard \in [Senders -> 0 .. None] /\ lastRx \in 0 .. None
    BY <1>1, <1>4
  <2> QED
    BY <1>3, <2>1, <2>3, <2>4, <2>5, <2>6 DEF TypeOK
<1>6. WindowInv
  BY <1>1, <1>3 DEF WindowInv
<1>7. EventsInTheirWindow
  <2>1. Recorded(1) = NewDatum
    BY <1>1 DEF Recorded
  <2> QED
    BY <1>3, <2>1 DEF EventsInTheirWindow, NewDatum, NewTruth, Counters
<1>8. ChannelInv
  BY <1>1, <1>3 DEF ChannelInv, NewTruth, NewDatum
<1>9. ChannelRecorded
  BY <1>1 DEF ChannelRecorded
<1>10. NeighbourInv
  <2>1. {s \in Senders : list[s] # None} = {}
    BY <1>1
  <2> QED
    BY <1>1, <2>1, FS_EmptySet DEF NeighbourInv, Recent, NewDatum
<1> QED
  BY <1>5, <1>6, <1>7, <1>8, <1>9, <1>10 DEF IInv

(* The types of the steps that count nothing.                               *)
LEMMA TxBeginStep ==
    ASSUME IInv, TxBegin
    PROVE  IInv'
<1>1. TypeOK'
  BY DEF TxBegin, IInv, TypeOK, windowVars, nearbyVars, jamVars, Jammer!TypeOK
<1>2. now' >= now
  BY CollectorAssumption DEF TxBegin, IInv, TypeOK
<1> QED
  BY <1>1, <1>2, QuietStep DEF TxBegin, windowVars, nearbyVars

LEMMA EndStep ==
    ASSUME IInv, End
    PROVE  IInv'
<1>1. TypeOK'
  <2>1. observed' \in Seq(Datum)
    BY DEF End, IInv, TypeOK
  <2> QED
    BY <2>1 DEF End, IInv, TypeOK, nearbyVars, jamVars, Jammer!TypeOK
<1>2. now' >= now
  BY CollectorAssumption DEF End, IInv, TypeOK
<1> QED
  BY <1>1, <1>2, QuietStep DEF End, nearbyVars

LEMMA JammerStepStep ==
    ASSUME IInv, JammerStep
    PROVE  IInv'
<1>1. TypeOK'
  <2>1. Jammer!TypeOK'
    BY DEF JammerStep, IInv, TypeOK, Jammer!TypeOK, Jammer!StartRxHandler, Jammer!RadioStep,
       Jammer!Radio
  <2> QED
    BY <2>1 DEF JammerStep, IInv, TypeOK, windowVars, nearbyVars
<1>2. now' >= now
  BY CollectorAssumption DEF JammerStep, IInv, TypeOK
<1> QED
  BY <1>1, <1>2, QuietStep DEF JammerStep, windowVars, nearbyVars

LEMMA MoveStep ==
    ASSUME IInv, Move
    PROVE  IInv'
<1>1. TypeOK'
  BY DEF Move, IInv, TypeOK, windowVars, nearbyVars, jamVars, Jammer!TypeOK
<1>2. now' >= now
  BY CollectorAssumption DEF Move, IInv, TypeOK
<1> QED
  BY <1>1, <1>2, QuietStep DEF Move, windowVars, nearbyVars

LEMMA TickStep ==
    ASSUME IInv, Tick
    PROVE  IInv'
<1>1. now' \in 0 .. MaxTime /\ now' >= now
  BY CollectorAssumption DEF Tick, IInv, TypeOK
<1>2. TypeOK'
  BY <1>1 DEF Tick, IInv, TypeOK, windowVars, nearbyVars, jamVars, Jammer!TypeOK
<1> QED
  BY <1>1, <1>2, QuietStep DEF Tick, windowVars, nearbyVars

LEMMA StutterIInv ==
    ASSUME IInv, UNCHANGED vars
    PROVE  IInv'
<1>1. TypeOK'
  BY DEF vars, IInv, TypeOK, windowVars, nearbyVars, jamVars, Jammer!TypeOK
<1>2. now' >= now
  BY CollectorAssumption DEF vars, IInv, TypeOK
<1> QED
  BY <1>1, <1>2, QuietStep DEF vars, windowVars, nearbyVars

LEMMA NextIInv == IInv /\ [Next]_vars => IInv'
<1> SUFFICES ASSUME IInv, [Next]_vars
             PROVE  IInv'
  OBVIOUS
<1>1. phy \in {"ready", "tx", "switching"} /\ {"ls", "lc", "le", "ltx"} \subseteq Counters
  BY DEF IInv, TypeOK, Counters
<1>2. CASE RxDrop
  BY <1>1, <1>2, CountStep DEF RxDrop
<1>3. CASE RxError
  BY <1>1, <1>3, CountStep DEF RxError
<1>4. CASE TxEnd
  <2>1. Count("ltx") /\ phy' \in {"ready", "tx", "switching"}
        /\ (phy' = "switching" <=> phy = "switching")
    BY <1>4 DEF TxEnd
  <2> QED
    BY <1>1, <2>1, CountStep
<1>5. CASE RxOkOther
  BY <1>1, <1>5, CountStep DEF RxOkOther
<1>6. CASE \E s \in Senders : RxOk(s)
  BY <1>6, RxOkStep
<1>7. CASE Switch
  BY <1>7, SwitchStep
<1>8. CASE UpdateChannelNumber
  BY <1>8, UpdateChannelNumberStep
<1>9. CASE Reaction
  BY <1>9, ReactionStep
<1>10. CASE TxBegin
  BY <1>10, TxBeginStep
<1>11. CASE End
  BY <1>11, EndStep
<1>12. CASE JammerStep
  BY <1>12, JammerStepStep
<1>13. CASE Move
  BY <1>13, MoveStep
<1>14. CASE Tick
  BY <1>14, TickStep
<1>15. CASE Terminating \/ UNCHANGED vars
  BY <1>15, StutterIInv DEF Terminating
<1> QED
  BY <1>2, <1>3, <1>4, <1>5, <1>6, <1>7, <1>8, <1>9, <1>10, <1>11, <1>12, <1>13, <1>14, <1>15
     DEF Next
-------------------------------------------------------------------------------
(* The inductive invariant of a node's collection: the current window is    *)
(* the one the traces count in, and the list is as of the last reception.   *)
THEOREM Invariance == Spec => []IInv
  BY InitIInv, NextIInv, PTL DEF Spec

(* The collection keeps its types, and at most one reaction is scheduled.   *)
THEOREM TypeCorrect == Spec => []TypeOK
<1>1. IInv => TypeOK
  BY DEF IInv
<1> QED
  BY <1>1, Invariance, PTL

(* No traced event and no reaction is counted in another window than its    *)
(* own, however the traces interleave with the switches of the channel.     *)
THEOREM EventsCounted == Spec => []EventsInTheirWindow
<1>1. IInv => EventsInTheirWindow
  BY DEF IInv
<1> QED
  BY <1>1, Invariance, PTL

(* A closed window carries the channel the radio was on.                    *)
THEOREM ChannelsCorrect == Spec => []ChannelRecorded
<1>1. IInv => ChannelRecorded
  BY DEF IInv
<1> QED
  BY <1>1, Invariance, PTL

(* The number of neighbours is the one at the last reception.               *)
THEOREM NeighboursCorrect == Spec => []NeighboursOfLastReception
<1>1. IInv => NeighboursOfLastReception
  <2> SUFFICES ASSUME IInv
               PROVE  NeighboursOfLastReception
    OBVIOUS
  <2>1. {s \in Senders : list[s] # None}
           = {s \in Senders : heard[s] # None /\ heard[s] + MaxQueueTime >= lastRx}
    BY DEF IInv, NeighbourInv, Recent
  <2> QED
    BY <2>1 DEF IInv, NeighbourInv, NeighboursOfLastReception
<1> QED
  BY <1>1, Invariance, PTL
-------------------------------------------------------------------------------
(* What the agent is shown.                                                 *)

ControlWindows == {k \in 2 .. Len(dataset) : truth[k].channel = CCH}

(* The first n states of o are the windows C of the data d, in order.       *)
ShownAre(n, o, d, C) ==
    /\ {o[j].contentionwindowid : j \in 1 .. n} = C
    /\ \A j \in 1 .. n : o[j] = d[o[j].contentionwindowid]
    /\ \A j, k \in 1 .. n : j < k => o[j].contentionwindowid < o[k].contentionwindowid

(* latest is the id of the last closed window, or 1; MyGymEnv holds the last *)
(* closed window, unless that is the first.                                 *)
ObservedInv ==
    /\ latest = IF dataset = <<>> THEN 1 ELSE Len(dataset)
    /\ Len(dataset) > 1 => env = dataset[Len(dataset)]
    /\ ControlWindowsObserved

LEMMA ObservedIs ==
    ASSUME TypeOK
    PROVE  ControlWindowsObserved <=>
             /\ ~ended => ShownAre(Len(observed), observed, dataset, ControlWindows)
             /\ ended /\ observed = <<>> => ShownAre(0, observed, dataset, ControlWindows)
             /\ ended /\ observed # <<>> =>
                  /\ ShownAre(Len(observed) - 1, observed, dataset, ControlWindows)
                  /\ Len(observed) > 1 /\ observed[Len(observed)] = dataset[Len(dataset)]
<1>1. observed \in Seq(Datum) /\ Len(observed) \in Nat /\ ended \in BOOLEAN
  BY DEF TypeOK
<1>2. CASE ended /\ observed # <<>>
  <2>1. ASSUME NEW n \in Nat
        PROVE  1 .. n - 1 # {} <=> n > 1
    <3>1. n > 1 => 1 \in 1 .. n - 1
      OBVIOUS
    <3>2. ~ n > 1 => 1 .. n - 1 = {}
      OBVIOUS
    <3> QED
      BY <3>1, <3>2
  <2>2. 1 .. Len(observed) - 1 # {} <=> Len(observed) > 1
    BY <1>1, <2>1
  <2> QED
    BY <1>2, <2>2 DEF ControlWindowsObserved, ShownAre, ControlWindows
<1>3. CASE ended /\ observed = <<>>
  <2>1. Len(observed) = 0
    BY <1>3
  <2> QED
    BY <1>3, <2>1 DEF ControlWindowsObserved, ShownAre, ControlWindows
<1>4. CASE ~ended
  BY <1>4 DEF ControlWindowsObserved, ShownAre, ControlWindows
<1> QED
  BY <1>1, <1>2, <1>3, <1>4

(* The data grow, the windows shown stay.                                   *)
LEMMA ShownStay ==
    ASSUME NEW n \in Nat, NEW o, NEW d, NEW e, NEW C, ShownAre(n, o, d, C),
           \A k \in C : e[k] = d[k]
    PROVE  ShownAre(n, o, e, C)
<1>1. \A j \in 1 .. n : o[j].contentionwindowid \in C
  BY DEF ShownAre
<1> QED
  BY <1>1 DEF ShownAre

(* The two agree on S.                                                      *)
SameOn(f, g, S) == \A x \in S : f[x] = g[x]

(* One more window is shown.                                                *)
LEMMA ShownGrow ==
    ASSUME NEW n \in Nat, NEW m, m = n + 1, NEW o, NEW q, NEW d, NEW e, NEW C, NEW w \in Nat,
           ShownAre(n, o, d, C), C \subseteq 1 .. w - 1,
           SameOn(q, o, 1 .. n), SameOn(e, d, C),
           q[m].contentionwindowid = w, q[m] = e[w]
    PROVE  ShownAre(m, q, e, C \union {w})
<1> USE DEF SameOn
<1>1. /\ \A j \in 1 .. m : j \in 1 .. n \/ j = m
      /\ \A j \in 1 .. n : j \in 1 .. m /\ j < m
      /\ m \in 1 .. m /\ \A k \in C : k < w
  OBVIOUS
<1>2. \A j \in 1 .. n : o[j].contentionwindowid \in C
  BY DEF ShownAre
<1>3. {q[j].contentionwindowid : j \in 1 .. m} = C \union {w}
  <2>1. {q[j].contentionwindowid : j \in 1 .. m} \subseteq C \union {w}
    BY <1>1, <1>2
  <2>2. ASSUME NEW k \in C
        PROVE  \E j \in 1 .. m : q[j].contentionwindowid = k
    <3>1. PICK j \in 1 .. n : o[j].contentionwindowid = k
      BY DEF ShownAre
    <3> QED
      BY <1>1, <3>1
  <2>3. \E j \in 1 .. m : q[j].contentionwindowid = w
    BY <1>1
  <2> QED
    BY <2>1, <2>2, <2>3
<1>4. ASSUME NEW j \in 1 .. m
      PROVE  q[j] = e[q[j].contentionwindowid]
  <2>1. CASE j = m
    <3>1. e[w] = e[q[m].contentionwindowid]
      OBVIOUS
    <3>2. q[m] = e[q[m].contentionwindowid]
      BY <3>1, Zenon
    <3> QED
      BY <2>1, <3>2, Zenon
  <2>2. CASE j \in 1 .. n
    <3>1. q[j] = o[j] /\ o[j].contentionwindowid \in C
      BY <1>2, <2>2
    <3>2. o[j] = d[o[j].contentionwindowid]
      BY <2>2 DEF ShownAre
    <3> QED
      BY <3>1, <3>2, Zenon
  <2> QED
    BY <1>1, <2>1, <2>2
<1>5. ASSUME NEW j \in 1 .. m, NEW k \in 1 .. m, j < k
      PROVE  q[j].contentionwindowid < q[k].contentionwindowid
  <2>1. j \in 1 .. n
    BY <1>5
  <2>2. CASE k = m
    <3>1. q[j].contentionwindowid \in C
      BY <1>2, <2>1
    <3> QED
      BY <1>1, <2>2, <3>1
  <2>3. CASE k \in 1 .. n
    BY <1>5, <2>1, <2>3 DEF ShownAre
  <2> QED
    BY <1>1, <2>2, <2>3
<1> QED
  BY <1>3, <1>4, <1>5 DEF ShownAre

(* The windows of the control channel stay those while nothing is closed.   *)
LEMMA ObservedKept ==
    ASSUME IInv, ObservedInv, TypeOK', UNCHANGED <<dataset, latest, env, observed, ended>>,
           \A k \in 1 .. Window : truth'[k].channel = truth[k].channel
    PROVE  ObservedInv'
<1>1. ControlWindows' = ControlWindows
  <2>1. 2 .. Len(dataset) \subseteq 1 .. Window
    BY Places DEF IInv
  <2> QED
    BY <2>1 DEF ControlWindows
<1>2. ControlWindowsObserved'
  BY <1>1, ObservedIs DEF IInv, ObservedInv, ControlWindowsObserved, ControlWindows
<1> QED
  BY <1>2 DEF ObservedInv

(* No event changes the channel of a window.                                *)
LEMMA ChannelsStay ==
    ASSUME IInv, NEW what \in Counters, Happens(what)
    PROVE  \A k \in 1 .. Window : truth'[k].channel = truth[k].channel
<1> DEFINE t == [truth[Window] EXCEPT ![what] = @ + 1]
<1>1. /\ truth[Window] \in Truth /\ DOMAIN truth = 1 .. Window
  BY Places DEF IInv
<1>2. t.channel = truth[Window].channel
  BY <1>1 DEF Truth, Counters
<1>3. truth' = [truth EXCEPT ![Window] = t]
  BY DEF Happens
<1> HIDE DEF t
<1> QED
  BY <1>1, <1>2, <1>3

LEMMA ReactionChannels ==
    ASSUME IInv, Reaction
    PROVE  \A k \in 1 .. Window : truth'[k].channel = truth[k].channel
<1> DEFINE t == [truth[Window] EXCEPT !.jams = @ + 1,
                                      !.sent = IF signal'.sent THEN @ + 1 ELSE @]
<1>1. truth' = truth \/ truth' = [truth EXCEPT ![Window] = t]
  BY DEF Reaction
<1>2. truth[Window] \in Truth /\ DOMAIN truth = 1 .. Window
  BY Places DEF IInv
<1>3. t.channel = truth[Window].channel
  BY <1>2 DEF Truth
<1> HIDE DEF t
<1> QED
  BY <1>1, <1>2, <1>3

LEMMA ObservedSwitch ==
    ASSUME IInv, ObservedInv, Switch, IInv'
    PROVE  ObservedInv'
<1>1. /\ phy = "ready" /\ ~ended /\ ended' = ended
      /\ dataset' = Append(dataset, datum) /\ latest' = datum.contentionwindowid
      /\ truth' = Append(truth, NewTruth(channel'))
      /\ datum.contentionwindowid # latest => DatumTrace(datum)
      /\ datum.contentionwindowid = latest => UNCHANGED <<env, observed>>
  BY DEF Switch
<1>2. /\ truth \in Seq(Truth) /\ dataset \in Seq(Datum) /\ datum \in Datum
      /\ observed \in Seq(Datum) /\ Len(observed) \in Nat
  BY DEF IInv, TypeOK
<1> PICK w \in Nat : w = Window
  BY Places DEF IInv
<1>3. /\ w >= 1 /\ Len(dataset) = w - 1 /\ datum.contentionwindowid = w
  BY Places DEF IInv, EventsInTheirWindow
<1>4. /\ dataset' \in Seq(Datum) /\ Len(dataset') = w /\ dataset'[w] = datum
      /\ \A k \in 1 .. w - 1 : dataset'[k] = dataset[k]
  BY <1>1, <1>2, <1>3
<1>5. \A k \in 1 .. w : truth'[k] = truth[k]
  <2>1. Len(truth) = w
    BY DEF Window
  <2> QED
    BY <1>1, <1>2, <2>1
<1>6. w > 1 => (datum.currentChannel = CCH <=> truth[w].channel = CCH)
  BY <1>1 DEF IInv, ChannelInv
<1>7. w > 1 => latest # w
  <2>1. dataset = <<>> <=> w = 1
    BY <1>2, <1>3
  <2> QED
    BY <1>3, <2>1 DEF ObservedInv
<1>8. w = 1 => latest = w
  <2>1. w = 1 => dataset = <<>>
    BY <1>2, <1>3
  <2> QED
    BY <2>1 DEF ObservedInv
<1>9. ControlWindows \subseteq 2 .. w - 1 /\ ControlWindows \subseteq 1 .. w - 1
  BY <1>3 DEF ControlWindows
<1>10. /\ w > 1 /\ truth[w].channel = CCH => ControlWindows' = ControlWindows \union {w}
       /\ ~(w > 1 /\ truth[w].channel = CCH) => ControlWindows' = ControlWindows
  <2>1. \A k \in 2 .. w : k \in 1 .. w /\ (k \in 2 .. w - 1 \/ k = w)
    OBVIOUS
  <2>2. 2 .. w - 1 \subseteq 2 .. w /\ (w > 1 => w \in 2 .. w) /\ (w = 1 => 2 .. w = {})
    OBVIOUS
  <2>3. ControlWindows' = {k \in 2 .. w : truth[k].channel = CCH}
    BY <1>4, <1>5, <2>1 DEF ControlWindows
  <2>4. ControlWindows = {k \in 2 .. w - 1 : truth[k].channel = CCH}
    BY <1>3 DEF ControlWindows
  <2>5. w = 1 \/ w > 1
    BY <1>3
  <2> QED
    BY <2>1, <2>2, <2>3, <2>4, <2>5
<1>11. ShownAre(Len(observed), observed, dataset, ControlWindows)
  BY <1>1, ObservedIs DEF IInv, ObservedInv
<1>12. \A k \in ControlWindows : dataset'[k] = dataset[k]
  BY <1>4, <1>9
<1>13. ShownAre(Len(observed'), observed', dataset', ControlWindows')
  <2>1. CASE w > 1 /\ truth[w].channel = CCH
    <3>1. observed' = Append(observed, datum)
      BY <1>1, <1>3, <1>6, <1>7, <2>1 DEF DatumTrace
    <3>2. /\ Len(observed') = Len(observed) + 1 /\ observed'[Len(observed')] = datum
          /\ \A j \in 1 .. Len(observed) : observed'[j] = observed[j]
      BY <1>2, <3>1
    <3> PICK n \in Nat : n = Len(observed)
      BY <1>2
    <3> PICK m \in Nat : m = n + 1
      OBVIOUS
    <3>3. /\ ShownAre(n, observed, dataset, ControlWindows) /\ m = Len(observed')
          /\ \A j \in 1 .. n : observed'[j] = observed[j]
      BY <1>11, <3>2
    <3>4. observed'[m].contentionwindowid = w /\ observed'[m] = dataset'[w]
      <4>1. observed'[m] = datum
        BY <3>2, <3>3
      <4> QED
        BY <1>3, <1>4, <4>1
    <3>5. ShownAre(m, observed', dataset', ControlWindows \union {w})
      <4>1. w \in Nat /\ ControlWindows \subseteq 1 .. w - 1
        BY <1>3, <1>9
      <4>2. SameOn(observed', observed, 1 .. n) /\ SameOn(dataset', dataset, ControlWindows)
        BY <1>12, <3>3 DEF SameOn
      <4> QED
        BY <3>3, <3>4, <4>1, <4>2, ShownGrow
    <3> QED
      BY <1>10, <2>1, <3>3, <3>5
  <2>2. CASE ~(w > 1 /\ truth[w].channel = CCH)
    <3>1. observed' = observed
      BY <1>1, <1>3, <1>6, <1>7, <1>8, <2>2 DEF DatumTrace
    <3> QED
      BY <1>2, <1>10, <1>11, <1>12, <2>2, <3>1, ShownStay
  <2> QED
    BY <2>1, <2>2
<1>14. ControlWindowsObserved'
  <2>1. TypeOK' /\ ~ended'
    BY <1>1 DEF IInv
  <2> QED
    BY <1>13, <2>1, ObservedIs DEF ControlWindowsObserved, ShownAre, ControlWindows
<1>15. latest' = (IF dataset' = <<>> THEN 1 ELSE Len(dataset'))
  BY <1>1, <1>3, <1>4
<1>16. Len(dataset') > 1 => env' = dataset'[Len(dataset')]
  <2>1. w > 1 => env' = datum
    BY <1>1, <1>3, <1>7 DEF DatumTrace
  <2> QED
    BY <1>4, <2>1
<1> QED
  BY <1>14, <1>15, <1>16 DEF ObservedInv

LEMMA ObservedEnd ==
    ASSUME IInv, ObservedInv, End, TypeOK'
    PROVE  ObservedInv'
<1>1. /\ ~ended /\ ended' /\ UNCHANGED <<dataset, latest, env, truth>>
      /\ observed = <<>> => observed' = observed
      /\ observed # <<>> => observed' = Append(observed, env)
  BY DEF End
<1>2. observed \in Seq(Datum) /\ env \in Datum /\ Len(observed) \in Nat
  BY DEF IInv, TypeOK
<1>3. ControlWindows' = ControlWindows
  BY <1>1 DEF ControlWindows
<1>4. ShownAre(Len(observed), observed, dataset, ControlWindows)
  BY <1>1, ObservedIs DEF IInv, ObservedInv
<1>5. CASE observed = <<>>
  <2>1. Len(observed) = 0
    BY <1>5
  <2> QED
    BY <1>1, <1>3, <1>4, <1>5, <2>1 DEF ObservedInv, ControlWindowsObserved, ShownAre, ControlWindows
<1>6. CASE observed # <<>>
  <2> PICK n \in Nat : n = Len(observed)
    BY <1>2
  <2>1. /\ Len(observed') = n + 1 /\ observed'[n + 1] = env /\ observed' # <<>> /\ n > 0
        /\ \A j \in 1 .. n : observed'[j] = observed[j]
    BY <1>1, <1>2, <1>6
  <2>2. Len(dataset) > 1
    <3>1. 1 \in 1 .. n /\ Len(dataset) \in Nat
      BY <2>1 DEF IInv, TypeOK
    <3>2. observed[1].contentionwindowid \in ControlWindows
      BY <1>4, <3>1 DEF ShownAre
    <3> QED
      BY <3>1, <3>2 DEF ControlWindows
  <2>3. env = dataset[Len(dataset)]
    BY <2>2 DEF ObservedInv
  <2>4. ShownAre(n, observed', dataset', ControlWindows')
    BY <1>1, <1>3, <1>4, <2>1 DEF ShownAre
  <2>5. ControlWindowsObserved'
    <3>1. n + 1 - 1 = n /\ 1 .. n # {}
      BY <2>1
    <3> QED
      BY <1>1, <2>1, <2>3, <2>4, <3>1 DEF ControlWindowsObserved, ShownAre, ControlWindows
  <2> QED
    BY <1>1, <2>5 DEF ObservedInv
<1> QED
  BY <1>5, <1>6

LEMMA ObservedInit == Init => ObservedInv
<1> SUFFICES ASSUME Init
             PROVE  ObservedInv
  OBVIOUS
<1>1. dataset = <<>> /\ latest = 1 /\ observed = <<>> /\ Len(dataset) = 0 /\ Len(observed) = 0
      /\ ended = FALSE
  BY DEF Init
<1> QED
  BY <1>1 DEF ObservedInv, ControlWindowsObserved

LEMMA ObservedNext == IInv /\ IInv' /\ ObservedInv /\ [Next]_vars => ObservedInv'
<1> SUFFICES ASSUME IInv, IInv', ObservedInv, [Next]_vars
             PROVE  ObservedInv'
  OBVIOUS
<1>1. TypeOK' /\ {"ls", "lc", "le", "ltx"} \subseteq Counters
  BY DEF IInv, Counters
<1>2. CASE Switch
  BY <1>2, ObservedSwitch
<1>3. CASE End
  BY <1>1, <1>3, ObservedEnd
<1>4. ASSUME NEW what \in Counters, Count(what)
      PROVE  ObservedInv'
  BY <1>1, <1>4, ChannelsStay, ObservedKept DEF Count, windowVars
<1>5. CASE RxDrop \/ RxError \/ TxEnd \/ RxOkOther
  BY <1>1, <1>4, <1>5 DEF RxDrop, RxError, TxEnd, RxOkOther
<1>6. CASE \E s \in Senders : RxOk(s)
  BY <1>1, <1>6, ChannelsStay, ObservedKept DEF RxOk, windowVars
<1>7. CASE Reaction
  BY <1>1, <1>7, ReactionChannels, ObservedKept DEF Reaction, windowVars
<1>8. CASE \/ TxBegin \/ UpdateChannelNumber \/ JammerStep \/ Move \/ Tick
           \/ Terminating \/ UNCHANGED vars
  BY <1>1, <1>8, ObservedKept DEF TxBegin, UpdateChannelNumber, JammerStep, Move, Tick,
     Terminating, vars, windowVars
<1> QED
  BY <1>2, <1>3, <1>5, <1>6, <1>7, <1>8 DEF Next

(* The agent is shown the closed windows of the control channel but the     *)
(* first, each once and in order, whatever the interleaving of switches and *)
(* events; the end shows it the last closed window.                         *)
THEOREM ObservationsCorrect == Spec => []ControlWindowsObserved
<1>1. ObservedInv => ControlWindowsObserved
  BY DEF ObservedInv
<1> QED
  BY <1>1, ObservedInit, ObservedNext, Invariance, PTL DEF Spec
-------------------------------------------------------------------------------
(* The label and the signals on the air.                                    *)

SentInv == \A k \in 1 .. Window : truth[k].sent <= truth[k].jams

SentAreLabelled == \A k \in 1 .. Window : truth[k].sent > 0 => Recorded(k).m_jammed

(* Signals are reactions in the window that changes, too.                   *)
LEMMA SentKept ==
    ASSUME IInv, SentInv, NEW t \in Truth, truth' = [truth EXCEPT ![Window] = t],
           t.sent <= t.jams
    PROVE  SentInv'
<1>1. Window \in Nat /\ DOMAIN truth = 1 .. Window /\ truth \in Seq(Truth)
  BY Places DEF IInv, TypeOK
<1>2. Window' = Window
  BY <1>1 DEF Window
<1>3. \A k \in 1 .. Window : truth'[k] = IF k = Window THEN t ELSE truth[k]
  BY <1>1
<1> QED
  BY <1>2, <1>3 DEF SentInv

LEMMA SentHappens ==
    ASSUME IInv, SentInv, NEW what \in Counters, Happens(what)
    PROVE  SentInv'
<1> DEFINE u == truth[Window]
           t == [u EXCEPT ![what] = @ + 1]
<1>1. u \in Truth /\ u.sent <= u.jams
  BY Places DEF IInv, SentInv
<1>2. t \in Truth /\ t.sent = u.sent /\ t.jams = u.jams
  BY <1>1 DEF Truth, Counters
<1>3. truth' = [truth EXCEPT ![Window] = t]
  BY DEF Happens
<1> HIDE DEF t, u
<1> QED
  BY <1>1, <1>2, <1>3, SentKept

LEMMA SentReaction ==
    ASSUME IInv, SentInv, Reaction
    PROVE  SentInv'
<1> DEFINE u == truth[Window]
           t == [u EXCEPT !.jams = @ + 1, !.sent = IF signal'.sent THEN @ + 1 ELSE @]
<1>1. u \in Truth /\ u.jams \in Nat /\ u.sent \in Nat /\ u.sent <= u.jams
  <2>1. u \in Truth
    BY Places DEF IInv
  <2> QED
    BY <2>1, Places DEF IInv, SentInv, Truth
<1>2. PICK j \in Nat, n \in Nat :
         j = u.jams + 1 /\ n = (IF signal'.sent THEN u.sent + 1 ELSE u.sent)
  BY <1>1
<1>3. t = [u EXCEPT !.jams = j, !.sent = n] /\ n <= j
  BY <1>1, <1>2
<1>4. truth' = truth \/ truth' = [truth EXCEPT ![Window] = t]
  BY DEF Reaction
<1> HIDE DEF t, u
<1>5. t \in Truth /\ t.sent = n /\ t.jams = j
  BY <1>1, <1>3 DEF Truth
<1>6. CASE truth' = truth
  BY <1>6 DEF SentInv, Window
<1> QED
  BY <1>3, <1>4, <1>5, <1>6, SentKept

LEMMA SentSwitch ==
    ASSUME IInv, SentInv, Switch
    PROVE  SentInv'
<1>1. /\ Window \in Nat /\ truth \in Seq(Truth) /\ channel' \in {CCH, SCH1}
      /\ truth' = Append(truth, NewTruth(channel'))
  BY Places DEF IInv, TypeOK, Switch
<1>2. NewTruth(channel').sent = 0 /\ NewTruth(channel').jams = 0
  BY DEF NewTruth
<1>3. /\ Window' = Window + 1 /\ truth'[Window + 1] = NewTruth(channel')
      /\ \A k \in 1 .. Window : truth'[k] = truth[k]
  BY <1>1 DEF Window
<1>4. \A k \in 1 .. Window + 1 : k \in 1 .. Window \/ k = Window + 1
  BY <1>1
<1> QED
  BY <1>2, <1>3, <1>4 DEF SentInv

LEMMA SentNext == IInv /\ SentInv /\ [Next]_vars => SentInv'
<1> SUFFICES ASSUME IInv, SentInv, [Next]_vars
             PROVE  SentInv'
  OBVIOUS
<1>1. {"ls", "lc", "le", "ltx"} \subseteq Counters
  BY DEF Counters
<1>2. CASE Switch
  BY <1>2, SentSwitch
<1>3. CASE Reaction
  BY <1>3, SentReaction
<1>4. CASE RxDrop \/ RxError \/ TxEnd \/ RxOkOther \/ \E s \in Senders : RxOk(s)
  BY <1>1, <1>4, SentHappens DEF RxDrop, RxError, TxEnd, RxOkOther, RxOk, Count
<1>5. CASE \/ TxBegin \/ UpdateChannelNumber \/ End \/ JammerStep \/ Move \/ Tick
           \/ Terminating \/ UNCHANGED vars
  <2>1. truth' = truth
    BY <1>5 DEF TxBegin, UpdateChannelNumber, End, JammerStep, Move, Tick, Terminating, vars
  <2> QED
    BY <2>1 DEF SentInv, Window
<1> QED
  BY <1>2, <1>3, <1>4, <1>5 DEF Next

(* A label never misses: every window in which a jammer within reach put a  *)
(* signal on the air is labelled, whatever switches around the reaction (it *)
(* is labels without a signal that the code gives, see JammedMeansSent).    *)
THEOREM NoSignalUnlabelled == Spec => []SentAreLabelled
<1>1. Init => SentInv
  <2> SUFFICES ASSUME Init
               PROVE  SentInv
    OBVIOUS
  <2>1. Window = 1 /\ truth[1] = NewTruth(CCH)
    BY DEF Init, Window
  <2> QED
    BY <2>1 DEF SentInv, NewTruth
<1>2. IInv /\ SentInv => SentAreLabelled
  <2> SUFFICES ASSUME IInv, SentInv, NEW k \in 1 .. Window, truth[k].sent > 0
               PROVE  Recorded(k).m_jammed
    BY DEF SentAreLabelled
  <2>1. truth[k] \in Truth
    BY Places DEF IInv, TypeOK
  <2>2. truth[k].jams > 0
    BY <2>1 DEF SentInv, Truth
  <2> QED
    BY <2>2 DEF IInv, EventsInTheirWindow
<1> QED
  BY <1>1, <1>2, SentNext, Invariance, PTL DEF Spec
===============================================================================
