---------------------------- MODULE ReactiveJammer ----------------------------
(***************************************************************************)
(* A reactive jammer: on the preamble of a frame it schedules a reaction   *)
(* after its switching delay, and reacts by asking its radio to send a     *)
(* jamming signal.  The radio never receives: JammerWifiPhy overrides      *)
(* StartReceivePreamble and hands the preamble to the jammer only.         *)
(*                                                                         *)
(* The jammer is switched on by its constructor and nothing in the         *)
(* repository switches it off; its receive timeout is disabled by default  *)
(* and does nothing.                                                       *)
(***************************************************************************)
EXTENDS Naturals

CONSTANT LevelOutcomes  \* can the power level be accepted, can it be refused

VARIABLES pending,  \* scheduled ReactToPacket events
          radio,    \* the state of the radio of the jammer
          signal    \* the last reaction: the power it reported and if it was sent

vars == <<pending, radio, signal>>

Radio == {"idle", "tx", "switching"}

Init == pending = 0 /\ radio = "idle" /\ signal = [power |-> "none", sent |-> FALSE]

(* Bug: the reaction that is already scheduled is not cancelled.            *)
BugStartRxHandler == /\ \E jam \in BOOLEAN : pending' = IF jam THEN pending + 1 ELSE pending
                     /\ UNCHANGED <<radio, signal>>

(* A preamble is heard, in any state of the radio.  A jammer that decides   *)
(* to jam replaces the reaction it has scheduled, if any, by a new one.     *)
StartRxHandler == /\ \E jam \in BOOLEAN : pending' = IF jam THEN 1 ELSE pending
                  /\ UNCHANGED <<radio, signal>>

(* The radio refuses silently while it sends or switches.  The power level  *)
(* is a quotient by TxPowerEnd - TxPowerStart, which the scenario sets to   *)
(* zero, converted to an uint8_t, which is undefined: whether it is a       *)
(* correct level is up to the build.                                        *)
UtilitySendPacket(levelOk) ==
    signal' = [power |-> IF levelOk THEN "some" ELSE "zero",
               sent  |-> levelOk /\ radio = "idle"]

(* The scheduled reaction fires.                                            *)
ReactToPacket == /\ pending > 0
                 /\ pending' = pending - 1
                 /\ \E levelOk \in LevelOutcomes : UtilitySendPacket(levelOk)
                 /\ radio' = IF signal'.sent THEN "tx" ELSE radio

(* The radio finishes a frame, or follows the alternation of the channels,  *)
(* which waits for the end of a frame.                                      *)
RadioStep == /\ \/ radio = "tx" /\ radio' = "idle"
                \/ radio = "idle" /\ radio' = "switching"
                \/ radio = "switching" /\ radio' = "idle"
             /\ UNCHANGED <<pending, signal>>

Next == StartRxHandler \/ ReactToPacket \/ RadioStep

Spec == Init /\ [][Next]_vars
-------------------------------------------------------------------------------
(* Type invariant; at most one reaction is scheduled.                       *)
TypeOK == /\ pending \in {0, 1}
          /\ radio \in Radio
          /\ signal \in [power : {"none", "zero", "some"}, sent : BOOLEAN]
===============================================================================
