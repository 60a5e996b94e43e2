------------------------------- MODULE GymTurns -------------------------------
(***************************************************************************)
(* What the OpenGym bridge promises the learning agents, without sockets   *)
(* or processes: the agents take turns.  An agent that has been shown a    *)
(* window of the simulation holds the turn until it answers, nobody else   *)
(* is shown anything meanwhile, windows are shown to an agent one after    *)
(* the other without gap or repetition, and after the window that ends the *)
(* episode an agent is never shown another.                                *)
(***************************************************************************)
EXTENDS Naturals

CONSTANT Agents

VARIABLES holding,   \* holding[a]: agent a was shown a window and owes an answer
          seen,      \* seen[a]: number of windows shown to a
          done       \* done[a]: the last window a was shown ended the episode

vars == <<holding, seen, done>>

Init == /\ holding = [a \in Agents |-> FALSE]
        /\ seen = [a \in Agents |-> 0]
        /\ done = [a \in Agents |-> FALSE]

Free == \A a \in Agents : ~holding[a]

(* a is shown its next window; the episode waits for a's answer.           *)
Observe(a) == /\ Free
              /\ ~done[a]
              /\ holding' = [holding EXCEPT ![a] = TRUE]
              /\ seen' = [seen EXCEPT ![a] = @ + 1]
              /\ UNCHANGED done

(* a answers the window it holds.                                          *)
Answer(a) == /\ holding[a]
             /\ holding' = [holding EXCEPT ![a] = FALSE]
             /\ UNCHANGED <<seen, done>>

(* a is shown the window that ends its episode; the answer is immediate.   *)
Finish(a) == /\ Free
             /\ ~done[a]
             /\ seen[a] > 0
             /\ seen' = [seen EXCEPT ![a] = @ + 1]
             /\ done' = [done EXCEPT ![a] = TRUE]
             /\ UNCHANGED holding

Next == \E a \in Agents : Observe(a) \/ Answer(a) \/ Finish(a)

Spec == Init /\ [][Next]_vars
===============================================================================
