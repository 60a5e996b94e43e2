-------------------------------- MODULE Phases --------------------------------
(***************************************************************************)
(* What main.py promises, without its queue: every node is pretrained, the *)
(* results are looked at when all of them are there, one at a time and     *)
(* each once, the best model wins, and then the same happens with a        *)
(* learning run, which starts from that model and ends in a report.        *)
(***************************************************************************)
EXTENDS Naturals

CONSTANTS Nodes,         \* one child process each, per phase
          Performances,  \* what a pretraining can be worth
          Pretrains      \* whether there is a first phase

VARIABLES stage,   \* "idle", "pretraining", "learning", "done" or "failed"
          put,     \* the nodes that have a result in this phase
          got,     \* the nodes whose result in this phase has been received
          worth,   \* what the pretraining of each node was worth
          chosen   \* the node whose model is in use (0: none)

phaseVars == <<stage, put, got, worth, chosen>>

Init == /\ stage = "idle"
        /\ put = {} /\ got = {}
        /\ worth = [n \in Nodes |-> 0]
        /\ chosen = 0

Pretrain == /\ stage = "idle" /\ Pretrains
            /\ stage' = "pretraining"
            /\ UNCHANGED <<put, got, worth, chosen>>

(* A node has its result; only a pretraining is worth something to others.  *)
Put(n) == /\ n \notin put /\ put' = put \union {n}
          /\ \/ /\ stage = "pretraining"
                /\ \E w \in Performances : worth' = [worth EXCEPT ![n] = w]
             \/ stage = "learning" /\ UNCHANGED worth
          /\ UNCHANGED <<stage, got, chosen>>

(* Nothing is received before everybody is ready, and nothing twice.        *)
Receive(n) == /\ put = Nodes
              /\ n \notin got /\ got' = got \union {n}
              /\ UNCHANGED <<stage, put, worth>>

(* The model of the node received last may take the place of the one in     *)
(* use, but never that of a better one.                                     *)
Choose(n) == /\ stage = "pretraining"
             /\ Receive(n)
             /\ chosen' \in got' \intersect {n, chosen}
             /\ \A m \in got' : worth[m] <= worth[chosen']

Collect(n) == stage = "learning" /\ Receive(n) /\ UNCHANGED chosen

Learn == /\ \/ stage = "idle" /\ ~Pretrains
            \/ stage = "pretraining" /\ got = Nodes
         /\ stage' = "learning" /\ put' = {} /\ got' = {}
         /\ UNCHANGED <<worth, chosen>>

Report == /\ stage = "learning" /\ got = Nodes
          /\ stage' = "done"
          /\ UNCHANGED <<put, got, worth, chosen>>

(* A result that does not arrive ends the experiment, before any learning.  *)
GiveUp == /\ stage = "pretraining"
          /\ stage' = "failed"
          /\ UNCHANGED <<put, got, worth, chosen>>

Next == \/ Pretrain \/ Learn \/ Report \/ GiveUp
        \/ \E n \in Nodes : Put(n) \/ Choose(n) \/ Collect(n)

Spec == Init /\ [][Next]_phaseVars
===============================================================================
