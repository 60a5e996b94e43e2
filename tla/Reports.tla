-------------------------------- MODULE Reports --------------------------------
(***************************************************************************)
(* What a series of experiments leaves on disk.  main.py clears the plots, *)
(* its children write plots and data files, and at the end it writes a     *)
(* report and enters it in two tables of the ten best reports: best.csv,   *)
(* of all the experiments, and best_{mode}.csv, of those of its QoS mode.  *)
(* The files outlive the process, which may be stopped anywhere; what      *)
(* happens inside an experiment is in Experiment.                          *)
(*                                                                         *)
(* An experiment is known by its number, which stands for the time in the  *)
(* name of its report (to the microsecond, so no two are the same).  A     *)
(* table is a set of rows: rows are only appended, so that their order in  *)
(* the file is that of their numbers.                                      *)
(***************************************************************************)
EXTENDS Integers, FiniteSets

CONSTANTS MaxNode,         \* data/node1 .. data/node9, largest nb_node accepted
          NodeArgs,        \* the nb_node arguments experiments are started with
          QoSModes,        \* their mode arguments
          Performances,    \* the global performances, in hundredths
          TableSize,       \* rows of a full table
          MaxExperiments   \* bound

Best   == "best"           \* best.csv; best_{mode}.csv goes by its mode
Tables == {Best} \union QoSModes
Nodes  == 1 .. MaxNode

ASSUME ReportsAssumption ==
    /\ MaxNode \in Nat \ {0}
    /\ NodeArgs \subseteq Nat
    /\ Best \notin QoSModes
    /\ Performances \subseteq 0 .. 100
    /\ TableSize \in Nat \ {0}
    /\ MaxExperiments \in Nat

VARIABLES
  pc,       \* "idle", "children", "report", "best", "best pdf", "mode", "mode pdf"
  stamp,    \* number of the present (or last) experiment, 0 for none
  mode, nb, \* its arguments
  perf,     \* its global performance, once it has one
  plots,    \* the experiment each node's images in plot/ are from (0: no image)
  data,     \* the experiment each data/node{n}/data.txt is from (0: older)
  listing,  \* the order in which glob lists the data directories
  pdfs,     \* the reports in report/
  rows,     \* the rows of the tables (none in a table that does not exist)
  broken,   \* the tables that are an empty file
  offered,  \* history: the rows each table was offered since it was lost last
  lost,     \* history: the tables that were lost
  cut       \* history: the experiments stopped between their two tables

vars == <<pc, stamp, mode, nb, perf, plots, data, listing, pdfs, rows, broken, offered,
          lost, cut>>
experiment == <<stamp, mode, nb, perf>>
tables     == <<rows, broken, offered, lost>>

Row == [stamp : 1 .. MaxExperiments, mode : QoSModes, perf : Performances]

Init == /\ pc = "idle" /\ stamp = 0
        /\ mode \in QoSModes /\ nb \in NodeArgs /\ perf = 0
        /\ plots = [n \in Nodes |-> 0] /\ data = [n \in Nodes |-> 0]
        /\ listing \in [Nodes -> Nodes]
        /\ \A j, k \in Nodes : j # k => listing[j] # listing[k]
        /\ pdfs = {} /\ broken = {} /\ lost = {} /\ cut = {}
        /\ rows = [f \in Tables |-> {}] /\ offered = [f \in Tables |-> {}]

-------------------------------------------------------------------------------
(* The number of children main.py starts.                                   *)
Children == IF nb \in Nodes THEN nb ELSE 1

(* Bug: an average that counts a performance for each data directory.       *)
BugAllReceived(p) ==
    /\ pc = "children"
    /\ perf' = p * nb
    /\ pc' = "report"
    /\ UNCHANGED <<stamp, mode, nb, plots, data, listing, pdfs, tables, cut>>

(* Bug: the images of the last experiment stay.                             *)
BugStart(m, a) ==
    /\ pc = "idle" /\ stamp < MaxExperiments
    /\ stamp' = stamp + 1 /\ mode' = m /\ nb' = a /\ perf' = 0
    /\ pc' = "children"
    /\ UNCHANGED <<plots, data, listing, pdfs, tables, cut>>

(* main.py up to the phases: resetPlotImg, arguments.                       *)
Start(m, a) ==
    /\ pc = "idle" /\ stamp < MaxExperiments
    /\ stamp' = stamp + 1 /\ mode' = m /\ nb' = a /\ perf' = 0
    /\ plots' = [n \in Nodes |-> 0]
    /\ pc' = "children"
    /\ UNCHANGED <<data, listing, pdfs, tables, cut>>

(* The end of a live child: save_images and save_node_data.                 *)
ChildSaves(n) ==
    /\ pc = "children" /\ n <= Children /\ data[n] # stamp
    /\ plots' = [plots EXCEPT ![n] = stamp]
    /\ data' = [data EXCEPT ![n] = stamp]
    /\ UNCHANGED <<pc, experiment, listing, pdfs, tables, cut>>

(* Everything is received, and averaged.                                    *)
AllReceived(p) ==
    /\ pc = "children"
    /\ \A n \in 1 .. Children : data[n] = stamp
    /\ perf' = p
    /\ pc' = "report"
    /\ UNCHANGED <<stamp, mode, nb, plots, data, listing, pdfs, tables, cut>>

(* The images of all nodes that have one in plot/, in one picture.          *)
Images == {[node |-> n, from |-> plots[n]] : n \in {n \in Nodes : plots[n] # 0}}

(* The data of the nodes is that of the first nb directories glob lists.    *)
Shown == [k \in 1 .. nb |-> [node |-> listing[k], from |-> data[listing[k]]]]

(* generatePDF: an existing report is left alone.                           *)
GeneratePDF ==
    pdfs' = IF \E p \in pdfs : p.stamp = stamp THEN pdfs
            ELSE pdfs \union {[stamp |-> stamp, nb |-> nb, images |-> Images, shown |-> Shown]}

(* Bug: the report is left to the tables.                                   *)
BugReport == /\ pc = "report"
             /\ pc' = IF nb <= MaxNode THEN "best" ELSE "idle"
             /\ UNCHANGED <<experiment, plots, data, listing, pdfs, tables, cut>>

(* The report of main.py itself; an nb_node above the number of directories *)
(* is not clamped here and ends it with an IndexError.                      *)
Report == /\ pc = "report"
          /\ \/ nb <= MaxNode /\ GeneratePDF /\ pc' = "best"
             \/ nb > MaxNode /\ pc' = "idle" /\ UNCHANGED pdfs
          /\ UNCHANGED <<experiment, plots, data, listing, tables, cut>>

(* Bug: the search looks for the maximum: a row with the greatest           *)
(* performance is given up.                                                 *)
BugWorst(t) == CHOOSE r \in t : \A s \in t : \/ r.perf > s.perf
                                             \/ r.perf = s.perf /\ r.stamp >= s.stamp

(* The row a full table gives up: <= in the search for the minimum takes    *)
(* the last row with the least performance.                                 *)
Worst(t) == CHOOSE r \in t : \A s \in t : \/ r.perf < s.perf
                                          \/ r.perf = s.perf /\ r.stamp >= s.stamp

TheRow == [stamp |-> stamp, mode |-> mode, perf |-> perf]
Enters(t) == IF Cardinality(t) < TableSize THEN TRUE ELSE perf >= Worst(t).perf

(* The table with the row entered; the one given up is dropped by its name. *)
WithRow(t) == {TheRow} \union IF Cardinality(t) < TableSize THEN t
                              ELSE {r \in t : r.stamp # Worst(t).stamp}

(* Bug: the two functions disagree about ties.                              *)
BugTies(f, here, next, done) ==
    /\ pc = here /\ f \notin broken
    /\ offered' = [offered EXCEPT ![f] = @ \union {TheRow}]
    /\ IF /\ Enters(rows[f])
          /\ f # Best /\ Cardinality(rows[f]) = TableSize => perf > Worst(rows[f]).perf
       THEN rows' = [rows EXCEPT ![f] = WithRow(@)] /\ pc' = next
       ELSE pc' = done /\ UNCHANGED rows
    /\ UNCHANGED <<experiment, plots, data, listing, pdfs, broken, lost, cut>>

(* Bug: an empty file is taken for a missing one.                           *)
BugFindBest(f, here, next, done) ==
    /\ pc = here
    /\ offered' = [offered EXCEPT ![f] = @ \union {TheRow}]
    /\ broken' = broken \ {f}
    /\ \/ /\ Enters(rows[f])
          /\ rows' = [rows EXCEPT ![f] = WithRow(@)] /\ pc' = next
       \/ /\ ~Enters(rows[f])
          /\ pc' = done /\ UNCHANGED rows
    /\ UNCHANGED <<experiment, plots, data, listing, pdfs, lost, cut>>

(* findGlobalBest and findModeBest up to the call of generatePDF, if they   *)
(* make it; an empty file has no columns to read and ends main.py.          *)
FindBest(f, here, next, done) ==
    /\ pc = here
    /\ \/ /\ f \in broken
          /\ pc' = "idle" /\ UNCHANGED <<rows, offered>>
       \/ /\ f \notin broken
          /\ offered' = [offered EXCEPT ![f] = @ \union {TheRow}]
          /\ \/ /\ Enters(rows[f])
                /\ rows' = [rows EXCEPT ![f] = WithRow(@)] /\ pc' = next
             \/ /\ ~Enters(rows[f])
                /\ pc' = done /\ UNCHANGED rows
    /\ UNCHANGED <<experiment, plots, data, listing, pdfs, broken, lost, cut>>

(* The generatePDF of the two.                                              *)
ReportAgain(here, next) ==
    /\ pc = here
    /\ GeneratePDF
    /\ pc' = next
    /\ UNCHANGED <<experiment, plots, data, listing, tables, cut>>

(* to_csv truncates the file before it fills it: stopped in between, it     *)
(* leaves an empty file, or the header alone.                               *)
StopInWrite(f) ==
    /\ \/ pc = "best" /\ f = Best
       \/ pc = "mode" /\ f = mode
    /\ f \notin broken /\ Enters(rows[f])
    /\ broken' \in {broken, broken \union {f}}
    /\ rows' = [rows EXCEPT ![f] = {}]
    /\ offered' = [offered EXCEPT ![f] = {}]
    /\ lost' = lost \union {f}
    /\ pc' = "idle"
    /\ UNCHANGED <<experiment, plots, data, listing, pdfs, cut>>

(* Ctrl-C, which every process gets, anywhere else.                         *)
Stop == /\ pc # "idle"
        /\ pc' = "idle"
        /\ cut' = IF pc \in {"best pdf", "mode"} THEN cut \union {stamp} ELSE cut
        /\ UNCHANGED <<experiment, plots, data, listing, pdfs, tables>>

Terminating == pc = "idle" /\ stamp = MaxExperiments /\ UNCHANGED vars

Next == \/ \E m \in QoSModes, a \in NodeArgs : Start(m, a)
        \/ \E n \in Nodes : ChildSaves(n)
        \/ \E p \in Performances : AllReceived(p)
        \/ Report
        \/ FindBest(Best, "best", "best pdf", "mode")
        \/ ReportAgain("best pdf", "mode")
        \/ FindBest(mode, "mode", "mode pdf", "idle")
        \/ ReportAgain("mode pdf", "idle")
        \/ \E f \in Tables : StopInWrite(f)
        \/ Stop
        \/ Terminating

Spec == Init /\ [][Next]_vars
-------------------------------------------------------------------------------
(* Type invariant.                                                          *)
TypeOK == /\ pc \in {"idle", "children", "report", "best", "best pdf", "mode", "mode pdf"}
          /\ stamp \in 0 .. MaxExperiments
          /\ mode \in QoSModes /\ nb \in NodeArgs /\ perf \in Performances \union {0}
          /\ plots \in [Nodes -> 0 .. stamp] /\ data \in [Nodes -> 0 .. stamp]
          /\ listing \in [Nodes -> Nodes]
          /\ \A p \in pdfs : p.stamp \in 1 .. stamp /\ p.nb \in NodeArgs
          /\ rows \in [Tables -> SUBSET Row] /\ offered \in [Tables -> SUBSET Row]
          /\ broken \subseteq Tables /\ lost \subseteq Tables
          /\ cut \subseteq 1 .. MaxExperiments

(* A table holds the best of what it was offered ("If the global            *)
(* performance is higher than the smallest value ... the smallest value and *)
(* its corresponding report path is replaced"): it is as full as can be,    *)
(* and nothing that was turned down or given up beats a row of it.          *)
KeepsBest ==
    \A f \in Tables :
        /\ rows[f] \subseteq offered[f]
        /\ \/ Cardinality(rows[f]) = TableSize
           \/ rows[f] = offered[f] /\ Cardinality(rows[f]) < TableSize
        /\ \A r \in offered[f] \ rows[f], s \in rows[f] : r.perf <= s.perf

(* The two tables agree, whatever ties there are: a report among the best   *)
(* of all is among the best of its mode, unless its experiment has been     *)
(* stopped, or is, between the two, or one of the tables was lost.          *)
GlobalBestInMode ==
    Best \notin lost =>
        \A r \in rows[Best] : \/ r \in rows[r.mode]
                              \/ r.mode \in lost
                              \/ r.stamp \in cut
                              \/ r.stamp = stamp /\ pc \in {"best pdf", "mode"}

(* Whatever is stopped when, a row of a table names a report that is there. *)
RowsHaveReports ==
    \A f \in Tables : \A r \in rows[f] : \E p \in pdfs : p.stamp = r.stamp

(* A report draws the plots of the nodes of its own experiment, all of them *)
(* and no other; if there are as many nodes as data directories, it lists   *)
(* the data of its own experiment, too.                                     *)
ReportsShowTheirExperiment ==
    \A p \in pdfs :
        /\ p.images = {[node |-> n, from |-> p.stamp] :
                            n \in 1 .. IF p.nb \in Nodes THEN p.nb ELSE 1}
        /\ p.nb = MaxNode => \A k \in DOMAIN p.shown : p.shown[k].from = p.stamp

(* An empty best.csv is never written again, and no table of any mode       *)
(* either: every later experiment ends in findGlobalBest.                   *)
EmptyTableSilences ==
    [][broken \subseteq broken' /\ (Best \in broken => UNCHANGED rows)]_vars

(* A report lists the data of every node of its experiment ("List           *)
(* containing all the data from each node in a dataframe (one per node)").  *)
ReportListsItsNodes ==
    \A p \in pdfs : \A n \in 1 .. p.nb :
        \E k \in DOMAIN p.shown : p.shown[k] = [node |-> n, from |-> p.stamp]
===============================================================================
