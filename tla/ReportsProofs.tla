---------------------------- MODULE ReportsProofs -----------------------------
(***************************************************************************)
(* Machine-checked proofs about Reports, for any number of experiments,    *)
(* nodes, modes and rows of a table.                                       *)
(***************************************************************************)
EXTENDS Reports, FiniteSetTheorems, WellFoundedInduction, TLAPS

(* The inductive strengthening the proofs of ReportsProofs rest on.         *)

Writing == {"best", "best pdf", "mode", "mode pdf"}

TypeInv == /\ TypeOK
           /\ pc # "idle" => stamp > 0
           /\ pc \notin {"idle", "children"} => perf \in Performances

(* A table t that was offered the rows o: KeepsBest, and what it takes to   *)
(* stay so.  The last conjunct is why the two tables agree about ties: a    *)
(* row that outlives a row of its performance that came before it is the    *)
(* last that entered.                                                       *)
TableOK(t, o) ==
    /\ t \subseteq o /\ IsFiniteSet(t)
    /\ Cardinality(t) = TableSize \/ (t = o /\ Cardinality(t) < TableSize)
    /\ \A r, s \in t : r.stamp = s.stamp => r = s
    /\ \A r \in o \ t, s \in t : r.perf <= s.perf
    /\ \A r \in o \ t, s \in t : r.perf = s.perf /\ r.stamp < s.stamp =>
          \A u \in t : u.stamp <= s.stamp

TablesInv == \A f \in Tables : TableOK(rows[f], offered[f])

(* A table was not offered the present row yet.                             *)
Ahead(f) == \/ pc \in {"children", "report", "best"}
            \/ pc \in {"best pdf", "mode"} /\ f # Best

StampInv == \A f \in Tables : \A r \in offered[f] :
                /\ r.stamp <= stamp
                /\ Ahead(f) => r.stamp < stamp
                /\ r.stamp = stamp /\ pc # "idle" => r = TheRow

ModeInv == /\ \A m \in QoSModes : \A r \in rows[m] : r.mode = m
           /\ Best \notin lost => \A m \in QoSModes : rows[m] \subseteq offered[Best]
           /\ pc \in {"best pdf", "mode"} =>
                 /\ TheRow \in offered[Best]
                 /\ TheRow \in rows[Best] \/ \A s \in rows[Best] : perf < s.perf
           /\ broken \subseteq lost

SilenceInv == pc \in {"best pdf", "mode", "mode pdf"} => Best \notin broken

PdfInv == /\ RowsHaveReports
          /\ pc \in Writing => \E p \in pdfs : p.stamp = stamp

PlotInv == /\ ReportsShowTheirExperiment
           /\ pc = "children" => \A n \in Nodes :
                 plots[n] = IF n <= Children /\ data[n] = stamp THEN stamp ELSE 0
           /\ pc = "report" => \A n \in Nodes :
                 IF n <= Children THEN plots[n] = stamp /\ data[n] = stamp
                                  ELSE plots[n] = 0

IInv == TypeInv /\ TablesInv /\ StampInv /\ ModeInv /\ SilenceInv /\ PdfInv /\ PlotInv
        /\ GlobalBestInMode
-------------------------------------------------------------------------------
(* The rows a full table gives up.                                          *)

LEMMA LeastNatural ==
    ASSUME NEW T, T \subseteq Nat, T # {}
    PROVE  \E x \in T : \A y \in T : x <= y
<1> DEFINE Below == {0 .. t : t \in T}
           SO == StrictSubsetOrdering(Nat)
<1>1. IsWellFoundedOn(SO, FiniteSubsetsOf(Nat))
  BY FS_StrictSubsetOrderingWellFounded
<1>2. ASSUME NEW t \in T PROVE 0 .. t \in FiniteSubsetsOf(Nat)
  <2>1. IsFiniteSet(0 .. t)
    BY FS_Interval
  <2> QED BY <2>1 DEF FiniteSubsetsOf
<1>3. Below \subseteq FiniteSubsetsOf(Nat) /\ Below # {}
  BY <1>2
<1>4. PICK X \in Below : \A Y \in Below : ~ (<<Y, X>> \in SO)
  <2> HIDE DEF Below, SO
  <2> QED BY <1>1, <1>3, WFMin
<1>5. PICK x \in T : X = 0 .. x
  OBVIOUS
<1>6. ASSUME NEW y \in T, y < x PROVE FALSE
  <2>1. 0 .. y \in SUBSET Nat /\ 0 .. x \in SUBSET Nat
    OBVIOUS
  <2>2. 0 .. y \subseteq 0 .. x /\ x \in 0 .. x /\ x \notin 0 .. y
    BY <1>6
  <2>3. <<0 .. y, 0 .. x>> \in SO
    BY <2>1, <2>2 DEF StrictSubsetOrdering
  <2> QED BY <2>3, <1>4, <1>5
<1>7. \A y \in T : ~ (y < x)
  BY <1>6
<1> QED BY <1>7

LEMMA RowTypes == \A r \in Row : /\ r.stamp \in Nat /\ r.stamp <= MaxExperiments
                                 /\ r.perf \in Nat /\ r.mode \in QoSModes
<1> SUFFICES ASSUME NEW r \in Row
             PROVE  /\ r.stamp \in Nat /\ r.stamp <= MaxExperiments
                    /\ r.perf \in Nat /\ r.mode \in QoSModes
  OBVIOUS
<1>1. r.stamp \in 1 .. MaxExperiments /\ r.perf \in Performances /\ r.mode \in QoSModes
  BY DEF Row
<1>2. r.perf \in 0 .. 100 /\ MaxExperiments \in Nat
  BY <1>1, ReportsAssumption
<1>3. r.perf \in Nat
  BY <1>2
<1>4. r.stamp \in Nat /\ r.stamp <= MaxExperiments
  BY <1>1, <1>2
<1> QED BY <1>1, <1>3, <1>4

LEMMA WorstRow ==
    ASSUME NEW t \in SUBSET Row, t # {}
    PROVE  /\ Worst(t) \in t
           /\ \A s \in t : \/ Worst(t).perf < s.perf
                           \/ Worst(t).perf = s.perf /\ Worst(t).stamp >= s.stamp
<1>1. {r.perf : r \in t} \subseteq Nat /\ {r.perf : r \in t} # {}
  BY RowTypes
<1>2. PICK p \in {r.perf : r \in t} : \A q \in {r.perf : r \in t} : p <= q
  BY <1>1, LeastNatural
<1> DEFINE ages == {MaxExperiments - r.stamp : r \in {r \in t : r.perf = p}}
<1>3. ages \subseteq Nat /\ ages # {}
  BY <1>2, RowTypes, ReportsAssumption
<1>4. PICK a \in ages : \A b \in ages : a <= b
  <2> HIDE DEF ages
  <2> QED BY <1>3, LeastNatural
<1>5. PICK r \in t : r.perf = p /\ a = MaxExperiments - r.stamp
  BY <1>4
<1>6. ASSUME NEW s \in t PROVE r.perf < s.perf \/ (r.perf = s.perf /\ r.stamp >= s.stamp)
  <2>1. r.perf <= s.perf
    BY <1>2, <1>5
  <2>2. CASE s.perf = p
    <3>1. MaxExperiments - r.stamp <= MaxExperiments - s.stamp
      BY <1>4, <1>5, <2>2
    <3> QED BY <1>5, <2>2, <3>1, RowTypes, ReportsAssumption
  <2>3. CASE s.perf # p
    BY <1>5, <2>1, <2>3, RowTypes
  <2> QED BY <2>2, <2>3
<1> QED BY <1>5, <1>6 DEF Worst

LEMMA WithRowFull ==
    ASSUME NEW t \in SUBSET Row, IsFiniteSet(t), Cardinality(t) = TableSize,
           \A r, s \in t : r.stamp = s.stamp => r = s
    PROVE  /\ Worst(t) \in t
           /\ \A s \in t : \/ Worst(t).perf < s.perf
                           \/ Worst(t).perf = s.perf /\ Worst(t).stamp >= s.stamp
           /\ WithRow(t) = (t \ {Worst(t)}) \union {TheRow}
<1>1. t # {}
  BY FS_EmptySet, ReportsAssumption
<1>2. /\ Worst(t) \in t
      /\ \A s \in t : \/ Worst(t).perf < s.perf
                      \/ Worst(t).perf = s.perf /\ Worst(t).stamp >= s.stamp
  BY <1>1, WorstRow
<1>3. ~ (Cardinality(t) < TableSize)
  BY ReportsAssumption
<1>4. \A r \in t : r.stamp # Worst(t).stamp <=> r # Worst(t)
  BY <1>2
<1>5. WithRow(t) = (t \ {Worst(t)}) \union {TheRow}
  BY <1>3, <1>4 DEF WithRow
<1> QED BY <1>2, <1>5

(* Entering a row, or turning it down, keeps a table the best of its offers.*)
LEMMA Entered ==
    ASSUME NEW t \in SUBSET Row, NEW o \in SUBSET Row, TableOK(t, o), TheRow \in Row,
           \A r \in o : r.stamp < stamp, Enters(t)
    PROVE  TableOK(WithRow(t), o \union {TheRow})
<1> DEFINE n == TheRow
           w == Worst(t)
           T == WithRow(t)
           O == o \union {n}
<1>1. n.stamp = stamp /\ n.perf = perf /\ n \notin o /\ n \notin t /\ n.stamp \in Nat
      /\ perf \in Nat
  BY RowTypes DEF TheRow, TableOK
<1>2. Cardinality(t) \in Nat /\ TableSize \in Nat \ {0}
  BY FS_CardinalityType, ReportsAssumption DEF TableOK
<1>3. CASE Cardinality(t) < TableSize
  <2>1. t = o /\ T = O /\ T = t \union {n}
    BY <1>2, <1>3 DEF TableOK, WithRow
  <2>2. IsFiniteSet(T) /\ Cardinality(T) = Cardinality(t) + 1
    BY <1>1, <2>1, FS_AddElement DEF TableOK
  <2>3. \A r, s \in T : r.stamp = s.stamp => r = s
    BY <1>1, <2>1, RowTypes DEF TableOK
  <2>4. T \subseteq O /\ O \ T = {}
    BY <2>1
  <2> HIDE DEF T, O
  <2>5. TableOK(T, O)
    BY <1>2, <1>3, <2>1, <2>2, <2>3, <2>4 DEF TableOK
  <2> QED BY <2>5 DEF T, O
<1>4. CASE Cardinality(t) = TableSize
  <2>1. /\ w \in t
        /\ \A s \in t : w.perf < s.perf \/ (w.perf = s.perf /\ w.stamp >= s.stamp)
        /\ T = (t \ {w}) \union {n}
    BY <1>4, WithRowFull DEF TableOK
  <2>2. perf >= w.perf
    BY <1>2, <1>4 DEF Enters
  <2>3. IsFiniteSet(t \ {w}) /\ Cardinality(t \ {w}) = Cardinality(t) - 1
    BY <2>1, FS_RemoveElement DEF TableOK
  <2>4. IsFiniteSet(T) /\ Cardinality(T) = TableSize
    <3>1. /\ IsFiniteSet((t \ {w}) \union {n})
          /\ Cardinality((t \ {w}) \union {n}) = Cardinality(t \ {w}) + 1
      BY <1>1, <2>3, FS_AddElement
    <3> QED BY <1>2, <1>4, <2>1, <2>3, <3>1
  <2>5. T \subseteq O /\ t \subseteq o
    BY <2>1 DEF TableOK
  <2>6. \A r \in O \ T : r \in o /\ (r = w \/ r \notin t)
    BY <2>1
  <2>7. \A s \in T : s = n \/ (s \in t /\ s # w)
    BY <2>1
  <2> HIDE DEF T, O, w
  <2>8. \A r, s \in T : r.stamp = s.stamp => r = s
    BY <1>1, <2>5, <2>7, RowTypes DEF TableOK
  <2>9. ASSUME NEW r \in O \ T, NEW s \in T PROVE r.perf <= s.perf
    <3>1. r \in Row /\ w \in Row /\ r.perf <= w.perf
      BY <2>1, <2>5, <2>6, RowTypes DEF TableOK
    <3> QED BY <1>1, <2>1, <2>2, <2>7, <3>1, RowTypes
  <2>10. ASSUME NEW r \in O \ T, NEW s \in T, r.perf = s.perf, r.stamp < s.stamp,
                NEW u \in T
         PROVE  u.stamp <= s.stamp
    <3>1. CASE s = n
      BY <1>1, <2>5, <2>7, <3>1, RowTypes
    <3>2. CASE s \in t /\ s # w
      <4>1. r \in Row /\ s \in Row /\ w \in Row
        BY <2>1, <2>5, <2>6, <3>2
      <4>2. r # w
        BY <2>1, <2>10, <3>2, <4>1, RowTypes
      <4>3. r \in o \ t
        BY <4>2, <2>6
      <4>4. r.perf <= w.perf
        BY <4>3, <2>1 DEF TableOK
      <4>5. w.perf = s.perf /\ w.stamp >= s.stamp
        BY <2>1, <2>10, <3>2, <4>1, <4>4, RowTypes
      <4>6. w.stamp <= s.stamp
        BY <2>1, <2>10, <3>2, <4>3 DEF TableOK
      <4>7. w.stamp = s.stamp
        BY <4>1, <4>5, <4>6, RowTypes
      <4> QED BY <2>1, <3>2, <4>7 DEF TableOK
    <3> QED BY <2>7, <3>1, <3>2
  <2>11. TableOK(T, O)
    BY <2>4, <2>5, <2>8, <2>9, <2>10 DEF TableOK
  <2> QED BY <2>11 DEF T, O
<1> QED BY <1>2, <1>3, <1>4 DEF TableOK

LEMMA TurnedDown ==
    ASSUME NEW t \in SUBSET Row, NEW o \in SUBSET Row, TableOK(t, o), TheRow \in Row,
           ~ Enters(t)
    PROVE  /\ TableOK(t, o \union {TheRow})
           /\ Cardinality(t) = TableSize
           /\ \A s \in t : perf < s.perf
<1>1. Cardinality(t) \in Nat /\ TableSize \in Nat \ {0}
  BY FS_CardinalityType, ReportsAssumption DEF TableOK
<1>2. Cardinality(t) = TableSize /\ ~ (perf >= Worst(t).perf)
  BY <1>1 DEF TableOK, Enters
<1>3. /\ Worst(t) \in t
      /\ \A s \in t : \/ Worst(t).perf < s.perf
                      \/ Worst(t).perf = s.perf /\ Worst(t).stamp >= s.stamp
  BY <1>2, WithRowFull DEF TableOK
<1>4. TheRow.perf = perf /\ perf \in Nat
  BY RowTypes DEF TheRow
<1>5. \A s \in t : perf < s.perf
  BY <1>2, <1>3, <1>4, RowTypes
<1> QED BY <1>2, <1>4, <1>5, RowTypes DEF TableOK

(* What findModeBest gives up is no longer in best.csv, and what it turns   *)
(* down never was, or is not any more.                                      *)
LEMMA TheRowType ==
    ASSUME TypeInv, pc \notin {"idle", "children"}
    PROVE  TheRow \in Row /\ TheRow.stamp = stamp /\ TheRow.perf = perf /\ TheRow.mode = mode
<1>1. pc # "idle" /\ stamp \in 0 .. MaxExperiments /\ stamp > 0 /\ mode \in QoSModes
      /\ perf \in Performances
  BY DEF TypeInv, TypeOK
<1>2. stamp \in 1 .. MaxExperiments
  BY <1>1
<1> QED BY <1>1, <1>2 DEF TheRow, Row

LEMMA OutsideBest ==
    ASSUME IInv, Best \notin lost, NEW m \in QoSModes, Cardinality(rows[m]) = TableSize,
           TheRow \in rows[Best], TheRow \notin rows[m]
    PROVE  \E y \in rows[m] : y \in offered[Best] \ rows[Best]
<1>1. rows[m] \subseteq offered[Best]
  BY DEF IInv, ModeInv
<1>2. Best \in Tables /\ TableOK(rows[Best], offered[Best])
  BY DEF IInv, TablesInv, Tables
<1>3. ASSUME rows[m] \subseteq rows[Best] PROVE FALSE
  <2>1. /\ Cardinality(rows[m]) <= Cardinality(rows[Best])
        /\ Cardinality(rows[Best]) = Cardinality(rows[m]) => rows[Best] = rows[m]
    BY <1>2, <1>3, FS_Subset DEF TableOK
  <2>2. Cardinality(rows[Best]) \in Nat
    BY <1>2, FS_CardinalityType DEF TableOK
  <2>3. Cardinality(rows[Best]) = TableSize
    BY <1>2, <2>1, <2>2, ReportsAssumption DEF TableOK
  <2> QED BY <2>1, <2>3
<1> QED BY <1>1, <1>3

LEMMA TurnedDownByBest ==
    ASSUME IInv, pc = "mode", Best \notin lost, NEW m \in QoSModes, ~ Enters(rows[m])
    PROVE  TheRow \notin rows[Best]
<1>1. m \in Tables /\ Best \in Tables /\ rows[m] \in SUBSET Row /\ offered[m] \in SUBSET Row
      /\ offered[Best] \in SUBSET Row
  BY DEF IInv, TypeInv, TypeOK, Tables
<1>2. TheRow \in Row /\ TheRow.perf = perf
  BY TheRowType DEF IInv
<1>3. Cardinality(rows[m]) = TableSize /\ \A s \in rows[m] : perf < s.perf
  BY <1>1, <1>2, TurnedDown DEF IInv, TablesInv
<1>4. ASSUME TheRow \in rows[Best] PROVE FALSE
  <2>1. TheRow \notin rows[m]
    BY <1>1, <1>2, <1>3, RowTypes
  <2>2. PICK y \in rows[m] : y \in offered[Best] \ rows[Best]
    BY <1>3, <1>4, <2>1, OutsideBest
  <2>3. y.perf <= TheRow.perf
    BY <1>1, <1>4, <2>2 DEF IInv, TablesInv, TableOK
  <2> QED BY <1>1, <1>2, <1>3, <2>3, RowTypes
<1> QED BY <1>4

LEMMA GivenUpByBest ==
    ASSUME IInv, pc = "mode", Best \notin lost, NEW m \in QoSModes,
           Cardinality(rows[m]) = TableSize, Enters(rows[m])
    PROVE  Worst(rows[m]) \notin rows[Best]
<1> DEFINE w == Worst(rows[m])
<1>1. m \in Tables /\ Best \in Tables /\ rows[m] \in SUBSET Row /\ m # Best
      /\ offered[Best] \in SUBSET Row /\ rows[Best] \in SUBSET Row
  BY ReportsAssumption DEF IInv, TypeInv, TypeOK, Tables
<1>2. TableOK(rows[m], offered[m]) /\ TableOK(rows[Best], offered[Best])
  BY <1>1 DEF IInv, TablesInv
<1>3. /\ w \in rows[m]
      /\ \A s \in rows[m] : w.perf < s.perf \/ (w.perf = s.perf /\ w.stamp >= s.stamp)
  BY <1>1, <1>2, WithRowFull DEF TableOK
<1>4. perf >= w.perf
  BY ReportsAssumption DEF Enters
<1>5. TheRow \in Row /\ TheRow.perf = perf /\ TheRow.stamp = stamp
  BY TheRowType DEF IInv
<1>6. \A r \in rows[m] : r.stamp < stamp
  BY <1>1, <1>2 DEF IInv, StampInv, Ahead, TableOK
<1> HIDE DEF w
<1>7. ASSUME w \in rows[Best] PROVE FALSE
  <2>1. CASE TheRow \in rows[Best]
    <3>1. TheRow \notin rows[m]
      BY <1>1, <1>5, <1>6, RowTypes
    <3>2. PICK y \in rows[m] : y \in offered[Best] \ rows[Best]
      BY <2>1, <3>1, OutsideBest
    <3>3. y.perf <= w.perf
      BY <1>2, <1>7, <3>2 DEF TableOK
    <3>4. y.perf = w.perf /\ w.stamp >= y.stamp
      BY <1>1, <1>3, <3>3, RowTypes
    <3>5. y.stamp # w.stamp
      BY <1>2, <1>3, <1>7, <3>2 DEF TableOK
    <3>6. TheRow.stamp <= w.stamp
      <4>1. y.stamp < w.stamp
        BY <1>1, <1>3, <3>4, <3>5, RowTypes
      <4> QED BY <1>2, <1>7, <2>1, <3>2, <3>4, <4>1 DEF TableOK
    <3> QED BY <1>1, <1>3, <1>5, <1>6, <3>6, RowTypes
  <2>2. CASE TheRow \notin rows[Best]
    <3>1. perf < w.perf
      BY <1>7, <2>2 DEF IInv, ModeInv
    <3> QED BY <1>1, <1>3, <1>4, <1>5, <3>1, RowTypes
  <2> QED BY <2>1, <2>2
<1> QED BY <1>7 DEF w
-------------------------------------------------------------------------------
(* The steps, one lemma each.                                               *)

LEMMA WithRowType ==
    ASSUME NEW t \in SUBSET Row, TheRow \in Row
    PROVE  WithRow(t) \in SUBSET Row /\ WithRow(t) \subseteq t \union {TheRow}
BY DEF WithRow

LEMMA StampType ==
    ASSUME IInv, pc # "idle"
    PROVE  stamp \in 1 .. MaxExperiments /\ stamp \in 1 .. stamp /\ stamp # 0 /\ stamp <= stamp
<1>1. stamp \in 0 .. MaxExperiments /\ stamp > 0
  BY DEF IInv, TypeInv, TypeOK
<1> QED BY <1>1

LEMMA StartStep ==
    ASSUME IInv, NEW m \in QoSModes, NEW a \in NodeArgs, Start(m, a)
    PROVE  IInv'
<1> USE DEF Start, tables
<1>1. stamp \in Nat /\ stamp' = stamp + 1 /\ stamp' \in 0 .. MaxExperiments /\ pc = "idle"
  BY ReportsAssumption DEF IInv, TypeInv, TypeOK
<1>2. TypeInv'
  <2>1. plots' \in [Nodes -> 0 .. stamp'] /\ data' \in [Nodes -> 0 .. stamp']
    BY <1>1 DEF IInv, TypeInv, TypeOK
  <2>2. \A p \in pdfs' : p.stamp \in 1 .. stamp' /\ p.nb \in NodeArgs
    BY <1>1 DEF IInv, TypeInv, TypeOK
  <2> QED BY <1>1, <2>1, <2>2 DEF IInv, TypeInv, TypeOK
<1>3. TablesInv'
  BY DEF IInv, TablesInv, TableOK
<1>4. StampInv'
  <2>1. \A f \in Tables : \A r \in offered[f] : r.stamp \in Nat
    BY RowTypes DEF IInv, TypeInv, TypeOK
  <2> QED BY <1>1, <2>1 DEF IInv, StampInv, Ahead, TheRow
<1>5. ModeInv' /\ SilenceInv' /\ PdfInv'
  BY DEF IInv, ModeInv, SilenceInv, PdfInv, RowsHaveReports, Writing
<1>6. PlotInv'
  <2>1. \A n \in Nodes : data'[n] # stamp' /\ plots'[n] = 0
    BY <1>1 DEF IInv, TypeInv, TypeOK
  <2> QED BY <2>1 DEF IInv, PlotInv, ReportsShowTheirExperiment
<1>7. GlobalBestInMode'
  BY <1>1 DEF IInv, GlobalBestInMode
<1> QED BY <1>2, <1>3, <1>4, <1>5, <1>6, <1>7 DEF IInv

LEMMA ChildSavesStep ==
    ASSUME IInv, NEW n \in Nodes, ChildSaves(n)
    PROVE  IInv'
<1> USE DEF ChildSaves, tables, experiment
<1>1. TypeInv'
  <2>1. stamp \in 0 .. stamp
    BY ReportsAssumption DEF IInv, TypeInv, TypeOK
  <2>2. plots' \in [Nodes -> 0 .. stamp'] /\ data' \in [Nodes -> 0 .. stamp']
    BY <2>1 DEF IInv, TypeInv, TypeOK
  <2> QED BY <2>2 DEF IInv, TypeInv, TypeOK
<1>2. TablesInv' /\ StampInv'
  BY DEF IInv, TablesInv, TableOK, StampInv, Ahead, TheRow
<1>3. ModeInv' /\ SilenceInv' /\ PdfInv'
  BY DEF IInv, ModeInv, SilenceInv, PdfInv, RowsHaveReports, Writing
<1>4. PlotInv'
  <2>1. Children' = Children
    BY DEF Children
  <2> QED BY <2>1 DEF IInv, TypeInv, TypeOK, PlotInv, ReportsShowTheirExperiment
<1>5. GlobalBestInMode'
  BY DEF IInv, GlobalBestInMode
<1> QED BY <1>1, <1>2, <1>3, <1>4, <1>5 DEF IInv

LEMMA AllReceivedStep ==
    ASSUME IInv, NEW p \in Performances, AllReceived(p)
    PROVE  IInv'
<1> USE DEF AllReceived, tables
<1>1. TypeInv'
  BY DEF IInv, TypeInv, TypeOK
<1>2. TablesInv' /\ StampInv'
  <2>1. TablesInv'
    BY DEF IInv, TablesInv, TableOK
  <2>2. \A f \in Tables : \A r \in offered[f] : r.stamp \in Nat /\ r.stamp < stamp
    BY RowTypes DEF IInv, TypeInv, TypeOK, StampInv, Ahead
  <2>3. stamp \in Nat
    BY StampType
  <2>4. \A f \in Tables : \A r \in offered[f] : r.stamp <= stamp /\ r.stamp # stamp
    BY <2>2, <2>3
  <2>5. StampInv'
    BY <2>2, <2>4 DEF StampInv
  <2> QED BY <2>1, <2>5
<1>3. ModeInv' /\ SilenceInv' /\ PdfInv'
  BY DEF IInv, ModeInv, SilenceInv, PdfInv, RowsHaveReports, Writing
<1>4. PlotInv'
  <2>1. Children' = Children /\ Children \in Nat /\ 1 .. Children \subseteq Nodes
    BY ReportsAssumption DEF Children, Nodes
  <2>2. \A n \in Nodes : n <= Children => n \in 1 .. Children
    BY <2>1, ReportsAssumption DEF Nodes
  <2> QED BY <2>1, <2>2 DEF IInv, PlotInv, ReportsShowTheirExperiment
<1>5. GlobalBestInMode'
  BY DEF IInv, GlobalBestInMode
<1> QED BY <1>1, <1>2, <1>3, <1>4, <1>5 DEF IInv

LEMMA ReportStep ==
    ASSUME IInv, Report
    PROVE  IInv'
<1> USE DEF Report, tables, experiment
<1> DEFINE new == [stamp |-> stamp, nb |-> nb, images |-> Images, shown |-> Shown]
<1>1. pdfs' \subseteq pdfs \union {new} /\ pdfs \subseteq pdfs'
  BY DEF GeneratePDF
<1>2. pc' = "best" => \E p \in pdfs' : p.stamp = stamp
  <2>1. new.stamp = stamp
    OBVIOUS
  <2> QED BY <2>1 DEF GeneratePDF
<1>3. TypeInv'
  <2>1. new.stamp \in 1 .. stamp /\ new.nb \in NodeArgs
    BY StampType DEF IInv, TypeInv, TypeOK
  <2> HIDE DEF new
  <2>2. \A p \in pdfs' : p.stamp \in 1 .. stamp' /\ p.nb \in NodeArgs
    BY <1>1, <2>1 DEF IInv, TypeInv, TypeOK
  <2> QED BY <2>2 DEF IInv, TypeInv, TypeOK
<1>4. TablesInv' /\ StampInv'
  BY DEF IInv, TablesInv, TableOK, StampInv, Ahead, TheRow
<1>5. ModeInv' /\ SilenceInv'
  BY DEF IInv, ModeInv, SilenceInv
<1>6. PdfInv'
  BY <1>1, <1>2 DEF IInv, PdfInv, RowsHaveReports, Writing
<1>7. PlotInv'
  <2>1. \A n \in Nodes : IF n <= Children THEN plots[n] = stamp /\ data[n] = stamp
                                           ELSE plots[n] = 0
    BY DEF IInv, PlotInv
  <2>2. stamp # 0 /\ Children \in Nat /\ 1 .. Children \subseteq Nodes
    BY ReportsAssumption DEF IInv, TypeInv, Children, Nodes
  <2>3. {n \in Nodes : plots[n] # 0} = 1 .. Children
    BY <2>1, <2>2, ReportsAssumption DEF Nodes
  <2>4. Images = {[node |-> n, from |-> stamp] : n \in 1 .. Children}
    BY <2>1, <2>2, <2>3 DEF Images
  <2>5. ASSUME nb = MaxNode, NEW k \in 1 .. nb PROVE Shown[k].from = stamp
    <3>1. nb \in Nodes /\ Children = nb /\ k \in Nodes
      BY <2>5, ReportsAssumption DEF Children, Nodes
    <3>2. listing[k] \in Nodes
      BY <3>1 DEF IInv, TypeInv, TypeOK
    <3>3. listing[k] <= Children
      BY <2>5, <3>1, <3>2, ReportsAssumption DEF Nodes
    <3>4. data[listing[k]] = stamp
      BY <2>1, <3>2, <3>3
    <3> QED BY <3>4 DEF Shown
  <2>6. DOMAIN new.shown = 1 .. nb /\ new.nb = nb /\ new.stamp = stamp
        /\ new.images = Images /\ new.shown = Shown
    BY DEF Shown
  <2> HIDE DEF new
  <2>7. ReportsShowTheirExperiment'
    <3>1. ASSUME NEW p \in pdfs'
          PROVE  /\ p.images = {[node |-> n, from |-> p.stamp] :
                                   n \in 1 .. IF p.nb \in Nodes THEN p.nb ELSE 1}
                 /\ p.nb = MaxNode => \A k \in DOMAIN p.shown : p.shown[k].from = p.stamp
      <4>1. CASE p \in pdfs
        BY <4>1 DEF IInv, PlotInv, ReportsShowTheirExperiment
      <4>2. CASE p = new
        BY <2>4, <2>5, <2>6, <4>2 DEF Children
      <4> QED BY <1>1, <4>1, <4>2
    <3> QED BY <3>1 DEF ReportsShowTheirExperiment
  <2>8. pc' # "children" /\ pc' # "report"
    OBVIOUS
  <2> QED BY <2>7, <2>8 DEF PlotInv
<1>8. GlobalBestInMode'
  BY DEF IInv, GlobalBestInMode
<1> QED BY <1>3, <1>4, <1>5, <1>6, <1>7, <1>8 DEF IInv

LEMMA ReportAgainStep ==
    ASSUME IInv, \/ ReportAgain("best pdf", "mode")
                 \/ ReportAgain("mode pdf", "idle")
    PROVE  IInv'
<1> USE DEF ReportAgain, tables, experiment
<1>1. pdfs' = pdfs
  BY DEF IInv, PdfInv, Writing, GeneratePDF
<1>2. TypeInv'
  BY <1>1 DEF IInv, TypeInv, TypeOK
<1>3. TablesInv' /\ StampInv'
  <2>1. TheRow' = TheRow /\ pc # "idle" /\ \A f \in Tables : Ahead(f)' => Ahead(f)
    BY DEF TheRow, Ahead
  <2>2. TablesInv'
    <3>1. rows' = rows /\ offered' = offered
      OBVIOUS
    <3> QED BY <3>1 DEF IInv, TablesInv, TableOK
  <2>3. StampInv'
    BY <2>1 DEF IInv, StampInv
  <2> QED BY <2>2, <2>3
<1>4. ModeInv' /\ SilenceInv' /\ PdfInv'
  BY <1>1 DEF IInv, ModeInv, SilenceInv, PdfInv, RowsHaveReports, Writing, TheRow
<1>5. PlotInv'
  BY <1>1 DEF IInv, PlotInv, ReportsShowTheirExperiment
<1>6. GlobalBestInMode'
  BY DEF IInv, GlobalBestInMode
<1> QED BY <1>2, <1>3, <1>4, <1>5, <1>6 DEF IInv

LEMMA StopStep ==
    ASSUME IInv, Stop
    PROVE  IInv'
<1> USE DEF Stop, tables, experiment
<1>1. TypeInv'
  <2>1. stamp \in 1 .. MaxExperiments
    BY StampType
  <2>2. cut' \subseteq 1 .. MaxExperiments
    BY <2>1 DEF IInv, TypeInv, TypeOK
  <2> QED BY <2>2 DEF IInv, TypeInv, TypeOK
<1>2. TablesInv' /\ StampInv'
  BY DEF IInv, TablesInv, TableOK, StampInv, Ahead, TheRow
<1>3. ModeInv' /\ SilenceInv' /\ PdfInv'
  BY DEF IInv, ModeInv, SilenceInv, PdfInv, RowsHaveReports, Writing
<1>4. PlotInv'
  BY DEF IInv, PlotInv, ReportsShowTheirExperiment
<1>5. GlobalBestInMode'
  BY DEF IInv, GlobalBestInMode
<1> QED BY <1>1, <1>2, <1>3, <1>4, <1>5 DEF IInv

LEMMA StopInWriteStep ==
    ASSUME IInv, NEW f \in Tables, StopInWrite(f)
    PROVE  IInv'
<1> USE DEF StopInWrite, experiment
<1>1. f \in Tables /\ rows' = [rows EXCEPT ![f] = {}] /\ offered' = [offered EXCEPT ![f] = {}]
      /\ lost' = lost \union {f} /\ broken' \subseteq broken \union {f} /\ pc' = "idle"
  OBVIOUS
<1>2. TypeInv'
  BY <1>1 DEF IInv, TypeInv, TypeOK
<1>3. TablesInv'
  <2>1. TableOK({}, {})
    BY FS_EmptySet, ReportsAssumption DEF TableOK
  <2>2. \A g \in Tables : rows'[g] = (IF g = f THEN {} ELSE rows[g])
                      /\ offered'[g] = (IF g = f THEN {} ELSE offered[g])
    BY <1>1 DEF IInv, TypeInv, TypeOK
  <2> QED BY <2>1, <2>2 DEF IInv, TablesInv
<1>4. StampInv'
  BY <1>1 DEF IInv, TypeInv, TypeOK, StampInv, Ahead, TheRow
<1>5. ModeInv'
  BY <1>1, ReportsAssumption DEF IInv, TypeInv, TypeOK, ModeInv, Tables
<1>6. SilenceInv' /\ PdfInv' /\ PlotInv'
  BY <1>1 DEF IInv, TypeInv, TypeOK, SilenceInv, PdfInv, RowsHaveReports, Writing, PlotInv,
              ReportsShowTheirExperiment
<1>7. GlobalBestInMode'
  <2>1. ASSUME Best \notin lost', NEW r \in rows'[Best]
        PROVE  r \in rows'[r.mode] \/ r.mode \in lost' \/ r.stamp \in cut'
    <3>1. f # Best /\ r \in rows[Best] /\ pc = "mode" /\ f = mode
      BY <1>1, <2>1 DEF IInv, TypeInv, TypeOK, Tables
    <3>2. r \in Row /\ r.mode \in QoSModes /\ r.mode \in Tables /\ r \in offered[Best]
      BY <3>1, RowTypes DEF IInv, TypeInv, TypeOK, TablesInv, TableOK, Tables
    <3>3. CASE r.stamp = stamp
      <4>1. r = TheRow
        BY <3>1, <3>2, <3>3 DEF IInv, StampInv, Tables
      <4> QED BY <1>1, <3>1, <4>1, TheRowType DEF IInv
    <3>4. CASE r.stamp # stamp /\ r.mode = mode
      BY <1>1, <3>1, <3>4
    <3>5. CASE r.stamp # stamp /\ r.mode # mode
      <4>1. r \in rows[r.mode] \/ r.mode \in lost \/ r.stamp \in cut
        BY <1>1, <2>1, <3>1, <3>5 DEF IInv, GlobalBestInMode
      <4>2. rows'[r.mode] = rows[r.mode]
        BY <1>1, <3>1, <3>2, <3>5 DEF IInv, TypeInv, TypeOK
      <4> QED BY <1>1, <4>1, <4>2
    <3> QED BY <3>3, <3>4, <3>5
  <2> QED BY <2>1 DEF GlobalBestInMode
<1> QED BY <1>2, <1>3, <1>4, <1>5, <1>6, <1>7 DEF IInv

(* findGlobalBest and findModeBest, what they share.                        *)
LEMMA FindBestTables ==
    ASSUME IInv, NEW f \in Tables, NEW here, NEW next, NEW done, FindBest(f, here, next, done),
           pc \notin {"idle", "children"}, Ahead(f)
    PROVE  /\ rows' \in [Tables -> SUBSET Row] /\ offered' \in [Tables -> SUBSET Row]
           /\ TablesInv'
           /\ \A g \in Tables : offered'[g] \subseteq offered[g] \union
                                   IF g = f THEN {TheRow} ELSE {}
<1> USE DEF FindBest
<1>1. TheRow \in Row /\ TheRow.stamp = stamp
  BY TheRowType DEF IInv
<1>2. rows[f] \in SUBSET Row /\ offered[f] \in SUBSET Row /\ TableOK(rows[f], offered[f])
      /\ \A r \in offered[f] : r.stamp < stamp
  BY DEF IInv, TypeInv, TypeOK, TablesInv, StampInv
<1>3. CASE f \in broken
  BY <1>3 DEF IInv, TypeInv, TypeOK, TablesInv
<1>4. CASE f \notin broken /\ Enters(rows[f])
  <2>1. rows' = [rows EXCEPT ![f] = WithRow(@)]
        /\ offered' = [offered EXCEPT ![f] = @ \union {TheRow}]
    BY <1>4
  <2>2. TableOK(WithRow(rows[f]), offered[f] \union {TheRow})
    BY <1>1, <1>2, <1>4, Entered
  <2>3. WithRow(rows[f]) \in SUBSET Row
    BY <1>1, <1>2, WithRowType
  <2> QED BY <1>1, <2>1, <2>2, <2>3 DEF IInv, TypeInv, TypeOK, TablesInv
<1>5. CASE f \notin broken /\ ~ Enters(rows[f])
  <2>1. rows' = rows /\ offered' = [offered EXCEPT ![f] = @ \union {TheRow}]
    BY <1>5
  <2>2. TableOK(rows[f], offered[f] \union {TheRow})
    BY <1>1, <1>2, <1>5, TurnedDown
  <2> QED BY <1>1, <2>1, <2>2 DEF IInv, TypeInv, TypeOK, TablesInv
<1> QED BY <1>3, <1>4, <1>5

LEMMA FindBestKeeps ==
    ASSUME IInv, NEW f \in Tables, NEW here \in {"best", "mode"},
           NEW next \in {"best pdf", "mode pdf"}, NEW done \in {"mode", "idle"},
           FindBest(f, here, next, done), Ahead(f),
           here = "best" => next = "best pdf" /\ done = "mode" /\ f = Best,
           here = "mode" => next = "mode pdf" /\ done = "idle" /\ f # Best
    PROVE  TypeInv' /\ TablesInv' /\ StampInv' /\ SilenceInv' /\ PdfInv' /\ PlotInv'
<1> USE DEF experiment
<1>1. pc = here /\ pc' \in {"best pdf", "mode", "mode pdf", "idle"}
  BY DEF FindBest
<1>2. /\ rows' \in [Tables -> SUBSET Row] /\ offered' \in [Tables -> SUBSET Row]
      /\ TablesInv'
      /\ \A g \in Tables : offered'[g] \subseteq offered[g] \union
                              IF g = f THEN {TheRow} ELSE {}
  BY <1>1, FindBestTables
<1>3. UNCHANGED <<experiment, plots, data, listing, pdfs, broken, lost, cut>>
  BY DEF FindBest
<1>4. TypeInv'
  BY <1>1, <1>2, <1>3 DEF IInv, TypeInv, TypeOK
<1>5. StampInv'
  <2>1. TheRow' = TheRow /\ TheRow.stamp = stamp /\ stamp <= stamp /\ stamp' = stamp
    <3>1. TheRow' = TheRow
      BY <1>3 DEF TheRow
    <3>2. stamp \in 1 .. stamp /\ TheRow.stamp = stamp
      BY <1>1, StampType, TheRowType DEF IInv
    <3>3. pc # "idle"
      BY <1>1
    <3>4. stamp <= stamp
      BY <3>3, StampType
    <3> QED BY <1>3, <3>1, <3>2, <3>4
  <2>2. \A g \in Tables : Ahead(g)' => Ahead(g) /\ g # f
    BY <1>1 DEF FindBest, Ahead
  <2>3. pc # "idle"
    BY <1>1
  <2> QED BY <1>2, <2>1, <2>2, <2>3 DEF IInv, StampInv
<1>6. SilenceInv'
  BY <1>1, <1>3 DEF FindBest, IInv, SilenceInv
<1>7. PdfInv'
  <2>1. \A g \in Tables : \A r \in rows'[g] : r \in rows[g] \/ r = TheRow
    BY DEF FindBest, WithRow, IInv, TypeInv, TypeOK
  <2>2. \E p \in pdfs : p.stamp = TheRow.stamp
    BY <1>1, TheRowType DEF IInv, PdfInv, Writing
  <2>3. RowsHaveReports'
    BY <1>3, <2>1, <2>2 DEF IInv, PdfInv, RowsHaveReports
  <2> QED BY <1>1, <1>3, <2>3 DEF IInv, PdfInv, Writing
<1>8. PlotInv'
  BY <1>1, <1>3 DEF IInv, PlotInv, ReportsShowTheirExperiment
<1> QED BY <1>2, <1>4, <1>5, <1>6, <1>7, <1>8

LEMMA FindGlobalBestStep ==
    ASSUME IInv, FindBest(Best, "best", "best pdf", "mode")
    PROVE  IInv'
<1> USE DEF experiment
<1>1. Best \in Tables /\ Ahead(Best) /\ pc = "best" /\ pc' \in {"best pdf", "mode", "idle"}
      /\ UNCHANGED <<experiment, plots, data, listing, pdfs, broken, lost, cut>>
  BY DEF FindBest, Ahead, Tables
<1>2. TypeInv' /\ TablesInv' /\ StampInv' /\ SilenceInv' /\ PdfInv' /\ PlotInv'
  BY <1>1, FindBestKeeps
<1>3. \A m \in QoSModes : m \in Tables /\ m # Best /\ rows'[m] = rows[m]
  BY ReportsAssumption DEF FindBest, Tables, IInv, TypeInv, TypeOK
<1>4. TheRow' = TheRow /\ TheRow \in Row /\ TheRow.stamp = stamp
  <2>1. TheRow' = TheRow
    BY <1>1 DEF TheRow
  <2> QED BY <1>1, <2>1, TheRowType DEF IInv
<1>5. /\ offered[Best] \subseteq offered'[Best]
      /\ pc' # "idle" => TheRow \in offered'[Best]
      /\ rows'[Best] \subseteq rows[Best] \union {TheRow}
      /\ TheRow \notin rows[Best] => (pc' = "best pdf" <=> TheRow \in rows'[Best])
      /\ pc' = "best pdf" => TheRow \in rows'[Best]
      /\ pc' = "mode" => rows'[Best] = rows[Best] /\ ~ Enters(rows[Best])
  <2>1. /\ offered[Best] \subseteq offered'[Best]
        /\ pc' # "idle" => TheRow \in offered'[Best]
    BY <1>1 DEF FindBest, IInv, TypeInv, TypeOK
  <2>2. \/ pc' = "idle" /\ rows'[Best] = rows[Best]
        \/ pc' = "best pdf" /\ rows'[Best] = WithRow(rows[Best])
        \/ pc' = "mode" /\ rows'[Best] = rows[Best] /\ ~ Enters(rows[Best])
    BY <1>1 DEF FindBest, IInv, TypeInv, TypeOK
  <2>3. TheRow \in WithRow(rows[Best]) /\ WithRow(rows[Best]) \subseteq rows[Best] \union {TheRow}
    BY DEF WithRow
  <2> QED BY <2>1, <2>2, <2>3
<1>6. ModeInv'
  <2>1. pc' = "mode" => \A s \in rows'[Best] : perf < s.perf
    BY <1>1, <1>4, <1>5, TurnedDown DEF IInv, TypeInv, TypeOK, TablesInv
  <2> QED BY <1>1, <1>3, <1>4, <1>5, <2>1 DEF IInv, ModeInv
<1>7. GlobalBestInMode'
  <2>1. ASSUME Best \notin lost, NEW r \in rows'[Best]
        PROVE  \/ r \in rows[r.mode] \/ r.mode \in lost \/ r.stamp \in cut
               \/ r.stamp = stamp /\ pc' \in {"best pdf", "mode"}
    <3>1. CASE r \in rows[Best]
      BY <1>1, <2>1, <3>1 DEF IInv, GlobalBestInMode
    <3>2. CASE r \notin rows[Best]
      BY <1>4, <1>5, <3>2
    <3> QED BY <3>1, <3>2
  <2>2. \A r \in rows'[Best] : r.mode \in QoSModes
    BY <1>1, <1>2, RowTypes DEF TypeInv, TypeOK
  <2> QED BY <1>1, <1>3, <2>1, <2>2 DEF GlobalBestInMode
<1> QED BY <1>2, <1>6, <1>7 DEF IInv

LEMMA FindModeBestStep ==
    ASSUME IInv, FindBest(mode, "mode", "mode pdf", "idle")
    PROVE  IInv'
<1> USE DEF experiment
<1>1. PICK m \in QoSModes : m = mode
  BY DEF IInv, TypeInv, TypeOK
<1>2. FindBest(m, "mode", "mode pdf", "idle")
  BY <1>1
<1>3. m \in Tables /\ Best \in Tables /\ m # Best /\ Ahead(m) /\ pc = "mode"
      /\ pc' \in {"mode pdf", "idle"}
      /\ UNCHANGED <<experiment, plots, data, listing, pdfs, broken, lost, cut>>
  BY <1>2, ReportsAssumption DEF FindBest, Ahead, Tables
<1>4. TypeInv' /\ TablesInv' /\ StampInv' /\ SilenceInv' /\ PdfInv' /\ PlotInv'
  BY <1>2, <1>3, FindBestKeeps
<1>5. rows'[Best] = rows[Best] /\ offered'[Best] = offered[Best]
      /\ \A k \in Tables \ {m} : rows'[k] = rows[k]
  BY <1>2, <1>3 DEF FindBest, IInv, TypeInv, TypeOK
<1>6. /\ rows'[m] \subseteq rows[m] \union {TheRow}
      /\ TheRow \in Row /\ TheRow.mode = m /\ TheRow.stamp = stamp
  <2>1. TheRow \in Row /\ TheRow.mode = m /\ TheRow.stamp = stamp
    BY <1>1, <1>3, TheRowType DEF IInv
  <2>2. rows'[m] \subseteq rows[m] \union {TheRow}
    <3>1. rows'[m] = rows[m] \/ rows'[m] = WithRow(rows[m])
      BY <1>2, <1>3 DEF FindBest, IInv, TypeInv, TypeOK
    <3>2. rows[m] \in SUBSET Row
      BY <1>3 DEF IInv, TypeInv, TypeOK
    <3>3. WithRow(rows[m]) \subseteq rows[m] \union {TheRow}
      BY <2>1, <3>2, WithRowType
    <3> QED BY <3>1, <3>3
  <2> QED BY <2>1, <2>2
<1>7. ModeInv'
  <2>1. \A k \in QoSModes : \A r \in rows'[k] : r \in rows[k] \/ (k = m /\ r = TheRow)
    BY <1>5, <1>6 DEF Tables, IInv, TypeInv, TypeOK
  <2>2. TheRow \in offered[Best]
    BY <1>3 DEF IInv, ModeInv
  <2> QED BY <1>3, <1>5, <1>6, <2>1, <2>2 DEF IInv, ModeInv
<1>8. GlobalBestInMode'
  <2>1. ASSUME Best \notin lost, NEW r \in rows[Best], r.mode \notin lost, r.stamp \notin cut
        PROVE  r \in rows'[r.mode]
    <3>1. r \in Row /\ r.mode \in QoSModes /\ r.mode \in Tables /\ r \in offered[Best]
      BY <1>3, RowTypes DEF IInv, TypeInv, TypeOK, TablesInv, TableOK, Tables
    <3>2. r.stamp = stamp => r = TheRow
      BY <1>3, <3>1 DEF IInv, StampInv
    <3>3. r # TheRow => r \in rows[r.mode]
      BY <2>1, <3>2 DEF IInv, GlobalBestInMode
    <3>4. CASE r.mode # m
      BY <1>5, <1>6, <3>1, <3>3, <3>4
    <3>5. CASE r.mode = m
      <4>1. m \notin broken
        BY <2>1, <3>5 DEF IInv, ModeInv
      <4>2. Enters(rows[m]) \/ r # TheRow
        BY <1>3, <2>1, TurnedDownByBest
      <4>3. Enters(rows[m]) /\ Cardinality(rows[m]) = TableSize => r # Worst(rows[m])
        BY <1>3, <2>1, GivenUpByBest
      <4>4. CASE Enters(rows[m])
        <5>1. rows'[m] = WithRow(rows[m])
          BY <1>2, <1>3, <4>1, <4>4 DEF FindBest, IInv, TypeInv, TypeOK
        <5>2. CASE Cardinality(rows[m]) < TableSize
          BY <3>3, <3>5, <5>1, <5>2 DEF WithRow
        <5>3. CASE Cardinality(rows[m]) = TableSize
          <6>1. WithRow(rows[m]) = (rows[m] \ {Worst(rows[m])}) \union {TheRow}
            BY <1>3, <5>3, WithRowFull DEF IInv, TypeInv, TypeOK, TablesInv, TableOK
          <6> QED BY <3>3, <3>5, <4>3, <4>4, <5>1, <5>3, <6>1
        <5> QED BY <1>3, <5>2, <5>3 DEF IInv, TablesInv, TableOK
      <4>5. CASE ~ Enters(rows[m])
        <5>1. rows'[m] = rows[m]
          BY <1>2, <4>1, <4>5 DEF FindBest
        <5> QED BY <3>3, <3>5, <4>2, <4>5, <5>1
      <4> QED BY <4>4, <4>5
    <3> QED BY <3>4, <3>5
  <2> QED BY <1>3, <1>5, <2>1 DEF GlobalBestInMode
<1> QED BY <1>4, <1>7, <1>8 DEF IInv

LEMMA InitIInv == Init => IInv
<1> SUFFICES ASSUME Init PROVE IInv
  OBVIOUS
<1> USE DEF Init
<1>1. TypeInv
  BY ReportsAssumption DEF TypeInv, TypeOK
<1>2. TablesInv
  BY FS_EmptySet, ReportsAssumption DEF TablesInv, TableOK
<1>3. StampInv /\ ModeInv /\ SilenceInv
  BY DEF StampInv, ModeInv, SilenceInv, Tables
<1>4. PdfInv /\ PlotInv /\ GlobalBestInMode
  BY DEF PdfInv, RowsHaveReports, Writing, PlotInv, ReportsShowTheirExperiment,
         GlobalBestInMode, Tables
<1> QED BY <1>1, <1>2, <1>3, <1>4 DEF IInv

LEMMA StutterIInv == ASSUME IInv, UNCHANGED vars PROVE IInv'
<1> USE DEF vars
<1>1. TypeInv' /\ TablesInv' /\ StampInv'
  BY DEF IInv, TypeInv, TypeOK, TablesInv, TableOK, StampInv, Ahead, TheRow
<1>2. ModeInv' /\ SilenceInv' /\ PdfInv'
  BY DEF IInv, ModeInv, SilenceInv, PdfInv, RowsHaveReports, Writing, TheRow
<1>3. PlotInv' /\ GlobalBestInMode'
  BY DEF IInv, PlotInv, ReportsShowTheirExperiment, Children, GlobalBestInMode
<1> QED BY <1>1, <1>2, <1>3 DEF IInv

LEMMA NextIInv == IInv /\ [Next]_vars => IInv'
<1> SUFFICES ASSUME IInv, [Next]_vars PROVE IInv'
  OBVIOUS
<1>1. ASSUME NEW m \in QoSModes, NEW a \in NodeArgs, Start(m, a) PROVE IInv'
  BY <1>1, StartStep
<1>2. ASSUME NEW n \in Nodes, ChildSaves(n) PROVE IInv'
  BY <1>2, ChildSavesStep
<1>3. ASSUME NEW p \in Performances, AllReceived(p) PROVE IInv'
  BY <1>3, AllReceivedStep
<1>4. ASSUME NEW f \in Tables, StopInWrite(f) PROVE IInv'
  BY <1>4, StopInWriteStep
<1>5. CASE FindBest(Best, "best", "best pdf", "mode")
  BY <1>5, FindGlobalBestStep
<1>6. CASE FindBest(mode, "mode", "mode pdf", "idle")
  BY <1>6, FindModeBestStep
<1>7. CASE UNCHANGED vars
  BY <1>7, StutterIInv
<1> QED BY <1>1, <1>2, <1>3, <1>4, <1>5, <1>6, <1>7, ReportStep, ReportAgainStep, StopStep
        DEF Next, Terminating

(* The strengthened invariant holds in every reachable state.               *)
THEOREM Invariance == Spec => []IInv
BY InitIInv, NextIInv, PTL DEF Spec

(* Every variable of the series of experiments stays in its type.           *)
THEOREM TypeCorrect == Spec => []TypeOK
<1>1. IInv => TypeOK
  BY DEF IInv, TypeInv
<1> QED BY <1>1, Invariance, PTL

(* Whatever the size of a table and the performances, with ties or without, *)
(* findGlobalBest and findModeBest keep the best of what they were offered. *)
THEOREM BestKept == Spec => []KeepsBest
<1>1. IInv => KeepsBest
  BY DEF IInv, TablesInv, TableOK, KeepsBest
<1> QED BY <1>1, Invariance, PTL

(* A report best.csv names is named by the table of its mode, too, unless   *)
(* an experiment was stopped between the two or a table was lost.           *)
THEOREM TablesAgree == Spec => []GlobalBestInMode
<1>1. IInv => GlobalBestInMode
  BY DEF IInv
<1> QED BY <1>1, Invariance, PTL

(* No table names a report that was never written, wherever an experiment   *)
(* was stopped.                                                             *)
THEOREM ReportsExist == Spec => []RowsHaveReports
<1>1. IInv => RowsHaveReports
  BY DEF IInv, PdfInv
<1> QED BY <1>1, Invariance, PTL

(* No report shows the images of another experiment, nor, with all nodes,   *)
(* their data.                                                              *)
THEOREM ReportsTrue == Spec => []ReportsShowTheirExperiment
<1>1. IInv => ReportsShowTheirExperiment
  BY DEF IInv, PlotInv
<1> QED BY <1>1, Invariance, PTL

(* An empty best.csv stays empty and stops the writing of all tables.       *)
THEOREM SilenceCorrect == Spec => EmptyTableSilences
<1> DEFINE Silence == broken \subseteq broken' /\ (Best \in broken => UNCHANGED rows)
<1>1. ASSUME IInv, [Next]_vars PROVE [Silence]_vars
  <2>1. ASSUME NEW f \in Tables, StopInWrite(f) PROVE Silence
    BY <1>1, <2>1 DEF StopInWrite, IInv, SilenceInv
  <2>2. ASSUME FindBest(Best, "best", "best pdf", "mode") PROVE Silence
    BY <2>2 DEF FindBest
  <2>3. ASSUME FindBest(mode, "mode", "mode pdf", "idle") PROVE Silence
    BY <1>1, <2>3 DEF FindBest, IInv, SilenceInv
  <2>4. CASE \/ \E m \in QoSModes, a \in NodeArgs : Start(m, a)
             \/ \E n \in Nodes : ChildSaves(n)
             \/ \E p \in Performances : AllReceived(p)
             \/ Report \/ Stop
             \/ ReportAgain("best pdf", "mode") \/ ReportAgain("mode pdf", "idle")
    BY <2>4 DEF Start, ChildSaves, AllReceived, Report, Stop, ReportAgain, tables
  <2> QED BY <1>1, <2>1, <2>2, <2>3, <2>4 DEF Next, Terminating
<1> QED BY <1>1, Invariance, PTL DEF Spec, EmptyTableSilences
===============================================================================
