\* Four experiments of two modes on up to two nodes (and one asked for more
\* than there are directories), tables of two rows.
SPECIFICATION Spec
CONSTANTS
    MaxNode = 2
    NodeArgs = {1, 2, 3}
    QoSModes = {m1, m2}
    Performances <- MCPerformances
    TableSize = 2
    MaxExperiments = 4
SYMMETRY ModeSymmetry
INVARIANTS
    TypeOK
    KeepsBest
    GlobalBestInMode
    RowsHaveReports
    ReportsShowTheirExperiment
PROPERTIES
    EmptyTableSilences
