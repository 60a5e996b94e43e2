\* One experiment on the first of two data directories.
SPECIFICATION Spec
CONSTANTS
    MaxNode = 2
    NodeArgs = {1}
    QoSModes = {m1}
    Performances <- MCPerformances
    TableSize = 1
    MaxExperiments = 2
INVARIANT
    ReportListsItsNodes
