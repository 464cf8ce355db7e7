CONSTANTS
    MaxSamples = 4
    MaxElapsed = 2
    MaxGap = 1
    MaxRecords = 1

SPECIFICATION Spec

INVARIANT WindowCoversSamples

\* A file of MaxSamples rows is complete: the server has stopped writing.
CHECK_DEADLOCK FALSE
