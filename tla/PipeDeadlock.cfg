\* A helper script prints one line more than a pipe holds.
CONSTANTS
    PipeCapacity = 1
    MaxLines = 2
    Pids <- MCPids
    MaxListed = 1

SPECIFICATION Spec

PROPERTY WrapperReturns
\* The blocked child and the parent waiting in readline are the state the
\* property is about.
CHECK_DEADLOCK FALSE
