\* Pipes of one line and helper scripts of up to three lines: a printable
\* call must drain stdout to return, and every other overflow blocks.
CONSTANTS
    PipeCapacity = 1
    MaxLines = 3
    Pids <- MCPids
    MaxListed = 3

SPECIFICATION Spec

INVARIANT TypeOK
INVARIANT AnswerIsChildsAnswer
INVARIANT ListedListenersKilled
PROPERTY ReturnsExactlyWhenPipesHold

\* A call blocked on a full pipe is the state the property is about.
CHECK_DEADLOCK FALSE
