\* parseMachineStatus over all 128 flag sets and the dev-mode stats label
\* at the edges of its buffer.
CONSTANTS
    Null = Null
    MachineId = MachineId
    Inputs <- MCInputs
SPECIFICATION Spec
INVARIANTS
    ClassifierMatchesPrecedence
    DevStatsShowsHeap
