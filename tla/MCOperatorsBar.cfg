\* Whether the percent label and the progress bar agree for every int the
\* server may send.
CONSTANTS
    Null = Null
    MachineId = MachineId
    Inputs <- MCInputs
SPECIFICATION Spec
INVARIANT LabelMatchesBar
