SPECIFICATION FairSpec

CONSTANTS
    MaxPres = 2
    MaxEvents = 1
    MaxLosses = 2
    BatchSize = 2

INVARIANTS
    ExactlyOnce
    TerminalIsLast
    OutcomeIsWhole

PROPERTY GenerationEnds
