CONSTANTS
    DownAfter = 3
    UpAfter = 2
    Width = 4
    SuffixSpan = 8
    MaxExpansion = 6
    Unsafe <- MCUnsafe
    Lists <- MCLists
    Probed <- MCProbed
    Answers <- MCAnswers
    MaxLines = 2
    BatchSize = 2
    MaxRounds = 8

SPECIFICATION Spec

INVARIANTS
    ListMeetsReference
    StatusIsLastConfirmed
    AlertsAlternate

CHECK_DEADLOCK FALSE
