SPECIFICATION Spec
CONSTANTS
    MaxFragments = 4
    MaxLong = 5
    Inputs <- MCInputs
INVARIANTS
    ContentKept
    PlaceholdersOnce
    LineRecoverable
PROPERTIES
    SpansSurvive
    OneAnswerPerLine
