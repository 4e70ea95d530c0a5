SPECIFICATION Spec
CONSTANTS
    MaxPasses = 8
    MaxHops = 32
    Vocabularies <- MCVocabularies
    UserLabels = {"a", "b"}
    ContinueIn = {"while", "do"}
    Codes <- MCCodes
    Optimise = {TRUE, FALSE}
CONSTRAINT
    NotDiagnosed
INVARIANTS
    SameBehaviour
    DiagnosedExactly
    JumpsHaveLabels
CHECK_DEADLOCK FALSE
