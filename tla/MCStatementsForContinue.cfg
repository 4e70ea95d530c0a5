SPECIFICATION Spec
CONSTANTS
    MaxPasses = 8
    MaxHops = 32
    Vocabularies <- MCForContinue
    UserLabels = {}
    ContinueIn = {"for"}
    Codes <- MCCodes
    Optimise = {TRUE, FALSE}
INVARIANTS
    SameBehaviour
CHECK_DEADLOCK FALSE
