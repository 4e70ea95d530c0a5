SPECIFICATION Spec
CONSTANTS
    Words <- MCWords
    Arguments <- MCArguments
    MaxArguments = 3
    Host = "Windows"
INVARIANTS
    TypeOK
    LastDecides
    OutcomeTells
