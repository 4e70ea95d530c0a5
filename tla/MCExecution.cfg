SPECIFICATION Spec
CONSTANTS
    Programs <- MCPrograms
    Library <- MCLibrary
    AvailableExports <- MCAvailableExports
    LibraryResults <- MCLibraryResults
INVARIANTS
    TypeOK
    BuildSucceeds
    TextsStand
    AlignedAtEntries
    DirectoriesLead
PROPERTIES
    RefinesRoutines
