CONSTANTS
    Families <- MCFamilies
    Width = 30
SPECIFICATION Spec
INVARIANTS
    ReadsWhatWasWritten
    NothingRemembered
