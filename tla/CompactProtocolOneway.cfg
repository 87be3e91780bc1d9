CONSTANTS
    Families <- MCFamilies
    Width = 30
SPECIFICATION Spec
INVARIANT RequestsAreTaken
