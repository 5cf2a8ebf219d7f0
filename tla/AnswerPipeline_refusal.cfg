SPECIFICATION Spec
CONSTANTS
    ModelSections <- MCSections
    MaxSections = 2
    Dependent <- MCDependent
    Prohibited <- MCProhibited
INVARIANT NoConclusionShown
