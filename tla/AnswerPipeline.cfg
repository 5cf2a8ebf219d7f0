SPECIFICATION Spec
CONSTANTS
    ModelSections <- MCSections
    MaxSections = 2
    Dependent <- MCDependent
    Prohibited <- MCProhibited
INVARIANTS
    ModelCallsBounded
    Grounded
    SummaryVerified
    RejectedTextsOmitted
    OmissionsDisclosed
    SafetyKept
