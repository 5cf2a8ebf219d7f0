SPECIFICATION Spec
CONSTANTS
    ModelSections <- MCSections
    MaxSections = 1
    Dependent <- MCDependent
    Prohibited <- MCProhibitedCertificate
PROPERTY RefusalAnswered
