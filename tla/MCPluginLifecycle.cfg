SPECIFICATION Spec
CONSTANTS
    Call = {c1}
    File <- MCFile
    Artifact <- MCArtifact
    Project <- MCProject
    Name <- MCName
    Origin <- MCOrigin
    NameOf <- MCNameOf
    FileOf <- MCFileOf
    Hashed = {"v1", "v2", "addon"}
    Described <- MCDescribed
    Admitted <- MCAdmitted
    Needs <- MCNeeds
    ByHand = {"addon"}
    Overlap = FALSE
    MaxFailures = 2
    MaxCrashes = 1
    Missing = Missing
    Torn = Torn
    NoCall = {c1}
    NoProject = NoProject
INVARIANTS
    TrustIsDeserved
PROPERTIES
    UpdateKeepsPlugin
    InstallIsUnique
