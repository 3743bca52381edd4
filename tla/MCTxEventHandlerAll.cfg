SPECIFICATION Spec
CONSTANTS
    Undefined = Undefined
    Hubs = {"a1", "a2", "b1"}
    Msps = {"OrgA", "OrgB"}
    MspOf <- MCMspOf
    MspId = "OrgA"
    Configured = {"MSPID_SCOPE_ALLFORTX", "MSPID_SCOPE_ANYFORTX", "CHANNEL_SCOPE_ALLFORTX", "CHANNEL_SCOPE_ANYFORTX"}
INVARIANTS
    TypeOK
    CountsMatchRegistrations
    QuietOnceOver
    WaitsForSomebody
    LossFailsOnlyUnheard
    RejectedMeansUnmet
PROPERTIES
    ListeningEnds
