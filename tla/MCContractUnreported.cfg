SPECIFICATION SubmitSpec
CONSTANTS
    Undefined = Undefined
    Hubs = {"a1", "a2", "b1"}
    Msps = {"OrgA", "OrgB"}
    MspOf <- MCMspOf
    MspId = "OrgA"
    Endorsers = 2
    Configured = {"MSPID_SCOPE_ALLFORTX", "MSPID_SCOPE_ANYFORTX", "CHANNEL_SCOPE_ANYFORTX"}
INVARIANT SatisfiedIsReported
