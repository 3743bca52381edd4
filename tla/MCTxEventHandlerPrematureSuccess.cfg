SPECIFICATION Spec
CONSTANTS
    Undefined = Undefined
    Hubs = {"a1", "a2", "b1"}
    Msps = {"OrgA", "OrgB"}
    MspOf <- MCMspOf
    MspId = "OrgA"
    Configured = {"CHANNEL_SCOPE_ALLFORTX"}
INVARIANT ResolvedMeansPromised
