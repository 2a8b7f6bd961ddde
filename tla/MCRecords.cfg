CONSTANTS
    u1 = u1  u2 = u2  u3 = u3  a1 = a1  a2 = a2  b1 = b1  b2 = b2  r1 = r1  r2 = r2
    Users <- MCUsers  TeamIds <- MCTeams  Invites <- MCInvites  TeamRequests <- MCRequests
    NoRequest = NoRequest  Nobody = Nobody
    TeamCap = 1  MaxRequests = 3  MaxAged = 1
    Files = {"team", "user"}  Special = {"pat", "hf"}  Regular = {"a"}
    Writers <- MCRequests  NoWrite = NoWrite  MaxPuts = 3
    Keys <- MCKeys  Callers <- MCRequests  NoCall = NoCall  NoKey = NoKey  Torn = Torn  MaxCalls = 3
    Providers <- MCProviders  ProviderNames = {"Local", "Other"}  Local = "Local"
    Edits <- MCRequests  NoEdit = NoEdit  NoRow = NoRow  MaxEdits = 3
    Requests <- MCUsers  Terminal <- MCTerminal  MaxWrites = 4
    Launches <- MCLaunches  MaxLost = 1
SPECIFICATION MCSpec
INVARIANTS HasOwner SpecialsSurvive MachinesOpen ProvidersAgree LaunchIsRecorded UndisturbedEditIsSeen
SYMMETRY MCSymmetry
CHECK_DEADLOCK FALSE
