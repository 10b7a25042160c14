SPECIFICATION Spec
CONSTANTS
    h1 = h1
    h2 = h2
    Home <- MCHome
    Configured = h1
    Owned = {h2}
    EnvHomes <- MCEnvHomes
    UserHomes <- MCUserHomes
    ProfileHomes <- MCProfileHomes
    QuotaFileLimit = 1
    MaxWrites = 2
    MaxCrashes = 1
    MaxFaults = 1
    MaxQueue = 1
INVARIANT
    HomeStaysPinned
