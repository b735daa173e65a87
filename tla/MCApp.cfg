SPECIFICATION AppSpec
CONSTANTS
    MaxCalls = 8
    MaxPolls = 2
    Fields <- MCFields
    Values <- MCValues
    Defaults <- MCDefaults
    Handlers <- MCHandlers
    Projects <- MCProjects
    Paths <- MCPaths
    Kind <- MCKind
    MaxRequests = 2
    Sessions <- MCSessions
    Folders <- MCFolders
    Parent <- MCParent
    Start = "/b"
    Home = "/"
    Nowhere = "undefined"
    Unset = "''"
    Models <- MCModels
    Quick <- MCQuick
    Langs <- MCLangs
    Unchosen = "none"
    MaxUsage = 2
    MaxLoads = 2
    MaxResults = 2
    Others <- MCOthers
    Plans <- MCPlans
INVARIANT AppSafe FilesKeepTheirText UpdatesKept
PROPERTY CatchesUp
CHECK_DEADLOCK FALSE
