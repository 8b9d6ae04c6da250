CONSTANTS
    Places = {"environment", "object"}
    Scopes <- MCScopes
    Environments <- MCEnvironments
    StaticEnvironments <- MCStaticEnvironments
    Object = "object"
    Hashes = {"environment"}
    Storing = {"environment"}
    Fetching = {"object"}
    Defaulting = {"environment"}
    Keys = {"k", "12"}
    StringKeys = {"k"}
    Values = {"nil", "v"}
    Settings = {"strict_filters"}
    MaxCalls = 2
SPECIFICATION Spec
CONSTRAINT MCBounds
INVARIANT SettingsFollow
