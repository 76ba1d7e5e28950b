\* Eleven tools of every route, five registries; settings complete or not,
\* with deep research and web search on or off; one call after another.
CONSTANTS
    Registries <- MCRegistries
    SettingsSpace <- MCSettings
    Trading <- MCTrading
SPECIFICATION FairSpec
INVARIANTS
    ErrorsAreNotData
    OnlyRealDataPasses
    WritingIsNotOffered
PROPERTIES
    EveryCallEnds
CHECK_DEADLOCK FALSE
