\* Eleven tools of every route, five registries; settings complete or not,
\* with deep research and web search on or off; one call after another.
CONSTANTS
    Registries <- MCRegistries
    SettingsSpace <- MCSettings
    Trading <- MCTrading
SPECIFICATION Spec
INVARIANTS
    AcceptedCallIsServed
CHECK_DEADLOCK FALSE
