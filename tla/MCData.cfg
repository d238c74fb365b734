SPECIFICATION SpecData
INVARIANTS
    SignalsFollow
    ConfigsAgree
    LoadsAgree
    ChatsAndBlocksAgree
PROPERTIES
    ImmutableStays
\* A component that is over stops.
CHECK_DEADLOCK FALSE
