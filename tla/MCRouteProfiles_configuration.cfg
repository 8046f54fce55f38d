\* Every combination of overrides along a chain, every combination of links,
\* and every short Caddyfile.
CONSTANTS
    common = common
    child = child
    sibling = sibling
    missing = missing
    HeaderNames = {"a", "b"}
    ParameterNames = {"id", "t"}
    None = None
    Files <- AllFiles
    Configurations <- AllConfigurations
SPECIFICATION AdapterSpec
INVARIANTS
    RoutesAgree BrokenChainsRejected
     AdaptationStable
CHECK_DEADLOCK FALSE
