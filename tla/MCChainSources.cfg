CONSTANTS
    Chains = {a, b, c}
    MaxUnsigned = 7
SPECIFICATION SourcesSpec
INVARIANT SourcesDistinct
