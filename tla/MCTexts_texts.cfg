SPECIFICATION TextSpec
CONSTANTS
    Characters <- MCCharacters
    Contents <- MCContents
    Environments <- MCEnvironments
    Bodies <- MCBodies
    Strings <- MCStrings
    Bits = 4
INVARIANTS
    ResultIsExpansion
    TokensAreReported
    AdaptersAgree
PROPERTY SearchAdvances
CHECK_DEADLOCK FALSE
