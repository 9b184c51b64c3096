CONSTANTS
    N = 2
    Calls <- MCCalls
    Queries <- MCQueries
    Panels <- MCPanels
    Meters <- MCMeters
    Optional <- MCOptional
    MaxCalls = 1
    Tokens <- MCTokens
    Numbers <- MCNumbers
    Decimals <- MCDecimals
    Noise <- MCNoise
    Junk <- MCJunk

SPECIFICATION Spec
PROPERTY ActsAsPanel
CHECK_DEADLOCK FALSE
