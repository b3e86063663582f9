SPECIFICATION SelectionSpec
CONSTANTS
    Parsed <- MCParsed
    Server <- MCServer
    Country <- MCCountry
    Score <- MCScore
    Place <- MCPlace
    Garbage = {"w5"}
    Codes <- MCCodes
    Europe = {"DE"}
    Unknown = "??"
    Allowed = {}
    SampleSize = 3
    Settings <- MCSettings
    MaxSlow = 1
    MaxOpen = 1
INVARIANT CountriesTakeTurns
INVARIANT MixIsFilled
 
CHECK_DEADLOCK FALSE
