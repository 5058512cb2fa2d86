CONSTANTS
    Configs <- MCConfigs
    Name <- MCName
    Extensions <- MCExtensions
    ToLower <- MCToLower
    HasGrammar <- MCHasGrammar
    Tables <- MCTables
    Injected <- MCInjected
    Calls <- MCCalls
SPECIFICATION Spec
INVARIANTS
    AcceptedIffAcceptable
    ReadyToChunk
CHECK_DEADLOCK FALSE
