SPECIFICATION FairSpec
CONSTANTS
    Exchanges <- MCExchanges
    Actions <- MCActions
    MaxHead = 19
    MaxResponse = 2
    MaxChunkLine = 3
    MaxTrailerBytes = 5
INVARIANTS MessageBoundary Lossless RewriteKeepsFraming OneAnswer RoutedAsConfigured
PROPERTY ExchangeCompletes
CHECK_DEADLOCK FALSE
