SPECIFICATION FairSpec
CONSTANTS
    c1 = c1
    c2 = c2
    s1 = s1
    Conns = {c1, c2}
    Streams = {s1}
    Scenarios <- Environments
    MaxTokens = 2
 
PROPERTIES ViewConverges SessionsEndStreams
