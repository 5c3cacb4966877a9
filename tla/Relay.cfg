SPECIFICATION Spec
CONSTANTS
    MaxChunks <- Chunks
    QueueLimit = 1
    IdleTimeouts = {0, 1}
    DrainLimit = 0
    Faulty = {"up"}
PROPERTIES NeverCutWhileDelivering ImplementsTunnel DeliveredWithoutEof DrainBounded
