SPECIFICATION FairSpec
CONSTANTS
    server = server  handler = handler
    Readers = {server, handler}
    NoReader = NoReader
    Payloads <- MCPayloads
    Delimiter <- MCDelimiter
    ReadSize = 3
    Window = 2
    Reconnects = TRUE
    MaxMessages = 2
    MaxParts = 1
INVARIANTS
    MessageIsTail
PROPERTIES
    ImplementsChannel
    EverySentArrives
CHECK_DEADLOCK FALSE
