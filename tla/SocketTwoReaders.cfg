SPECIFICATION Spec
CONSTANTS
    server = server  handler = handler
    Readers = {server, handler}
    NoReader = NoReader
    Payloads <- MCPayloads
    Delimiter <- MCDelimiter
    ReadSize = 3
    Window = 2
    Reconnects = FALSE
    MaxMessages = 3
    MaxParts = 0
INVARIANTS
    WholeMessages
CHECK_DEADLOCK FALSE
