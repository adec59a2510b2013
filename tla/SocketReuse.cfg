SPECIFICATION Spec
CONSTANTS
    server = server  handler = handler
    Readers = {server}
    NoReader = NoReader
    Payloads <- MCPayloads
    Delimiter <- MCDelimiter
    ReadSize = 3
    Window = 2
    Reconnects = TRUE
    MaxMessages = 2
    MaxParts = 0
INVARIANTS
    WholeMessages
CHECK_DEADLOCK FALSE
