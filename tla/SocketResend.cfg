SPECIFICATION Spec
CONSTANTS
    server = server  handler = handler
    Readers = {server}
    NoReader = NoReader
    Payloads <- MCPayloads
    Delimiter <- MCDelimiter
    ReadSize = 3
    Window = 1
    Reconnects = FALSE
    MaxMessages = 2
    MaxParts = 2
INVARIANTS
    WholeMessages
CHECK_DEADLOCK FALSE
