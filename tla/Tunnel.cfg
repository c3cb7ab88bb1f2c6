\* One tunnel or request, HTTP and SOCKS, with and without fake-SNI, every kind of stream.
SPECIFICATION Spec
CONSTANTS
    HeaderLen = 2
    RecordLen = 3
    MaxClient = 5
    MaxUpstream = 3
INVARIANTS
    StreamIntact
    RealNameHidden
    ResponseComplete
    NoConnectionLeak
PROPERTIES
    EndsWithEitherPeer
    AllForwarded
\* A tunnel that has ended stays so.
CHECK_DEADLOCK FALSE
