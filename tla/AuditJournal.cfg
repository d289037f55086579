CONSTANTS
    Sinks = {daemon, cli}
    MaxEvents = 4
    Nothing = Nothing
    MaxLines = 2
    MaxBackups = 3
    MaxFiles = 3
SPECIFICATION Spec
SYMMETRY Symmetric
CONSTRAINT FewImages
INVARIANTS
    ChainsVerify
    AckedEventsLast
