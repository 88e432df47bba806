CONSTANTS
    MaxDepth = 4
SPECIFICATION Spec
INVARIANTS TypeOK SignalsOnce QuietKillIsQuiet
PROPERTIES ExecSound
