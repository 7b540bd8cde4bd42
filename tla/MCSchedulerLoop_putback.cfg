SPECIFICATION Spec
CONSTANTS
    Settings <- MCPutBack
    From = 64
    Until = 100
    MaxErrors = 0
    MaxRestarts = 0
INVARIANTS
    AtMostOncePerWindow
