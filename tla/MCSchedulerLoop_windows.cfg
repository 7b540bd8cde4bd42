SPECIFICATION Spec
CONSTANTS
    Settings <- MCSettings
    From = 64
    Until = 100
    MaxErrors = 1
    MaxRestarts = 1
INVARIANTS
    FiresInsideWindow
    NoWindowSkipped
    OnceUnlessPutBack
