CONSTANTS
    None = None
    Archives <- MCArchives
    Word = 32
    DataStart = 32
    Modern = 16
    Legacy = 8
    Window = 32
    MaxSkip = 128
    ScanWindow = 60
    MaxBack = 480
    MinSize = 2
    MaxSize = 100
SPECIFICATION MapSpec
INVARIANT HintOpens
