SPECIFICATION FairSpec
CONSTANTS
    Ms = 4
    Period = 4
    Interval = 8
    Epoch = 20
    Overheads = {0, 12}
    Steps = {2, 60}
    MaxSteps = 2
PROPERTY
    Settles
