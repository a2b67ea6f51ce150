SPECIFICATION Spec
CONSTANTS
    Keys = {1, 2, 3}
    Batches = 2
    MaxSize = 2
    SampleMax = 2
    TopK = 1
PROPERTY
    ContinuesScan
