CONSTANTS
    MaxTasks = 3
    MaxPid = 2
SPECIFICATION Spec
INVARIANT FrameBeforeResume
