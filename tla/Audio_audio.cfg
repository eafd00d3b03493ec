SPECIFICATION FairSpec
CONSTANT Systems = {"alsa", "pulse", "pipewire", "oss", "libao", "nas"}
CONSTANT Tracks = 2
CONSTANT Samples = 3
CONSTANT Room = 2
CONSTANT Overlap = 1
CONSTANT MaxMessages = 2
CONSTANT MaxStops = 2
CONSTANT Ring = 1
CONSTANT Quantum = 1
CHECK_DEADLOCK FALSE
INVARIANT Silence
INVARIANT Whole
PROPERTY StopReturns
