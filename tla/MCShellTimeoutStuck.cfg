CONSTANTS
    stdout = stdout
    stderr = stderr
    Streams = {stdout, stderr}
    MaxLines = 2
    PipeCap = 1
SPECIFICATION ServiceSpec
PROPERTY TimedOutResolves
CHECK_DEADLOCK FALSE
