CONSTANTS
    stdout = stdout
    stderr = stderr
    Streams = {stdout, stderr}
    MaxLines = 2
    PipeCap = 1
SPECIFICATION ServiceSpec
INVARIANTS
    TypeOK
    FullOutput
    ScriptLifetime
PROPERTIES
    TimeoutAnswers
    NoPipeDeadlock
    ImplementsRequest
    AnswersPromptly
CHECK_DEADLOCK FALSE
