SPECIFICATION Spec
CONSTANTS
    Ports <- OnePort
    MaxRuns = 2
    MaxCommands = 2
    MaxRestarts = 1
    Words <- SomeWords
INVARIANTS
    TypeOK
    OnlyTheUser
    ExecutedInOrder
    AnswerShown
    RefusedRightly
    NobodyFails
PROPERTIES
    SecondProgramShutOut
CHECK_DEADLOCK FALSE
