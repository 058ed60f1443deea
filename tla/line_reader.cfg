SPECIFICATION FairSpec
CONSTANTS
    Letters <- TwoCases
    Upper <- ToUpper
    QuitVerb <- Quit
    MaxSize = 4
    MaxSent = 4
INVARIANTS Reading
PROPERTIES ImplementsStream EndsWithClient
CHECK_DEADLOCK FALSE
