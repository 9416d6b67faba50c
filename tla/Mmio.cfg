\* All channels there are; the last two contexts, next to each other and to FW_ALIVE, are busy.
SPECIFICATION Spec
CONSTANTS
    NumCtx = 6
    Busy = {0, 5, 6}
    Nothing = Nothing
INVARIANTS
    TypeOK
    RoutedHome
    RingsApart
    AnswerAtHand
