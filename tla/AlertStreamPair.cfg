SPECIFICATION Spec
CONSTANTS
    Clients = {c1, c2}
    Alerts = {a1, a2}
INVARIANTS
    TypeOK
    IInv
    RegistryExact
    NothingLost
    SavedBeforePushed
    OthersUnharmed
    AnswerIsTruthful
PROPERTIES
    ImplementsFeed
    EverySubscriberSees
    LeaverIsReleased
    TriggerIsAnswered
CHECK_DEADLOCK FALSE
