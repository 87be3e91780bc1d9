CONSTANTS
    MaxRequests = 3
    MaxConns = 2
    MaxExchanges = 3
    Services = {"a", "b"}
SPECIFICATION Spec
INVARIANTS
    TypeOK
    AnsweredOnce
    SerialClientsServed
    AnswersArrive
    NoFrameWaits
    ExchangesEnd
CHECK_DEADLOCK FALSE
