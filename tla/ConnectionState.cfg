SPECIFICATION Spec
INVARIANTS
    TypeOK
    Stabilized
    ExchangeOrder
    SwitchDecision
    CompleteIsReusable
PROPERTIES
    ErrorKeepsLocalMessage
    Exchanges
