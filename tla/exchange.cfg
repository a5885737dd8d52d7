SPECIFICATION Spec
CONSTANTS
    MaxHead = 7
    Settings <- ExchangeSettings
INVARIANTS
    Understood
    SidesAgree
