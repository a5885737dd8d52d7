SPECIFICATION DialogueSpec
CONSTANTS
    MaxHead = 4
    Settings <- DialogueSettings
PROPERTIES
    ExchangesEnd
