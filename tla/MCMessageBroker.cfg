SPECIFICATION FairBrokerSpec
CONSTANTS
    Messages = {m1}
    MaxReconnectAttempts = 2
    MaxConns = 2
    MaxLosses = 2
    MaxHandlers = 2
INVARIANTS KeepsTrying FirstConnectionLosesNothing
PROPERTIES Recovers
