CONSTANTS
    h1 = h1
    h2 = h2
    m1 = m1
    m2 = m2
    m3 = m3
    Nodes = {h1, h2}
    Receivers = {h2}
    Msgs = {m1, m2, m3}
    NoMsg = NoMsg
    Source <- MCSource
    Dest <- MCDest
    Size <- MCSize
    MaxRetries = 1
    MaxRetryDelay = 2
    MaxAttempt = 2
    MaxGeneration <- MCMaxGeneration
    MaxReceived = 1
    MaxReassembly = 2
    MaxOutbound = 2
    PartialSend = FALSE
CHECK_DEADLOCK FALSE
SPECIFICATION FairSpec
INVARIANTS TypeOK Untorn NoIdleReceiver
PROPERTIES ImplementsChannel CallsAnswered
