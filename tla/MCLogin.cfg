SPECIFICATION Spec
CONSTANTS
    Timeout <- MCTimeout
    MaxConns <- MCMaxConns
    MaxCommands <- MCMaxCommands
INVARIANT LoginTypeOK
INVARIANT LoginBounded
INVARIANT NoCommandAsCredential
INVARIANT OneVerdictPerSession
INVARIANT OneSession
PROPERTY OutcomeIsVerdict
PROPERTY CleanStart
PROPERTY TimeoutMeansSilence
PROPERTY ConnectReturns
CHECK_DEADLOCK FALSE
