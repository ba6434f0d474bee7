CONSTANTS
    a = a
    b = b
    Scripts = {a, b}
    None = None
    MaxCalls <- TwoAndOne
SPECIFICATION Spec
INVARIANTS TypeOK SignalMatchesQueue InOrder OkMeansHandled LateOnlyAfterTimeout
PROPERTIES ImplementsBus
