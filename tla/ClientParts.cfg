SPECIFICATION PartsSpec
CONSTANTS
    Scenarios <- CheckedScenarios
    m1 = m1
    m2 = m2
    m3 = m3
    Text = Text
    None = None
    Message = {m1, m2, m3}
    VoiceScenarios <- CheckedVoices
INVARIANTS
    ShownIsTrue
    FailureReported
    VoicesInOrder
PROPERTIES
    Converges
    ChainEnds
CHECK_DEADLOCK FALSE
