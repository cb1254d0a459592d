SPECIFICATION LiveSpec
CONSTANTS
    Handlers = {h1, h2}
    MaxTokens = 5
    Calls = {c1, c2}
    SearchNanos = {n1}
    Searchers = {r1}
    Editors = {d1}
    ChangeBound = 2
    RebuildBound = 2
    CreatorPanels = {p0}
    ParticipantPanels = {p1}
    PollSlots = {k1, k2}
    PageSize = 1
    MessageBound = 3
CHECK_DEADLOCK FALSE
INVARIANTS
    NoSpuriousLogout
    ShownOnce
PROPERTIES
    EveryCallEnds
    SearchEventuallyCurrent
    EventuallyDelivered
