SPECIFICATION ServicesSpec
CONSTANTS
    Handlers = {a1, a2}
    MaxTokens = 3
    Users = {b1, b2}
    Emails = {e1}
    Slots = {a1, a2}
    MaxLoginAttempts = 2
    FailureBound = 3
    OverlapBound = 1
    SearchNanos = {a1, a2}
    Searchers = {r1}
    Editors = {d1}
    ChangeBound = 3
    RebuildBound = 2
    CreatorPanels = {p0}
    ParticipantPanels = {a1, a2}
    PollSlots = {k1}
    PageSize = 1
    MessageBound = 1
    MailAttempts = 3
    MaxRequests = 2
    WindowSeconds = 3
    TicksPerSecond = 2
    Horizon = 14
    RefusalBound = 3
    UploadMaxRetries = 3
SYMMETRY ServicesSymmetry
CHECK_DEADLOCK FALSE
INVARIANTS
    SessionTypeOK
    StoredTokenUsable
    EndedTokensRefused
    AccountsTypeOK
    OneAccountPerEmail
    LockMatchesFailures
    DeletedStaysAnonymous
    RebuiltIndexIsPublished
    CacheAgreesWithIndex
    OneChatSession
    MailAcceptedOnce
    WindowBound
    RetryAfterWithinASecond
    RowHasObject
