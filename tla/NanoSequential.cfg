SPECIFICATION Spec
CONSTANTS
    n1 = n1
    n2 = n2
    c = c
    m = m
    Nanos = {n1, n2}
    Users = {c, m}
    Moderators = {m}
    Admins = {m}
    Creator <- CreatorOf
    Fields = {description}
    Requests = {r1}
    Endpoints <- AllEndpoints
INVARIANTS PublishedIsComplete PendingHasOpenCase PendingCaseIsReset
PROPERTIES TakedownHides MetadataOnlyInDraft LifecycleOutsideReview
