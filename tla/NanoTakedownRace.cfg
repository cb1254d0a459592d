SPECIFICATION Spec
CONSTANTS
    n1 = n1
    n2 = n2
    c = c
    m = m
    Nanos = {n1}
    Users = {c, m}
    Moderators = {m}
    Admins = {m}
    Creator <- CreatorOf
    Fields = {description}
    Requests = {r1, r2}
    Endpoints <- AllEndpoints
PROPERTY TakedownHides
