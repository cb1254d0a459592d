SPECIFICATION Spec
CONSTANTS
    i1 = i1
    i2 = i2
    i3 = i3
    a = a
    m = m
    Nanos = {n1}
    Ratings = {i1, i2}
    Comments = {}
    Flags = {}
    NanoOf <- NanoOfItem
    AuthorOf <- AuthorOfItem
    Creator <- CreatorOfNano
    Users = {a, m}
    Moderators = {m}
    Contents = {1}
    Requests = {r1, r2}
    Endpoints = {"create", "review"}
INVARIANTS CacheMatches
