SPECIFICATION Spec
CONSTANTS
    i1 = i1
    i2 = i2
    i3 = i3
    a = a
    m = m
    Nanos = {n1}
    Ratings = {}
    Comments = {i1}
    Flags = {}
    NanoOf <- NanoOfItem
    AuthorOf <- AuthorOfItem
    Creator <- CreatorOfNano
    Users = {a, m}
    Moderators = {m}
    Contents = {1, 2}
    Requests = {r1, r2}
    Endpoints = {"update", "review"}
PROPERTIES VisibleWasReviewed
