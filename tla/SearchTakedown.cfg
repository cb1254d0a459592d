SPECIFICATION CalmSpec
CONSTANTS
    SearchNanos = {n1}
    Searchers = {r1}
    Editors = {d1}
    ChangeBound = 2
    RebuildBound = 2
CHECK_DEADLOCK FALSE
INVARIANT SearchShowsPublishedOnly
