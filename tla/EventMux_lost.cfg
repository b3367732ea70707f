SPECIFICATION Spec
CONSTANTS
    p1 = p1  p2 = p2  s1 = s1  s2 = s2  s3 = s3  st = st  ta = ta  tb = tb
    Types = {ta}
    Posters = {p1}
    Subs = {s1, s2, s3}
    Stoppers = {}
    Leavers = {s1, s2}
    Wants <- OneType
    Cap = 1
    MaxPosts = 0
    None = None
INVARIANT UnsubscribeRemoves
CHECK_DEADLOCK FALSE
