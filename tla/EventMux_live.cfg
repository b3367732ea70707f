SPECIFICATION FairSpec
CONSTANTS
    p1 = p1  p2 = p2  s1 = s1  s2 = s2  s3 = s3  st = st  ta = ta  tb = tb
    Types = {ta, tb}
    Posters = {p1, p2}
    Subs = {s1, s2}
    Stoppers = {}
    Leavers = {s1}
    Wants <- Mixed
    Cap = 1
    MaxPosts = 1
    None = None
PROPERTY CallsReturn
