SPECIFICATION Spec
CONSTANTS
    Threads = {t1, t2}
    Requests = {r1, r2}
    Addrs = {a1, a2, a3}
    Shapes = {small, large}
    Schemas = {d1, d2}
    None = None
    MaxReloads = 3
INVARIANTS TypeOK StaleTakesTwoReloads DefsHaveTheShape
