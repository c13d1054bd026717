SPECIFICATION Spec
CONSTANTS
    x4 = x4
    y4 = y4
    z6 = z6
    n1 = n1
    n2 = n2
    Clients = {c1, c2}
    Addrs <- TwoAddrs
    Names = {n1, n2}
    Family <- FourFamily
    Zone <- TwoZone
    Remotes = {r1, r2, r3}
    Queries = {q1, q2}
    Capacity = 3
INVARIANTS NamesKept
