SPECIFICATION Spec
CONSTANTS
    x4 = x4
    y4 = y4
    z6 = z6
    n1 = n1
    n2 = n2
    Clients = {c1, c2}
    Addrs <- AllAddrs
    Names = {n1, n2}
    Family <- MixedFamily
    Zone <- SameZone
    Remotes = {r1, r2, r3}
    Queries = {q1, q2}
    Capacity = 3
SYMMETRY Symmetry
INVARIANTS TypeOK CacheOwnsRemotes ClientsKeptApart AddressesKept
