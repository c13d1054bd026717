SPECIFICATION RunningSpec
CONSTANTS
    Addrs = {a1, a2, a3, a4}
    Acl <- MixedAcl
    AclMode = "black"
    Capacity = 3
    MaxTries = 2
    MaxAge = 1
    Firewall = "chain"
    Levels <- MildAndHarsh
    MaxConns = 1
INVARIANTS TypeOK RulesMirrorList RecencyOrder
PROPERTIES UnblockedForCause Forgotten
