CONSTANTS
    s1 = s1  s2 = s2  h1 = h1  h2 = h2  d1 = d1  d2 = d2  d3 = d3
    u1 = u1  u2 = u2  i1 = i1  i2 = i2  k1 = k1
    Sessions = {s1, s2}
    Sandboxes = {h1, h2}
    Handles = {h1, h2}
    Dependents = {}
    KindOf <- NoDependents
    Users = {u1, u2}
    UserOf <- OneUser
    Identities = {i1, i2}
    IdentityOf <- OneIdentity
    Keys = {}
    NoKey = NoKey
    NoSession = NoSession
    Resources <- SmallShapes
    Limits <- SmallLimits
    MaxActiveUse = 2
    MaxStartReplayRecords = 1
SPECIFICATION Spec
INVARIANTS
    CountIsLeases
    SealedIsIdle
    NoOrphanVm
    ChargedIsHeld
    SealedHasOnlyAbandonedBoots
CHECK_DEADLOCK FALSE
SYMMETRY SessionSymmetry
