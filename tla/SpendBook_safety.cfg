SPECIFICATION Spec
CONSTANTS
    s1 = s1
    s2 = s2
    s3 = s3
    z1 = z1
    z2 = z2
    z3 = z3
    a1 = a1
    b1 = b1
    a2 = a2
    a3 = a3
    Sends = {s1, s2, s3}
    Nested = {s1}
    InCell = {s1, s2}
    Parts = {z1, z2, z3, a1, b1, a2, a3}
    SendOf <- PartOwner
    Price <- Prices
    Zero <- Zeros
    Bound <- Bounds
    CellBound = 2
    Share <- Shares
    Reserve = 3
INVARIANTS
    HoldsWhatIsOut
    CountedOnce
    RootForgetsNothing
    AccountForgetsNothing
    ReserveNeverPassed
CHECK_DEADLOCK FALSE
