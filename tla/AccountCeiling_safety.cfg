SPECIFICATION Spec
CONSTANTS
    c1 = c1
    c2 = c2
    k1 = k1
    k2 = k2
    k3 = k3
    f1 = f1
    NoCap = NoCap
    NoRecord = NoRecord
    Campaigns = {c1, c2}
    Cycles = {k1, k2, k3, f1}
    CampaignOf <- Campaign
    Parent <- Forks
    Config <- Configs
    Jobs = {1, 2, 3}
    Changes = {1}
    Requests = {1, 2, NoRecord}
    Caps = {1, 2, NoCap}
    Face = 4
CONSTRAINT Explored
INVARIANTS
    TypeOK
PROPERTIES
    SharesStayWithin
    LaunchLeavesSiblingsRoom
    CouponStaysCovered
CHECK_DEADLOCK FALSE
