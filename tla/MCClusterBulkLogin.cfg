SPECIFICATION Spec
CONSTANTS
    n1 = n1
    n2 = n2
    a = a
    Nodes = {n1, n2}
    Home = n1
    MaxLate = 1
    SlotOrder <- MCSlotOrder
    MaxLogins = 1
    MaxCaptchas = 1
INVARIANTS
    TypeOK
    CaptchaHandling
    ClusterSuccessIsTrue
PROPERTIES
    LoginsSettle
