SPECIFICATION Spec
CONSTANTS
    Barcodes = {b1, b2}
    Details = {g1, d1}
    ServiceOrders = {o1}
    DetailAttempts = 2
    ConfirmAttempts = 2
    CloseAttempts = 2
    MaxCalls = 2
INVARIANTS
    TypeOK
    ReportsAreTrue
    ShownLoginIsBelieved
PROPERTIES
    CallsReturn
