SPECIFICATION Spec
CONSTANTS
    Wiring <- TwoVpcWirings
    Handler = "h"
    Absent = Absent
INVARIANTS PlacedInOneVpc
