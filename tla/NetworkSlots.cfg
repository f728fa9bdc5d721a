\* Three lines; the last slots of the first row of subnets and the first of the
\* second are the limit, and a counter of 59 reaches them in a few edits.
SPECIFICATION Spec
CONSTANTS
    Ids = {a, b, c}
    None = None
    MaxSlot = 62
    LegacySlots = {None, 1, 60, 63}
    LegacyNext = {59}
SYMMETRY Symmetry
INVARIANTS TypeOK AddressesApart NeverReissued
PROPERTIES AddressKept HealthyStay
CHECK_DEADLOCK FALSE
