SPECIFICATION Spec
CONSTANTS
    Message = {m1, m2}
    NoMessage = NoMessage
    Capacity = 2
    WordSize = 4
INVARIANTS TypeOK OccupancyBound NoDataRace
PROPERTIES FifoSpec Delivery
CHECK_DEADLOCK TRUE
