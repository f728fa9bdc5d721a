SPECIFICATION Spec
CONSTANTS
    a = a  b = b  n1 = n1  n3 = n3  j = j  k = k
    Lines = {a, b}
    Nodes = {n1, n3}
    None = None
    Place <- Places
    Of <- TwoCountries
    Mode <- Modes
    Type <- Types
    Excluded = {}
    TestedOnly = {a, b}
    Up = {n3}
    Offered = {n3}
    Lists = {{n3}}
    Pauses = {TRUE}
    MaxCandidates = 1
    Backoff = 2
    Recent = 1
    Events = {"failure", "loss", "pin", "pause"}
    MaxEvents = 1
PROPERTIES NoHistoricalBackoff
CHECK_DEADLOCK FALSE
