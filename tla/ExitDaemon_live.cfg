\* One line under fairness: what must eventually happen.
SPECIFICATION FairSpec
CONSTANTS
    Lines = {l1}
    Namespaces = {l1}
    NsOf <- OwnNamespaces
    Nodes = {n1}
    IPs = {home, pinned}
    LocalIPs = {home, pinned}
    ResidentialIPs = {home}
    HostingIPs = {pinned}
    ForcedHosting = {pinned}
    Pids = {p1, p2, p3, p4}
    Free = Free  Host = Host  None = None  Absent = Absent
    Threshold = 2
    PidReuse = FALSE
    Modes = {"residential_only"}
    MaxEdits = 2
    MaxCrashes = 1
    MaxDeaths = 1
PROPERTIES UnwantedLineStops OldSettingsLeave ReleasedLineSettles ForcedHostingLeaves
