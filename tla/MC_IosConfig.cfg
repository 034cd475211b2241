CONSTANT MaxVersion = 4
CONSTANT Blank = {3}
CONSTANT MaxFaults = 1
SPECIFICATION ConfigSpec
INVARIANT UnchangedIsCurrent
INVARIANT TunnelIsUpToDate
