CONSTANT MaxCommands = 3
SPECIFICATION ProxyFairSpec
INVARIANT ExitTurnsProxyOff
INVARIANT SwitchTellsTheTruth
PROPERTY ExitEnds
CHECK_DEADLOCK FALSE
