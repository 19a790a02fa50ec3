SPECIFICATION Spec
CONSTANTS
  server = server  second = second  command = command
  Nobody = Nobody
  Servers = {server}
  Commands = {command, second}
  MaxFaults = 2
INVARIANTS OpenSchemaIsComplete ServingHasRecovered ClosedAfterUse
PROPERTIES SignalledStops
