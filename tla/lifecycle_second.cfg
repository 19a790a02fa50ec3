SPECIFICATION Spec
CONSTANTS
  server = server  second = second  command = command
  Nobody = Nobody
  Servers = {server, second}
  Commands = {}
  MaxFaults = 0
PROPERTY OnlyInterruptedRecovered
