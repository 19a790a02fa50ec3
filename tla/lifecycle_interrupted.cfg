SPECIFICATION Spec
CONSTANTS
  server = server  second = second  command = command
  Nobody = Nobody
  Servers = {server}
  Commands = {command}
  MaxFaults = 1
INVARIANT RefusedIsLegacy
