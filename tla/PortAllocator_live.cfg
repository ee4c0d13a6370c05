CONSTANTS
  e1 = e1  e2 = e2  e3 = e3
  Engines = {e1, e2}
  START_PORT = 4
  END_PORT = 7
  Flags = {"SPF_EVEN", "SPF_ROBUST_UDP"}
  PortWrap = 65536
  Foreign = {4}
  ForeignTcp = {}
  Recovered = {6}
  NoEngine = NoEngine
SPECIFICATION PortFairSpec
PROPERTY RequestReturnsOrStuck
