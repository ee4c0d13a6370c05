CONSTANTS
  e1 = e1  e2 = e2  e3 = e3
  Engines = {e1, e2, e3}
  START_PORT = 3
  END_PORT = 7
  Flags = {"SPF_EVEN", "SPF_ROBUST_UDP"}
  PortWrap = 65536
  Foreign = {}
  ForeignTcp = {}
  Recovered = {4}
  NoEngine = NoEngine
SPECIFICATION PortSpec
SYMMETRY Symmetry
INVARIANTS NoPortLeak HeldIsExclusive PortsAreAsked
