CONSTANTS
  ns3 = ns3
  py = py
  None = None
  Clients = {ns3, py}
  Raising = {py}
  Readers = {}
  Turn <- TurnAlways
  W = 6
SPECIFICATION Spec
INVARIANT MutualExclusion
