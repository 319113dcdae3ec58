CONSTANTS
  ns3 = ns3
  py = py
  None = None
  Clients = {ns3, py}
  Raising = {py}
  Readers = {}
  Turn <- TurnByParity
  W = 4
  UEs = {ue1, ue2}
  NoUe = NoUe
  RunModes = {"DQN"}
  MaxEvents = 4
SPECIFICATION AppSpec
INVARIANT
  LearnHasMemory
CHECK_DEADLOCK FALSE
