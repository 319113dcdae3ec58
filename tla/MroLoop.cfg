CONSTANTS
  ns3 = ns3
  py = py
  None = None
  Clients = {ns3, py}
  Raising = {py}
  Readers = {}
  Turn <- TurnByParity
  W = 4
  UEs = {ue1, ue2}
  NoUe = NoUe
  RunModes = {"DQN", "MRO", "no_ML"}
  MaxEvents = 4
SPECIFICATION FairAppSpec
INVARIANTS
  AppTypeOK
  MutualExclusion
  AcquiredInTurn
  NoStatusError
  CountersTellHolder
  AnswerFollowsRequest
  AnswerIsFresh
  PacketsLoggedOnce
PROPERTIES
  ImplementsRendezvous
  BothStop
  HandlersReturn
CHECK_DEADLOCK FALSE
