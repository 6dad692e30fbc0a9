SPECIFICATION WorkerSpec
CONSTANTS
  Root = root
  Node = {root, n1}
  Worker = n1
  NoNode = noNode
  RunScope = runScope
  Tool = {reset}
  NoTool = noTool
  ControlCap = controlCap
  ProposeCap = proposeCap
  Operator = operator
  Proposal = {}
  NoProposal = noProposal
  CommandKey = {k1}
  ActionKey = {a1}
  RootCaps = {reset}
  LeaseTTL = 1
  IntentTTL = 1
  MaxHeartbeatFailures = 2
  MaxAbandoned = 1
  MaxDepth = 1
  MaxChildren = 1
  MaxCommands = 1
  MaxActions = 2
  MaxCheckpoints = 1
  MaxWait = 0
  LastGrant = 2
  LastRenewal = 2
  Horizon = 2
CHECK_DEADLOCK FALSE
INVARIANTS WorkerTypeOK ExitFaithful
PROPERTIES NoWorkAfterLoss FencedWorkerStops
