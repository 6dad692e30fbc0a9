SPECIFICATION FairSpec
CONSTANTS
  Root = root
  Node = {root, n1}
  NoNode = noNode
  RunScope = runScope
  reset = reset
  Tool <- MCTool1
  NoTool = noTool
  ControlCap = controlCap
  ProposeCap = proposeCap
  Operator = operator
  Proposal = {}
  NoProposal = noProposal
  CommandKey = {k1}
  ActionKey = {a1}
  RootCaps <- MCCaps1
  LeaseTTL = 1
  IntentTTL = 1
  MaxDepth = 1
  MaxChildren = 3
  MaxCommands = 0
  MaxActions = 0
  MaxCheckpoints = 0
  MaxWait = 0
  LastGrant = 1
  LastRenewal = 1
  Horizon = 3
CHECK_DEADLOCK FALSE
PROPERTIES RootExpiryTerminatesRun
