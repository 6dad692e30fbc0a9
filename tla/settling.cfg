SPECIFICATION FairSpec
CONSTANTS
  Root = root
  Node = {root, n1}
  NoNode = noNode
  RunScope = runScope
  reset = reset
  Tool <- MCTool1
  NoTool = noTool
  ControlCap = controlCap
  ProposeCap = proposeCap
  Operator = operator
  Proposal = {}
  NoProposal = noProposal
  CommandKey = {k1}
  ActionKey = {a1}
  RootCaps <- MCCaps1
  LeaseTTL = 1
  IntentTTL = 1
  MaxDepth = 1
  MaxChildren = 3
  MaxCommands = 1
  MaxActions = 0
  MaxCheckpoints = 1
  MaxWait = 1
  LastGrant = 2
  LastRenewal = 2
  Horizon = 4
CHECK_DEADLOCK FALSE
PROPERTIES FencedSettles PendingResolved
