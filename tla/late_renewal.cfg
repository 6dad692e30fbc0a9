SPECIFICATION Spec
CONSTANTS
  Root = root
  Node = {root, n1}
  NoNode = noNode
  RunScope = runScope
  reset = reset
  Tool <- MCTool1
  NoTool = noTool
  ControlCap = controlCap
  ProposeCap = proposeCap
  Operator = operator
  Proposal = {}
  NoProposal = noProposal
  CommandKey = {k1}
  ActionKey = {a1}
  RootCaps <- MCCaps1
  LeaseTTL = 2
  IntentTTL = 1
  MaxDepth = 1
  MaxChildren = 3
  MaxCommands = 0
  MaxActions = 0
  MaxCheckpoints = 0
  MaxWait = 1
  LastGrant = 3
  LastRenewal = 3
  Horizon = 4
SYMMETRY MCSymmetry
CHECK_DEADLOCK FALSE
PROPERTIES ExpiredLeaseNotRevived
