SPECIFICATION Spec
CONSTANTS
  Root = root
  Node = {root, n1, n2, n3}
  NoNode = noNode
  RunScope = runScope
  reset = reset
  Tool <- MCTool1
  NoTool = noTool
  ControlCap = controlCap
  ProposeCap = proposeCap
  Operator = operator
  Proposal = {}
  NoProposal = noProposal
  CommandKey = {k1}
  ActionKey = {a1, a2}
  RootCaps <- MCCaps1
  LeaseTTL = 5
  IntentTTL = 1
  MaxDepth = 1
  MaxChildren = 3
  MaxCommands = 1
  MaxActions = 2
  MaxCheckpoints = 0
  MaxWait = 0
  LastGrant = 3
  LastRenewal = 0
  Horizon = 3
SYMMETRY MCSymmetry
CHECK_DEADLOCK FALSE
CONSTRAINT MCRecoveryBound
INVARIANTS OneRecoveryPerCommand ReplacementLifecycle
