SPECIFICATION RecoverySpec
CONSTANTS
  Root = root
  Node = {root, n1}
  NoNode = noNode
  RunScope = runScope
  Tool = {reset}
  NoTool = noTool
  ControlCap = controlCap
  ProposeCap = proposeCap
  Operator = operator
  Proposal = {}
  NoProposal = noProposal
  CommandKey = {k1}
  ActionKey = {a1}
  RootCaps = {reset}
  LeaseTTL = 2
  IntentTTL = 2
  RecoveryTTL = 1
  MaxDepth = 1
  MaxChildren = 3
  MaxCommands = 1
  MaxActions = 0
  MaxCheckpoints = 1
  MaxWait = 1
  LastGrant = 2
  LastRenewal = 3
  Horizon = 4
CHECK_DEADLOCK FALSE
INVARIANTS FencedStatusJustified CredentialsRecoverable
PROPERTIES FencedLeaseNeverGrows EndedNodeStaysEnded CredentialsFailClosed
