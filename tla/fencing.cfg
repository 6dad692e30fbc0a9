SPECIFICATION Spec
CONSTANTS
  Root = root
  Node = {root, n1, n2}
  NoNode = noNode
  RunScope = runScope
  reset = reset
  Tool <- MCTool1
  NoTool = noTool
  ControlCap = controlCap
  ProposeCap = proposeCap
  Operator = operator
  Proposal = {q1}
  NoProposal = noProposal
  CommandKey = {k1}
  ActionKey = {a1}
  RootCaps <- MCCapsPropose
  LeaseTTL = 1
  IntentTTL = 1
  MaxDepth = 2
  MaxChildren = 3
  MaxCommands = 2
  MaxActions = 1
  MaxCheckpoints = 0
  MaxWait = 0
  LastGrant = 1
  LastRenewal = 1
  Horizon = 1
SYMMETRY MCSymmetry
CHECK_DEADLOCK FALSE
CONSTRAINT MCProposalBound
INVARIANTS TypeOK ProposalUsedOnce NoStaleCommit FencesExactlySubtree AttributionExact CommitWithinDelegation
PROPERTIES TerminalRunFrozen ImplementsFence
