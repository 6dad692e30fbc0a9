SPECIFICATION DemoSpec
CONSTANTS
  Root = root
  Database = database
  Stale = stale
  Sibling = sibling
  Replacement = replacement
  Node = {root, database, stale, sibling, replacement}
  NoNode = noNode
  Nobody = nobody
  Task = {r1, r2}
  RunScope = runScope
  read_metrics = readMetrics
  restart_postgres = restartPostgres
  reset_redis_pool = resetRedisPool
  Tool = {readMetrics, restartPostgres, resetRedisPool}
  NoTool = noTool
  ControlCap = controlCap
  ProposeCap = proposeCap
  Operator = operator
  Proposal = {}
  NoProposal = noProposal
  correction_key = correctionKey
  closing_key = closingKey
  CommandKey = {correctionKey, closingKey}
  stale_key = staleKey
  recovery_key = recoveryKey
  ActionKey = {staleKey, recoveryKey}
  RootCaps = {controlCap, readMetrics, restartPostgres, resetRedisPool, proposeCap}
  LeaseTTL = 1
  IntentTTL = 1
  MaxDepth = 2
  MaxChildren = 4
  MaxCommands = 2
  MaxActions = 2
  MaxCheckpoints = 2
  MaxWait = 0
  LastGrant = 1
  LastRenewal = 3
  Horizon = 3
CHECK_DEADLOCK FALSE
INVARIANTS PhaseTruthful ForgottenManagerStops ChecksFailClosed
PROPERTIES HandlersEnd
