SPECIFICATION FairSpec
CONSTANTS
  States = {s0, s1}
  IdleState = s0
  Details = {d1, d2}
  NoDetail = nodetail
  Period = 1
  MaxQueue = 2
  MaxDecisions = 2
  MaxFaults = 1
INVARIANTS
  Safety
PROPERTIES
  EventLogIsChain
  TerminalSeesLastJudgment
