SPECIFICATION Spec
CONSTANTS
  a = a  b = b  c = c  e1 = e1  e2 = e2  m1 = m1  m2 = m2
  Idle = Idle  NULL = NULL  RESERVED = RESERVED
  Tasks = {a, b, c}
  Prios = {0, 1, 2, 3, 4}
  IdlePrio = 5
  Events = {e1, e2}
  Messages = {m1, m2}
  QSize = 2
  MaxCnt = 2
  Flags = {1, 2}
  Pip = {0, 1}
  MaxDly = 1
  MaxLock = 1
  Base <- MCBase
  Apps <- MCApps
  Wants <- MCWants
  Changes <- MCChanges
INVARIANTS TypeOK TablesAgree WaitListsAgree MostUrgentRuns NoneWaitsInVain OwnerIsUrgent MutualExclusion PrioTableAgrees
PROPERTY ImplementsEventService
SYMMETRY MCSymmetry
