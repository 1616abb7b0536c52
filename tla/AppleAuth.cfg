SPECIFICATION Spec
CONSTANTS
  i1 = i1
  i2 = i2
  r1 = r1
  r2 = r2
  l1 = l1
  l2 = l2
  Saved = Saved
  None = None
  Install <- MCInstall
  Refresh <- MCRefresh
  List <- MCList
INVARIANTS PromptStaysCurrent CheckingWhileWorking
PROPERTIES Implements EveryRequestAnswered ButtonSettles
