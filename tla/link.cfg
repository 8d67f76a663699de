SPECIFICATION Spec
CONSTANTS
  QueueLength = 2
  MaxChanges = 3
INVARIANTS InterfaceAsReported
PROPERTIES NetifFollowsLink
