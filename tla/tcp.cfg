SPECIFICATION Spec
CONSTANTS
  MEMP_NUM_NETCONN = 2
  Conn = {c1, c2}
  CountValues = 8
  MaxNetifChanges = 4
INVARIANTS ParserOfOneConnection
PROPERTIES ListenerClosedByCallbackOnly
\* A server whose interface stays as it is and whose clients are gone sleeps.
CHECK_DEADLOCK FALSE
