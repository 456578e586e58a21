SPECIFICATION Spec
CONSTANTS
  Statuses = {"OK", "INPROGRESS"}
  MaxCalls = 6
PROPERTY HeldUntilReleased
CHECK_DEADLOCK FALSE
