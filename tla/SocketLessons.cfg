CONSTANTS
  Clients = {c1, c2}
  Lessons = {"chat", "basic", "threads"}
  MaxParts = 4
SPECIFICATION Spec
INVARIANTS TurnsNeverDeadlock ServerEndsByBrokenChat
PROPERTIES ClientAnswered
CHECK_DEADLOCK FALSE
