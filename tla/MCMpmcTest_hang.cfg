SPECIFICATION MpmcSpec
CONSTANTS
  Producers = 2
  Consumers = 2
  ITEMS_EACH = 2
  QSZ = 2
  Queues = {"finished"}
PROPERTY CorrectnessDone
CHECK_DEADLOCK FALSE
