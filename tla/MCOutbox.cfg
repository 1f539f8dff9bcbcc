SPECIFICATION OutboxSpec
CONSTANTS
  Senders = {t1, t2}
  MaxAmount = 2
  MaxQueued = 2
  MaxAttempts = 2
INVARIANT ChangeIsQueued
CHECK_DEADLOCK FALSE
