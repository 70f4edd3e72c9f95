SPECIFICATION MCSpec
CONSTANTS
  Calls = {1, 2}
  Instances = {i1, i2}
  Keys = {"PAYMENT_REFUNDED_GUEST", "MESSAGE_NEW"}
  LostAnswers = TRUE
  MaxAttempts = 2
  Batch = 1
CHECK_DEADLOCK FALSE
INVARIANTS
  OutboxInv
PROPERTIES
  FailedEmailIsRetried
