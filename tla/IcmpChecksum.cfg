CONSTANT Values = {0, 255, 32768, 65535}
SPECIFICATION Spec
CHECK_DEADLOCK FALSE
INVARIANT RepliesPass
