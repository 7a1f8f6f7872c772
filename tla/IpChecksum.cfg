CONSTANT Values = {0, 255, 14511, 32768, 65535}
SPECIFICATION Spec
CHECK_DEADLOCK FALSE
INVARIANTS
  TypeOK
  GoodHeadersPass
  SpoiledHeadersFail
