SPECIFICATION NFairSpec
CONSTANTS
  Local = {gw, ha}
  Remote = {hr}
  Gateway = gw
  Dns = ha
  CacheSize = 1
  RingSize = 1
  Long = {"pong"}
  Ports = 2
  MaxId = 2
  MaxNest = 2
INVARIANTS RightHop Noticed AnswersOwn
PROPERTY CommandsReturn
