SPECIFICATION PipeSpec
CONSTANTS
  m0 = m0
  m1 = m1
  m2 = m2
  Msg <- MCMsg
  s_payload_len <- MCPayloadLen
  HeaderLen = 2
  MAX_PAYLOAD_LEN = 3
  Capacity = 8
  EMPTY = EMPTY
  GARBLED = GARBLED
INVARIANTS
  PipeTypeOK
PROPERTIES
  QueueSpec
