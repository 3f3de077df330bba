SPECIFICATION Spec
CONSTANTS
  Open = 2
  Start = 2
  Times = 2
  Repeats = 2
  MaxSends = 5
  MaxLate = 2
  MQTT_RING_BUFFER_LEN = 6
  Word = 16
  TextStart = 4
  Lens = {1, 2}
  MaxChunk = 6
  MaxBytes = 8
  MaxGot = 9
  RXBUFFERSIZE = 6
  LINE = 2
  Gap = 1
  MaxRx = 9
  ListNode = {n1, n2, n3}
  NIL = NIL
  Half = 8
  MaxMs = 4
  MaxElapsed = 6
  Base = 128
  Word16 = 65536
  Lengths <- Edges
CHECK_DEADLOCK FALSE
INVARIANTS
  TypeOK
  AnswersCorrect
  RingCorrect
  LinesCorrect
  WalksCorrect
  ExpiredOnTime
  LengthsCorrect
  SessionCorrect
PROPERTIES
  ReadInOrder
  AtReturns
  ListIsSequence
  LeftIsLeft
