SPECIFICATION FramingSpec
CONSTANTS
  MaxCode = 3
  MaxLen = 6
  Messages <- AllMessages
  MaxMessage = 4
  BufSize = 7
  MaxFrame <- LongThenShort
  MaxSent = 3
  MaxLost = 2
  Crc <- ToyCrc
  HostFrames <- LegalFrames
  Bodies <- SomeBodies
  FirstErrors <- AllFirst
  SecondErrors <- AllSecond
CHECK_DEADLOCK FALSE
INVARIANTS EncoderFits EncoderSound BufferKept 
PROPERTY DecoderSound
