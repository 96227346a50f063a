SPECIFICATION Spec
CONSTANTS
  Null = Null
  Bot = Bot
  inner_as_json <- message_as_json
  inner_from_json <- message_from_json
  quoted_from_json <- sent_message_from_json
  InnerReadable <- Readable
  InnerDecoded <- DecodedChain
  InnerReading <- Reading
  Frames <- MCFrames
  Expected <- MCExpected
  Stored <- MCStored
  Lists <- MCLists
  Extra <- MCExtra
  MaxLength = 4
  Alphabet <- MCAlphabet
  Nested <- MCNested
  Depth <- MCDepth
INVARIANTS TypeOK EventsUnderstood Repeated 
PROPERTY LossReported
CHECK_DEADLOCK FALSE
