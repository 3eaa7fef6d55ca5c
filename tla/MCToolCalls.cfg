SPECIFICATION Spec
CONSTANTS
  Texts <- AllTexts
  Long <- LongTexts
  Overlaps <- Contained
  OtherCalls <- Reads
  Threshold = 3
  MaxTracked = 2
  MaxCalls = 5
INVARIANTS
  NoDoomLoop
  NoRepeatedSend
  NoRepeatedAnswer
  RefusalsExplained
