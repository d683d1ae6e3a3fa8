SPECIFICATION FairSpec
CONSTANTS
  Senders = {s, t}
  Cap = 2
  MaxSends = 4
PROPERTIES ImplementsFifo ClosingEnds SentIsReceived
CHECK_DEADLOCK FALSE
