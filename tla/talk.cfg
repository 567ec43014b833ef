SPECIFICATION FairSpec
CONSTANTS
  Requests <- SomeRequests
  MAXLINE = 5
  RIO_BUFSIZE = 2
  SendBuffer = 4
CHECK_DEADLOCK FALSE
INVARIANTS TypeOK StreamExact LinesWhole HeadersEndAtBlankLine WholeAnswer
PROPERTY ConversationEnds
