\* Clients that behave: whole requests, no hanging up while waiting.
SPECIFICATION FairSpec
CONSTANTS
  Clients = {c1, c2}
  NoClient = NoClient
  Requests <- BrowserRequests
  FdMax = 3
  Backlog = 2
  RS_MAX_ROWS = 2
  MaxLines = 3
  Segmented = FALSE
  Hangups = FALSE

  
PROPERTIES
  QueueServed
