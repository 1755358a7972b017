\* Every stage of an exchange.
SPECIFICATION ExchangeSpec
CONSTANTS
  Shapes <- SmallShapes
  MaxRequests = 2
  LINE_BUF = 7
  STACK = 8
  METHOD_SIZE = 2
  PATH_SIZE = 2
  VERSION_SIZE = 3
  Stages = {"line", "request", "form", "token", "page"}
  Typed <- SomeTyped
  SchemaSize <- TheSchemaSize
  LoginSize <- TheLoginSize
  DtoSize <- TheDtoSize
  UserSize <- TheUserSize
  ReadSize <- TheReadSize
  Leftovers <- SomeLeftovers
  MAX_PARAMS = 4
  Keys = {"username", "total_balance", "main_account"}
  Templates <- SmallTemplates
  Values <- SmallValues
  Slack = 3
  BODY_LEN = 13
  Blocks <- SmallBlocks
  BodyLengths = {0, 1, 5, 12, 13}
  LongKeys = {"X-Long"}
  FieldItems = 6
  MAX_HEADERS = 2
  CookieAlloc = 3
  CookiesLeft = 1
  REQ_BODY_LEN = 13
  Bytes <- MixedBytes
  Chars = {0, 64, 65, 67}
  MaxBytes = 5
  MaxChars = 8
INVARIANTS MethodAndPath HeadersFound BodyWhole FormKept RendersPrefix RoundTrip DecodeFits
PROPERTIES RenderEnds
\* Every stage comes to its end.
CHECK_DEADLOCK FALSE
