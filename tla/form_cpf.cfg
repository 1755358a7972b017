\* A cpf as the page shows it.
SPECIFICATION ExchangeSpec
CONSTANTS
  Shapes = {}
  MaxRequests = 2
  LINE_BUF = 7
  STACK = 8
  METHOD_SIZE = 2
  PATH_SIZE = 2
  VERSION_SIZE = 3
  Stages = {"form"}
  Typed <- MaskedTyped
  SchemaSize <- TheSchemaSize
  LoginSize <- TheLoginSize
  DtoSize <- TheDtoSize
  UserSize <- TheUserSize
  ReadSize <- TheReadSize
  Leftovers <- SomeLeftovers
  MAX_PARAMS = 4
  Keys = {}
  Templates = {}
  Values = {}
  Slack = 3
  BODY_LEN = 13
  Blocks = {}
  BodyLengths = {}
  LongKeys = {"X-Long"}
  FieldItems = 6
  MAX_HEADERS = 2
  CookieAlloc = 3
  CookiesLeft = 1
  REQ_BODY_LEN = 13
  Bytes = {}
  Chars = {}
  MaxBytes = 5
  MaxChars = 8
INVARIANTS CpfKept
\* The user has been read back.
CHECK_DEADLOCK FALSE
