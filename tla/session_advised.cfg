\* Customers who choose a password the way the registration page asks.
SPECIFICATION Spec
CONSTANTS
  Browsers = {b1}
  Cpfs = {x, y}
  Passwords <- Advised
  Names <- PlainNames
  NoCpf = NoCpf
  JwtExp = 1
  CookieAge = 2
  MaxUsers = 2
  MaxClock = 2
INVARIANTS
  AdvisedPasswordWorks
