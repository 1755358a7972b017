\* The cookie outlives the token by one tick, and the clock runs past both;
\* browsers that follow redirects.
SPECIFICATION FairSpec
CONSTANTS
  Browsers = {b1, b2}
  Cpfs = {x, y}
  Passwords <- OneShortOneLong
  Names <- AllNames
  NoCpf = NoCpf
  JwtExp = 1
  CookieAge = 2
  MaxUsers = 2
  MaxClock = 3
INVARIANTS
  ShowsOwn
  OwnCredentialsWork
PROPERTIES
  ExpiredTokenShowsNothing
  Settles
