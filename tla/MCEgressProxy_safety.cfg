SPECIFICATION FairSpec
CONSTANTS
  c1 = c1   api = api  apiDot = apiDot  web = web  old = old  evil = evil  p443 = p443  p80 = p80
  AnyPort = AnyPort  NoPort = NoPort  BadPort = BadPort  Nowhere = Nowhere
  Conns <- OneConn
  Names <- TheNames
  Normal <- TheNormal
  Ports <- ThePorts
  Https = p443
  Http = p80
  Allow <- TheAllow
  MaxChunks = 2
INVARIANTS DialIsLogged EofIsHonest
PROPERTY TunnelEnds
CHECK_DEADLOCK FALSE
