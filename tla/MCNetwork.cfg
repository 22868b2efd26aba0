SPECIFICATION Spec
CONSTANTS
  Callers = {c1, c2}
  Rate = 1
  Unit = 2
  Burst = 1
  MaxAttempts = 2
  MaxDelay = 1
  MaxCalls = 1
  Window = 5
  Addresses = {a1}
  Passwords = {w1, w2}
  MaxFailures = 2
  Lockout = 3
  SessionLife = 3
  QueueSize = 2
  MaxVersion = 2
  MaxSequence = 4
  MaxBreaks = 2
INVARIANTS
  NeverAboveTheRate
  GuessesAreBounded
  TheCookieIsTheSession
  QuietBoardIsCurrentUnlessBlind
PROPERTIES
  CallsEnd
  AnnouncedIsShown
  SilenceIsReported
CHECK_DEADLOCK FALSE
