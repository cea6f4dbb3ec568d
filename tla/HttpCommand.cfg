SPECIFICATION FairSpec
CONSTANTS
  home = home
  other = other
  None = None
  Profiles <- MCProfiles
  Sites = {home, other}
  Home = home
  Builds <- MCBuilds
  Timeout = 2
  HostsTimeout = 1
  MaxRedirects = 2
  Attempts = 4
  InitialBackoff = 1
  MaxBackoff = 3
  ShiftBits = 2
  MaxDuration = 3
CHECK_DEADLOCK FALSE
INVARIANT StaysHome
INVARIANT OkMeansDone
INVARIANT EffectOnce
INVARIANT TimesAreKept
PROPERTY CommandEnds
