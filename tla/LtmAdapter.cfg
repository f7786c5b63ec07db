SPECIFICATION AdapterFairSpec
CONSTANTS
  Callers = {search, boost}
  Replaying = {search}
  Warm = Warm
  Nobody = Nobody
  MaxGen = 3
  MaxQueue = 2
  MaxFailures = 1
  MaxDeaths = 1
INVARIANT AdapterIsSound
PROPERTIES HealthySessionKept AdapterAnswers
