\* 5 s units: a 60 s throttle and a scrape interval of 20 s.
CONSTANTS
  ThrottleDuration = 12
  Interval = 4
  Latencies = {1, 2, 3}
  MaxTime = 41
SPECIFICATION TimedSpec
INVARIANTS
  SustainedQuotaHalvesRate
