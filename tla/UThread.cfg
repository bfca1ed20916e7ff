\* Up to four threads wanted, a table of three.  The process ends, hence no deadlock check.
CONSTANTS
  MAX_THREADS = 3
  MaxWanted = 4
  MaxRounds = 3
SPECIFICATION FairSpec
INVARIANTS TypeOK RoundRobin
PROPERTIES RunsOnce EveryThreadRuns
CHECK_DEADLOCK FALSE
