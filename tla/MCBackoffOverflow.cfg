\* 30 attempts: with the default delay the product of the last one no longer
\* fits into a time.Duration.
SPECIFICATION BackoffSpec
CONSTANTS
  Bases = {1}
  Cap = 10
  MaxDuration <- MCMaxDuration
  MaxFactor = 536870912
INVARIANT DelayInRange
