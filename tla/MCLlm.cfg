SPECIFICATION FairStackSpec
CONSTANTS
  Callers = {a, b}
  FailureThreshold = 2
  Cooldown = 2
  ErrorsOn = {"plain"}
  MaxAttempts = 2
  Permits = 2
  TokenCost = 3
  Earned = 2
INVARIANTS ProbeIsOut RejectionHasCause FailuresCounted NoOversleep
PROPERTIES RateKept CircuitSettles TokensFlow
