CONSTANTS
  Inputs <- MCInputs
  NModel = 3
SPECIFICATION Spec
INVARIANTS WrittenIsAverage AcceptancesAreCounted NoCloneAhead WorkersAgreeOnModel CollectivesMatch
PROPERTY EveryRankFinishes
