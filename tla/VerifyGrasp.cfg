SPECIFICATION Spec
CHECK_DEADLOCK FALSE
INVARIANTS
  DecisionRestsOnFreshObservation
  AbsorbedFailureHidesNoHolder
  ReleasedMeansEmpty
PROPERTY DeadlineOnlyDecides
