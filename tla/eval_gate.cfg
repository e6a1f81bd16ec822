\* One answerable case and one that must be refused, any number of invocations.
SPECIFICATION Spec
CONSTANTS
  Cases = {c, r}
  Refusals = {r}
  Anchored = {c}
  Sourced = {c}
  Termed = {c}
  Hits <- SomeHits
  NoBaseline = NoBaseline
INVARIANTS MissesNothing FailsWithReason
CHECK_DEADLOCK FALSE
