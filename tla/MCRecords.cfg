SPECIFICATION Spec
INVARIANTS RecordsAreKept ReplayIsFaithful
CHECK_DEADLOCK FALSE
