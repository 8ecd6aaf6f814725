\* Two messages for a consumer that runs two goroutines.
CONSTANTS
  m1 = m1
  m2 = m2
  c1 = c1
  Messages = {m1, m2}
  Consumers = {c1}
  Groups = {"g"}
  GroupOf <- GroupOfCalls
  To <- ToCalls
  Concurrency = 2
  MaxErrors = 1
  Nobody = Nobody
SPECIFICATION Spec
CHECK_DEADLOCK FALSE
INVARIANTS
  AckedWasHandled
