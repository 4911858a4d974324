SPECIFICATION FairSpec
CONSTANTS
  q1 = q1
  q2 = q2
  Worker = Worker
  None = None
  Abilities <- Names
  Requests = {q1, q2}
  Costs <- TwoCosts
  Deliveries <- TwoPoints
  Instances <- Characters
INVARIANTS StoredIsRight PrerequisitesHeld NothingAffordable
PROPERTIES BuysWithinPoints CatchesUp
CHECK_DEADLOCK FALSE
