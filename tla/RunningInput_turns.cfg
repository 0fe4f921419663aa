\* Order, insert requests and progress of the queue while runs and loops come and go.
SPECIFICATION QFairSpec
CONSTANTS
  Runs = {r1, r2, r3}
  Keys = {k1}
  Env = {"loop"}
  None = None
  MaxItems = 2
INVARIANTS QueueIsOrderly
PROPERTY QueueIsServed
CHECK_DEADLOCK FALSE
