SPECIFICATION JobsSpec
CONSTANTS
  Posts = {r1, r2}
  web = web
  db = db
  solo = solo
  stack = stack
  Containers = {web, db, solo}
  Stacks = {stack}
  StackOf <- MCStackOf
  r1 = r1
  r2 = r2
  Wants <- MCWants
  Stopped = {db}
  Clients = {c1}
  Nil = Nil
  QueueCap = 1
  ChanCap = 1
  MaxBoots = 1
INVARIANTS
  JobsInv
  TablesAreTrue
  StreamIsExact
CHECK_DEADLOCK FALSE
