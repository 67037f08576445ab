SPECIFICATION StreamSpec
CONSTANTS
  s1 = s1
  s2 = s2
  v1 = v1
  v2 = v2
  Watcher = Watcher
  Agent = Agent
  Idle = Idle
  Api = Api
  None = None
  Session = {s1, s2}
  Viewer = {v1, v2}
  User = {Watcher}
  Device = {Agent}
  MaxClosing = 0
  MaxFault = 0
  UserOf <- MCUserOf
INVARIANTS
  OneOpenStream
CHECK_DEADLOCK FALSE
