SPECIFICATION StreamSpec
CONSTANTS
  s1 = s1
  s2 = s2
  v1 = v1
  v2 = v2
  Watcher = Watcher
  Agent = Agent
  Idle = Idle
  Api = Api
  None = None
  Session = {s1}
  Viewer = {v1, v2}
  User = {Watcher}
  Device = {Agent}
  MaxClosing = 1
  MaxFault = 1
  UserOf <- MCUserOf
INVARIANTS
  LostViewerStreamClosing
PROPERTIES
  AbandonedStreamCloses
CHECK_DEADLOCK FALSE
