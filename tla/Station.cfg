SPECIFICATION StationSpec
CONSTANTS
  t1 = t1
  t2 = t2
  m1 = m1
  a1 = a1
  Terminal = Terminal
  None = None
  KioskSocket = {t1, t2}
  MonitorSocket = {m1, a1}
  Kiosk = {Terminal}
  AppClient = {}
  AppMonitor = {a1}
  DbKiosk = {}
  MaxTimers = 2
  ClientOf <- MCClientOf
  RegisterAs <- MCRegisterAs
  f1 = f1
  Field = Field
  Camera = Camera
  e1 = e1
  Null = Null
  DevSocket = {f1}
  User = {Field}
  FieldUser = {Field}
  Undivided = {Field}
  Device = {Camera}
  EndTask = {e1}
  MaxRow = 2
  MaxRestart = 2
  MaxFailure = 2
  UserOf <- MCUserOf
INVARIANTS
  SessionsAttended
  FieldRowAttended
PROPERTIES
  LostConnectionsCleaned
  LockSpec
  EndedSettles
  RestartRecovers
CHECK_DEADLOCK FALSE
