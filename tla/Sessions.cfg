SPECIFICATION SessionsSpec
CONSTANTS
  f1 = f1
  f2 = f2
  a1 = a1
  Field = Field
  Admin = Admin
  Camera = Camera
  e1 = e1
  Null = Null
  DevSocket = {f1, a1}
  User = {Field, Admin}
  FieldUser = {Field}
  Undivided = {Field}
  Device = {Camera}
  EndTask = {e1}
  MaxRow = 2
  MaxRestart = 0
  MaxFailure = 0
  UserOf <- MCUserOf
  w1 = w1
  p1 = p1
  s1 = s1
  s2 = s2
  Nil = Nil
  Monitored = {Camera}
  Session = {s1, s2}
  Watcher = {w1}
  Person = {p1}
  PersonOf <- MCWatcherPerson
  Ender = {e1}
  MaxObservers = 2
  MaxWork = 2
  MaxFault = 1
  u1 = u1
  u2 = u2
  d1 = d1
  ka1 = ka1
  Clerk = Clerk
  Tablet = Tablet
  None = None
  KioskSocket = {u1, u2, d1}
  MonitorSocket = {ka1}
  Kiosk = {Clerk, Tablet}
  AppClient = {Clerk}
  AppMonitor = {ka1}
  DbKiosk = {Tablet}
  ClientOf <- MCClientOf
  RegisterAs <- MCRegisterAs
INVARIANTS
  SingleLogin
  IndexSound
  GoneObserverForgotten
  RowsAccounted
PROPERTIES
  TransferredKioskKept
  RowEndedByItsFinder
  DeviceLockSpec
CHECK_DEADLOCK FALSE
