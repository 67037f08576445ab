SPECIFICATION Spec
CONSTANTS
  d1 = d1
  u1 = u1
  u2 = u2
  m1 = m1
  a1 = a1
  Clerk = Clerk
  Device = Device
  None = None
  KioskSocket = {u1}
  MonitorSocket = {m1}
  Kiosk = {Clerk, Device}
  AppClient = {Clerk}
  AppMonitor = {}
  DbKiosk = {Device}
  ClientOf <- MCClientOf
  RegisterAs <- MCRegisterAs
PROPERTIES
  DisconnectTakesKioskOffline
CHECK_DEADLOCK FALSE
