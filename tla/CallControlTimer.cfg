SPECIFICATION CallSpec
CONSTANTS
  t1 = t1
  t2 = t2
  m1 = m1
  a1 = a1
  Terminal = Terminal
  None = None
  KioskSocket = {t1}
  MonitorSocket = {m1}
  Kiosk = {Terminal}
  AppClient = {}
  AppMonitor = {}
  DbKiosk = {}
  MaxTimers = 2
  ClientOf <- MCClientOf
  RegisterAs <- MCRegisterAs
PROPERTIES
  TimerSparesNewCall
CHECK_DEADLOCK FALSE
