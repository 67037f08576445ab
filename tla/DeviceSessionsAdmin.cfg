SPECIFICATION DevSpec
CONSTANTS
  f1 = f1
  f2 = f2
  a1 = a1
  Field = Field
  Admin = Admin
  Camera = Camera
  e1 = e1
  Null = Null
  DevSocket = {a1}
  User = {Field, Admin}
  FieldUser = {Field}
  Undivided = {Field}
  Device = {Camera}
  EndTask = {e1}
  MaxRow = 1
  MaxRestart = 0
  MaxFailure = 0
  UserOf <- MCUserOf
INVARIANTS
  EveryRowAttended
CHECK_DEADLOCK FALSE
