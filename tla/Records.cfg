SPECIFICATION RecordsSpec
CONSTANTS
  r1 = r1
  r2 = r2
  x1 = x1
  x2 = x2
  x3 = x3
  x4 = x4
  x5 = x5
  c1 = c1
  c2 = c2
  h1 = h1
  h2 = h2
  d1 = d1
  d2 = d2
  l1 = l1
  l2 = l2
  l3 = l3
  a1 = a1
  a2 = a2
  f1 = f1
  f2 = f2
  q1 = q1
  q2 = q2
  Run = {r1, r2}
  Command = {x1, x2, x3, x4, x5}
  Cooldown = 2
  Hour = 4
  Limit = 2
  MaxRunAge = 1
  MaxFailure = 1
  None = None
  Cmd = {c1, c2}
  Handler = {h1, h2}
  MaxHanded = 3
  NoCmd = NoCmd
  Division = {d1, d2}
  Lobby = {l1, l2, l3}
  DivisionOf <- MCDivisionOf
  AdminRequest = {a1, a2}
  Keep = Keep
  UserRequest = {a1, a2}
  Original = Original
  Nobody = Nobody
  Form = {f1, f2}
  Question = {q1, q2}
  FormOf <- MCFormOf
  FormRequest = {a1, a2}
  PoolSize = 2
  PublicAttempt = {a1, a2}
  Key = {k1, k2}
  Respondent = {w1, w2}
  Duty = {on, off}
  PublicForm = {f1, f2}
  NoForm = NoForm
  Item = {q1, q2}
  FormOfItem <- MCFormOfItem
  Label = {k1}
  NoLabel = NoLabel
  Choice <- MCChoice
  Entry = {e1, e2}
  RegisterRequest = {a1, a2}
  First = First
  s1 = s1
  s2 = s2
  s3 = s3
  e1 = e1
  e2 = e2
  u1 = u1
  u2 = u2
  v1 = v1
  Fill = {s1, s2, s3}
  Crew = {u1}
  FillerOf <- MCFillerOf
  Asking = {q1, q2}
  SheetOf <- MCFormOfItem
  Prompt = {k1, k2}
  ExportCap = 1
  FleetDevice = {v1}
  FleetLobby = {l1, l2, l3}
  LobbyDivision <- MCDivisionOf
  LogEntry = {x1, x2, x3}
  LoggedOf <- MCLoggedOf
  HealCommand = {c1, c2}
  HealedOf <- MCHealedOf
  Assigned = {l2, l3}
  Gone = Gone
  PageLimit = 1
  MaxPage = 2
  Rank <- MCRank
INVARIANTS
  CommandsBounded
  LinkUsedOnce
  PicturesKept
  DeviceLinked
  SubmissionFits
  MappingsOfOneRequest
  ListedEntryShows
  ReportsBracketed
  ExportShows
  PagesCover
PROPERTIES
  SubmitOnceSpec
  RecoveryPaced
  CommandHandedOut
  SettledStays
  DecisionStands
  FormStaysPublished
  SubmitSettles
CHECK_DEADLOCK FALSE
