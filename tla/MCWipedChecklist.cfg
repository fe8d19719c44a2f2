SPECIFICATION Spec
CONSTANTS
  Routes = {"maintenance"}
  a = a
  b = b
  c = c
  q = q
  r = r
  u = u
  p1 = p1
  p2 = p2
  None = None
  MaxCalls = 2
  MaxTimers = 2
  MaxOrders = 2
  MaxPolls = 2
  MaxSends = 2
  Terms = {a, b}
  Suggest <- MCSuggest
  Blank = Blank
  MaxRecents = 2
  TourSteps = 2
  Targets = {0}
  Pages = {terms}
  Widgets = {w}
  MaxRefreshes = 1
  MaxSeeds = 2
  ImportEntities = {a}
  MaxRuns = 2
  Vault = {1, 2}
  PageSize = 1
  DocumentFilters = {"pending"}
  Files = {f, g}
  LastStage = 1
  MaxStored = 2
  Addressed = {a, b, c}
  Existing = {a, b}
  DocumentEntities = {e}
  LastPage = 2
  Chats = {}
  MaxTokens = 1
  Seeds = 1
  MaxSessions = 2
  Nodes = {a, b, c}
  Links <- MCLinks
  Found <- MCFound
  Hideable = {c}
  Items = {i}
  ProcedureSteps = {s}
  OrderFilters = {"Closed"}
  Orders = {o}
  Draft = Draft
  MaxEdits = 2
  MaxOthers = 0
  MaxVersion = 1
  Failures = {f}
  Actions = {a}
  Predictions = {r}
  PmJobs = {p1, p2}
  Dates = {1, 2}
  Proposed <- MCProposed
  Parts = {p, q}
  NewParts = {n}
  Counts = {1, 2}
  Assets = {a, b}
  Units = {u}
  UnitOf <- MCUnitOf
  Series = {s, t}
  MaxReadings = 1
  Gaps = {g1, g2}
  Drilled = {g1}
  Imports = {i}
  Packages = {p}
  Decisions = {"Confirmed"}
  RegulationFilters = {"Open"}
  MaxRemediations = 1
  Users = {u}
  Guests = {g}
  Roles = {r1, r2}
  Cells = {c}
  Capabilities = {k}
  Prompts = {p}
  Flags = {f}
  Jobs = {j}
  Codes = {o}
  Models = {1, 2}
  Texts = {3, 4}
  MaxRecords = 2
  Templates = {t1, t2}
  Reports = {r}
  Rules = {}
  NewRule = NewRule
  Values = {1, 2}
  Events = {e}
  Sessions = {s}
  MaxKeys = 2
  MaxHooks = 2
  MaxDeliveries = 2
INVARIANTS
  ChecklistKept
CHECK_DEADLOCK FALSE
