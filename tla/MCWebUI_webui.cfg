SPECIFICATION WebSpec
CONSTANTS
  o1 = o1
  o2 = o2
  p1 = p1
  p2 = p2
  s0 = s0
  s1 = s1
  s2 = s2
  Org = {o1, o2}
  Project = {p1, p2}
  Nothing = Nothing
  Entry = {1, 2, 3, 4, 5}
  Key <- Identity
  Descending = TRUE
  Count = 2
  Url = {"", "a", "b"}
  ValidUrl = {"a", "b"}
  Example = {"b"}
  Kind <- UrlKind
  BlankUrl = ""
  MaxCalls = 3
  RetryCount = 2
  MaxSelects = 4
  Setting = {s0, s1, s2}
  Invalid = {}
  Unusable = {s0}
  Blank = s0
  NoRevision = NoRevision
  Stored <- InitialSettings
  MaxWrites = 1
  OrgOf <- OneOrg
  Tab = {"project", "check"}
  MaxClicks = 2
  MaxForms = 2
  MaxChanges = 1
  Domain = {"", "a"}
  BadDomain = {}
  NoDomain = ""
  MaxSaves = 2
  MaxOpens = 2
  Person = {me, you}
  Self = me
  MaxDialogs = 2
  MaxRoutes = 1
  PageSize = {1, 2}
  DefaultSize = 1
  Filter = {Nothing, s}
  Total <- RowTotals
  MaxPage = 3
  MaxInputs = 4
  Version = {1, 2}
  VersionsOf <- ProjectVersions
  Period = {"day", "week"}
  LastDay = "day"
  Tools <- ProjectTools
  MaxLooks = 4
INVARIANTS
  NothingSkipped
  VerdictTrue AuthOnlyIfOpen
  VerdictOfSelected
  SavesToItsProject ShowsStored
  DeletedGone CreatedSelected CreatedOrgKnown
  FormShowsStored
  ListTruthful
  RowsAnswerQuery PagesContiguous
  ShownBelongs AllArgumentsShown
  ThemeApplied
PROPERTIES
  ValidationEnds CheckEnds CatchesUp FormOpens NavigationEnds OrgFormEnds
  OneSettingAtATime
CHECK_DEADLOCK FALSE
