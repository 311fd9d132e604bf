SPECIFICATION SpecFiles
CONSTANTS
  p1 = p1
  p2 = p2
  NoProcess = NoProcess
  f = f
  g = g
  Nowhere = Nowhere
  Procs = {p1, p2}
  NoProc = NoProcess
  MaxCrashes = 2
  MaxErrors = 1
  Users = {p1, p2}
  NoUser = NoProcess
  Absent = Nowhere
  MaxWrites = 2
  MaxKills = 1
  Handles = {p1, p2}
  Names = {f, g}
  Records <- SomeRecords
  Policies <- TwoPolicies
  Nobody = NoProcess
  Nothing = Nowhere
  MaxHistory = 2
  MaxFaults = 1
  Hosts = {p1, p2}
  Conversations = {"u", "v"}
  Titles = {"s", "t"}
  Ids = {f, g}
  Blobs = {"x", "y"}
  NoWriter = NoProcess
  NoRow = Nowhere
  MaxUploadFaults = 2
SYMMETRY Interchangeable
CHECK_DEADLOCK FALSE
INVARIANTS
  
  WorkspaceKept
  RegistrySound
  AttachmentsSound
PROPERTIES
  UseUndisturbed
