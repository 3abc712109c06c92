SPECIFICATION MCSpec
CONSTANTS
  Parts = {"matrix", "files", "domains", "disk", "queue", "console"}
  Task = {t1, t2}
  Domain = {0, 1}
  Object = {"mine", "free"}
  Right = {"read", "owner", "control", "copy"}
  Owner = "owner"
  Control = "control"
  Copy = "copy"
  RoleRights <- TestRoles
  InitAcl <- TestAcl
  Password = {"test", "guess"}
  Secret <- TestSecrets
  Proc <- TwoProcs
  Value = {0, 1}
  None = None
  Path <- Paths
  Entry <- Entries
  EntryOf <- Folded
  DirOf <- Dirs
  Uid <- TwoUids
  Modes = {47}
  Uses <- AllUses
  MaxFds = 2
  MaxSize = 2
  NumKeys = 2
  Setting = {0, 1}
  Absent = Absent
  MaxRecords = 3
  Faults = {"read", "write"}
  NumSectors = 2
  SectorSize = 2
  Byte = {0, 1}
  Zero = 0
  MaxLen = 4
  MaxLba = 2
  MaxCount = 2
  MaxBatch = 3
  Char = {"a", "b", "nl"}
  Newline = "nl"
  KeyUp = "up"
  RingSize = 3
  LineSize = 2
  ReadLens = {1, 3}
  MaxKeys = 4
CHECK_DEADLOCK FALSE
INVARIANTS RightsAreConserved   DiskSound QueueSound KeysSound
  
