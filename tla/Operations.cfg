SPECIFICATION Spec
CONSTANTS
  Backends = {"serial", "usb"}
  Programmers <- MCProgrammers
  MaxLate = 2
  boot_img = boot_img
  gpt_img = gpt_img
  Images = {boot_img, gpt_img}
  Places = {"gpt", "data", "end"}
  Disks <- MCDisks
  Plans <- MCPlans
  Totals = {0, 2, 3}
  MaxCount = 4
  Chunk = 2
  MaxLen = 6
  BlockSizes = {4, 6}
  Blocks = {0, 1, 2}
  MaxChunks = 2
  FileNames <- MCFileNames
  MaxFiles = 3
  SectorSize = 2
  ReadSectors = 3
  AddressSpace = 16
  Entries <- MCEntries
  Tables <- MCTables
  d1 = d1
  d2 = d2
  Devices = {d1, d2}
  Paths = {1, 2}
  MaxSeen = 2
  Normal <- MCNormal
  InName <- MCInName
  Uses <- MCUses
  Binaries <- MCBinaries
  RootMin = 2
  RootMax = 3
  Segments <- MCSegments
  FileKinds <- MCFileKinds
  NameIds <- MCNameIds
  Msm <- MCMsm
  Soc <- MCSoc
  Shells = {1}
  Logcats = {2}
  Parts = {1, 2}
  Requests <- MCRequests
  DiskSize = 8
  BlockSize = 3
  Lengths = {0, 1, 2, 3, 4, 5, 6, 7}
  MaxBlock = 3
  FirmwareSizes = {0, 1, 2, 3, 4, 5}
  MaxDownload = 3
  MaxFirmware = 4
  MaxUnread = 2
INVARIANTS TypeOK IdentifyExact FlashReported VerifyExact SparseExact OneSetPerLun GptExact ProgrammersRight IdentityExact SessionsAreReaders TransfersSafe BlockExact FirmwareWhole
PROPERTIES SerialIdentifyReturns ReporterEnds ReadersEnd
CHECK_DEADLOCK FALSE
