---------------------------- MODULE MCOperations -----------------------------
(***************************************************************************)
(* One TLC run for the operations that keep to themselves: `subject` says    *)
(* which module a behaviour is one of, and the variables of the others stay  *)
(* in their initial states.  The modules do not interact: what they share,   *)
(* the transports and is_flashing, is in UsbConnCache and EdlSession.        *)
(***************************************************************************)
EXTENDS MCInstances

CONSTANTS
  Backends, Programmers, MaxLate,                                        \* EdlIdentify
  Images, Places, Disks, Plans,                       \* EdlFlash
  Totals, MaxCount,                                                      \* EdlTransfer
  Chunk, MaxLen,                                                         \* EdlVerify
  BlockSizes, Blocks, MaxChunks,                                         \* EdlSparse
  FileNames, MaxFiles,                                                   \* EdlManifest
  SectorSize, ReadSectors, AddressSpace, Entries, Tables,                     \* EdlGpt
  Devices, Normal, InName, Uses, Binaries, MaxSeen,  \* EdlProgrammers
  RootMin, RootMax, Segments, FileKinds, NameIds, Msm, Soc,              \* EdlMbn
  Shells, Logcats,                                                       \* ShellSessions
  Parts, Requests, DiskSize,                                             \* AdbDump
  BlockSize, Lengths, MaxBlock,                                          \* AdbSideload
  FirmwareSizes, MaxDownload, MaxFirmware, MaxUnread                                \* FastbootFlash

VARIABLES
  subject,
  mode, prog, authed, inbox, pc, backend, stale, retry, field, got, active, reads, cfg, info, late,
  plan, flashing, nset, nop, disk, storage, temps, report, outcome, written,
  task, total, count, done, reporter, last, shown,
  source, target, head, tail, verdict,
  chunks, blockSize, file, offset, toGo, image, expansion,
  dir, looked, sets, discovery,
  table, row, parts, listing,
  entries, loaded, missed, dbFile, kept, programmers, seen,
  idCache, scanCache, scanning, ranking, parsed, crossed, wanted,
  programmer, segment, cells, name, identity, parsing,
  carrier, registered, shut, reader, process, audience, map, writing, closing, stopping, bus, current,
  job, stage, at, request, features, streamed, present, complete, pushed, armed, files, partition, result, doubtful,
  serving, length, reply,
  flash, firmware, sent, announced, phone, missing, buffer, answers, flashed, told, behind

Identify == INSTANCE EdlIdentify
Flash == INSTANCE EdlFlash
Transfer == INSTANCE EdlTransfer
Verify == INSTANCE EdlVerify
Sparse == INSTANCE EdlSparse
Manifest == INSTANCE EdlManifest
Gpt == INSTANCE EdlGpt
Programmer == INSTANCE EdlProgrammers
Mbn == INSTANCE EdlMbn
Shell == INSTANCE ShellSessions
Dump == INSTANCE AdbDump
Sideload == INSTANCE AdbSideload
Fastboot == INSTANCE FastbootFlash

ASSUME OperationsAssumption ==
  /\ Identify!IdentifyAssumption /\ Flash!FlashAssumption /\ Transfer!TransferAssumption
  /\ Verify!VerifyAssumption /\ Sparse!SparseAssumption /\ Manifest!ManifestAssumption
  /\ Gpt!GptAssumption /\ Programmer!ProgrammersAssumption /\ Mbn!MbnAssumption
  /\ Dump!DumpAssumption /\ Sideload!SideloadAssumption /\ Fastboot!FastbootAssumption

identifyVars == <<mode, prog, authed, inbox, pc, backend, stale, retry, field, got, active, reads, cfg, info, late>>
flashVars == <<plan, flashing, nset, nop, disk, storage, temps, report, outcome, written>>
transferVars == <<task, total, count, done, reporter, last, shown>>
verifyVars == <<source, target, head, tail, verdict>>
sparseVars == <<chunks, blockSize, file, offset, toGo, image, expansion>>
manifestVars == <<dir, looked, sets, discovery>>
gptVars == <<table, row, parts, listing>>
programmerVars ==
  <<entries, loaded, missed, dbFile, kept, programmers, seen,
    idCache, scanCache, scanning, ranking, parsed, crossed, wanted>>
mbnVars == <<programmer, segment, cells, name, identity, parsing>>
shellVars ==
  <<carrier, registered, shut, reader, process, audience, map, writing, closing, stopping, bus, current>>
dumpVars == <<job, stage, at, request, features, streamed, present, complete, pushed, armed, files, partition, result, doubtful>>
sideloadVars == <<serving, length, reply>>
fastbootVars == <<flash, firmware, sent, announced, phone, missing, buffer, answers, flashed, told, behind>>
operationVars ==
  <<subject, identifyVars, flashVars, transferVars, verifyVars, sparseVars,
    manifestVars, gptVars, programmerVars, mbnVars,
    shellVars, dumpVars, sideloadVars, fastbootVars>>

Subjects == {"identify", "flash", "transfer", "verify", "sparse", "manifest", "gpt", "programmers", "mbn",
             "shell", "dump", "sideload", "fastboot"}
Init ==
  /\ subject \in Subjects
  /\ Identify!Init /\ Flash!Init /\ Transfer!Init /\ Verify!Init /\ Sparse!Init
  /\ Manifest!Init /\ Gpt!Init /\ Programmer!Init /\ Mbn!Init /\ Shell!Init
  /\ Dump!Init /\ Sideload!Init /\ Fastboot!Init
  /\ subject = "identify" \/ backend = "serial"

Only(x) ==
  /\ subject = x /\ UNCHANGED subject
  /\ IF x = "identify" THEN TRUE ELSE UNCHANGED identifyVars
  /\ IF x = "flash" THEN TRUE ELSE UNCHANGED flashVars
  /\ IF x = "transfer" THEN TRUE ELSE UNCHANGED transferVars
  /\ IF x = "verify" THEN TRUE ELSE UNCHANGED verifyVars
  /\ IF x = "sparse" THEN TRUE ELSE UNCHANGED sparseVars
  /\ IF x = "manifest" THEN TRUE ELSE UNCHANGED manifestVars
  /\ IF x = "gpt" THEN TRUE ELSE UNCHANGED gptVars
  /\ IF x = "programmers" THEN TRUE ELSE UNCHANGED programmerVars
  /\ IF x = "mbn" THEN TRUE ELSE UNCHANGED mbnVars
  /\ IF x = "shell" THEN TRUE ELSE UNCHANGED shellVars
  /\ IF x = "dump" THEN TRUE ELSE UNCHANGED dumpVars
  /\ IF x = "sideload" THEN TRUE ELSE UNCHANGED sideloadVars
  /\ IF x = "fastboot" THEN TRUE ELSE UNCHANGED fastbootVars

Next ==
  \/ Only("identify") /\ Identify!Next
  \/ Only("flash") /\ Flash!Next
  \/ Only("transfer") /\ Transfer!Next
  \/ Only("verify") /\ Verify!Next
  \/ Only("sparse") /\ Sparse!Next
  \/ Only("manifest") /\ Manifest!Next
  \/ Only("gpt") /\ Gpt!Next
  \/ Only("programmers") /\ Programmer!Next
  \/ Only("mbn") /\ Mbn!Next
  \/ Only("shell") /\ Shell!Next
  \/ Only("dump") /\ Dump!Next
  \/ Only("sideload") /\ Sideload!Next
  \/ Only("fastboot") /\ Fastboot!Next

\* The fairness of the modules that have any.
Fair ==
  /\ WF_identifyVars(subject = "identify" /\ Identify!Host)
  /\ WF_transferVars(subject = "transfer" /\ (Transfer!Return \/ Transfer!Poll))
  /\ WF_shellVars(subject = "shell" /\ Shell!KeeperGoesOn)
  /\ \A s \in Shell!Sessions :
       /\ WF_shellVars(subject = "shell" /\ (Shell!Register(s) \/ Shell!ReaderStops(s) \/ Shell!CleanUp(s)))
       /\ WF_shellVars(subject = "shell" /\ bus = "gone" /\ Shell!EndWrite(s))

Spec == Init /\ [][Next]_operationVars /\ Fair

------------------------------------------------------------------------------

TypeOK ==
  /\ subject \in Subjects
  /\ Identify!IdentifyTypeOK
  /\ Flash!FlashTypeOK
  /\ Transfer!TransferTypeOK
  /\ Verify!VerifyTypeOK
  /\ Sparse!SparseTypeOK
  /\ Manifest!ManifestTypeOK
  /\ Gpt!GptTypeOK
  /\ Programmer!ProgrammersTypeOK
  /\ Mbn!MbnTypeOK
  /\ Shell!ShellTypeOK
  /\ Dump!DumpTypeOK
  /\ Sideload!SideloadTypeOK
  /\ Fastboot!FastbootTypeOK

\* A Sahara device that edl_identify returns for was recovered and its HELLO is still unread,
\* a Firehose device is found and nothing else taken for one, and a connection is configured,
\* authenticated and in step.
IdentifyExact == Identify!IdentifyExact

\* Over serial, edl_identify comes to an end whatever the device does.
SerialIdentifyReturns == Identify!SerialIdentifyReturns

\* No operation of a batch is dropped in silence, what is reported was written and stays, and a
\* refused batch leaves nothing behind.
FlashReported == Flash!FlashReported

\* The progress of an EDL transfer never goes back or outlives its command, and the command
\* returns once the transfer has ended.
ReporterEnds == Transfer!ReporterEnds

\* verify_write passes no write that differs where it looks, and only the ends of short files
\* make it call a correct one wrong.
VerifyExact == Verify!VerifyExact

\* decompress_sparse gives the image the format defines, or an error, and no whole image is refused
\* unless an operation on a file fails.
SparseExact == Sparse!SparseExact

\* A directory is flashed with one manifest per LUN and its own patches.
OneSetPerLun == Manifest!OneSetPerLun

\* The partitions listed are those of the table that was read, with their extents, if the table lies
\* within the addresses.
GptExact == Gpt!GptExact

\* A saved programmer is not forgotten but by a session that could not read the file, an identity is
\* that of the file unless it was replaced in the middle of a scan, and candidates are ranked by
\* their evidence.
ProgrammersRight == Programmer!ProgrammersRight

\* A programmer file in order is known by the root of its certificate chain and by its own HWID, any
\* other by something that reads as a root.
IdentityExact == Mbn!IdentityExact

\* The session map holds the sessions that live, and a reader without an entry was told to stop,
\* or the command that removed it is about to.
SessionsAreReaders == Shell!SessionsAreReaders

\* A closed terminal's reader ends, and that of a device that left, unless a write is stuck.
ReadersEnd == Shell!ReadersEnd

\* A streamed dump or write that is reported done is whole, a partition is written from a file only
\* when all of it was pushed, temporary files stay only where an rm went wrong, and dump_image reads
\* at least the range it was asked for, if that begins at a block and, streamed, is whole sectors.
TransfersSafe == Dump!TransfersSafe

\* A sideload block holds exactly the package's bytes at its place.
BlockExact == Sideload!BlockExact

\* A fastboot flash reported complete put the whole file into the partition, if no answer of an
\* earlier one was unread when it began.
FirmwareWhole == Fastboot!FirmwareWhole

==============================================================================
