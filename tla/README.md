# A TLA+ model of rusty-cortex

rusty-cortex is a desktop tool (Tauri: Rust behind a Svelte interface) that talks to Android
devices over USB: ADB (shell, files, dumps, sideload), fastboot, and Qualcomm's emergency
download mode (EDL: Sahara, then Firehose).  This directory holds TLA+ models of the Rust side,
TLC configurations that check them on small instances, and proofs for every size of the instance.

Paths below are relative to `src/src-tauri/src/`.

    tlc -workers 2 -config UsbDispatcher.cfg MCUsbDispatcher      # a run
    tlapm UsbDispatcher_proofs.tla                                # a proof

## 1. The system

A command of the user interface is a Tauri command (`commands.rs`): an async function on a tokio
runtime that shares one `AppState` with all others and puts blocking work on a thread with
`spawn_blocking`.  Several commands run at once.  Below them are the protocols.

| component | state | operations | what is hard | what makes it correct |
|---|---|---|---|---|
| framing (`protocols/adb_usb.rs`, `usb_read_message`, `reader_loop`) | bytes in hand, deadline | bulk IN transfers, header, payload, skip, stop | transfers cut messages anywhere; a deadline in mid-message; stale bytes | every message returned is one the device sent, in order; it gets back in step; it keeps draining |
| dispatcher and streams (`adb_usb.rs`: `UsbDispatcher`, `adb_usb_open`, `UsbStream`, `UsbShellWriter`) | registry of channels, write lock, shutdown flag, one reader thread; per stream `read_buf`, `closed` | open, read, write, close, shell write, route, shut down | many threads on one pair of endpoints; acknowledgements; a device that writes while it is written to; unplugging | messages leave whole; each reaches its stream; data in order; an OKAY acknowledges its own write; nobody waits for ever |
| connection cache (`adb_usb.rs`: `adb_usb_connect`, `invalidate_usb_cache`, `clear_usb_cache`; `adb/mod.rs`: `adb_connect`) | serial -> connection under one mutex; `Arc` counts | connect (hit, or claim and handshake), retry, invalidate, clear | an exclusive USB claim; the last `Arc` joins a thread, perhaps under the mutex; a late invalidation | one connection in order at a time; the retry is fresh; the mutex is always released |
| EDL session (`commands.rs`) | `edl_connection`, `edl_sahara_device`, `edl_identify_cache`, `is_flashing`; a progress thread per transfer | identify, connect, list, read, program, erase, batch, reboot, disconnect | state taken out before an await and put back after it; caches tested by protocol only | one owner of the EDL interface; the flag is exact; a progress thread ends with its command |
| EDL protocol (`protocols/edl.rs`, `edl_usb.rs`) | transport buffer, Firehose session | identify with its recovery chain, connect, partition I/O, batch flash, verify | the device's mode is not visible; recovery steps are sent blindly; errors are collected while going on | a Sahara device is recovered with its HELLO unread; connections are in step; what is reported was written; what passes verification was compared |
| EDL files (`edl_gpt.rs`, `edl_xml.rs`, `edl_mbn.rs`, `edl_db.rs`) | programmer database file, identity cache | parse, discover, look up, save, scan, rank | sizes a header claims; files in any order; a crash while saving; a stale cache | extents as in the table; one manifest per LUN; the root certificate's key; what was saved is kept; ranked by evidence |
| sparse images (`protocols/sparse.rs`) | none | expand | block sizes, truncated chunks | the expansion is the image |
| shell and logcat sessions (`commands.rs`, `adb/shell.rs`, `adb/logcat.rs`) | session map, a reader per session | open, write, close, clean up, stop logcat, reboot | four parties remove one key; a sleep between look-up and removal; a reader keeps the connection | the map shows the sessions that live; a closed session's reader ends |
| dump, write, install (`adb/dump.rs`, `adb/install.rs`, `adb/sync.rs`) | temporary files on the device, their guard | dump, write, install, clean up | a disconnect at any point; Shell V1 has no exit code | what is reported is whole; temporary files are removed |
| sideload (`adb/sideload.rs`) | none | serve blocks | the last block, blocks in any order | a block is the package's bytes at its place |
| fastboot, flash workflow (`fastboot.rs`, `flash/`) | the device's download, its unread answers | flash under a time limit | a limit that drops the workflow at any await, with data owed to the device or an answer unread | a flash that is reported put the whole file there, if it began in step |
| detection (`device/detect.rs`), set-up and types (`lib.rs`, `types.rs`, `error.rs`), user interface, nusb | -- | -- | -- | not modelled, see section 7 |

Interactions: every ADB operation calls `adb_connect`, which goes through the **cache** to a
connection, on which it opens a stream of the **dispatcher**, whose reader sits on the **framing**.
Above, commands meet in `AppState`.  What an EDL command does inside its blocking task is a protocol of
its own, with nobody else on its transport.

`PROJECT.json` lists the hazards, each at its line, with the properties that watch it or the reason why
none does.

## 2. Modules

| module | what it is | check / proof |
|---|---|---|
| `MessagePipe` | abstract: a pipe that may lose messages but never duplicates, reorders or invents them | is implemented by `UsbFraming` |
| `UsbFraming` | `usb_read_message` and `reader_loop` against a device that sends transfers | `MCUsbFraming`, `UsbFraming_proofs` |
| `UsbDispatcher` | one connection: registry, reader, streams, shell writers, device | `MCUsbDispatcher`, `UsbDispatcher_proofs` |
| `UsbConnCache` | the cache, `adb_connect` with its retry, invalidation, the join in `Drop` | `MCUsbConnCache`, `UsbConnCache_proofs` |
| `EdlOwner` | abstract: the device on the bus has one owner, and changes hands only in certain ways | is implemented by `EdlSession` |
| `EdlSession` | the EDL commands and the `AppState` they share | `MCEdlSession`, `EdlSession_proofs` |
| `EdlIdentify` | identify and connect against a device in any mode | `MCOperations`, `OperationsIdentify_proofs` |
| `EdlFlash` | program, erase, batch and directory flash | `MCOperations`, `MCEdlFlash`, `OperationsEdl_proofs` |
| `EdlTransfer` | the progress thread of an EDL transfer | `MCOperations`, `OperationsEdl_proofs` |
| `EdlVerify` | `verify_write` and the hashes it compares | `MCOperations`, `EdlVerify`, `OperationsEdl_proofs` |
| `EdlSparse` | `decompress_sparse` against the format | `MCOperations`, `OperationsFiles_proofs` |
| `EdlManifest` | which manifests and patch files of a directory are used | `MCOperations`, `OperationsFiles_proofs` |
| `EdlGpt` | the partition table | `MCOperations`, `OperationsEdl_proofs` |
| `EdlProgrammers` | programmer database, scan, ranking | `MCOperations`, `OperationsFiles_proofs` |
| `EdlMbn` | what a programmer file tells of itself | `MCOperations`, `OperationsFiles_proofs` |
| `ShellSessions` | terminals, logcat, reboot | `MCOperations`, `Operations_proofs` |
| `AdbDump` | dump, write and install over Shell V1 and V2 | `MCOperations`, `AdbDump`, `Operations_proofs` |
| `AdbSideload` | sideload, block by block | `MCOperations`, `Operations_proofs` |
| `FastbootFlash` | `flash_firmware` under its time limit | `MCOperations`, `Operations_proofs` |

`MCOperations` instantiates the modules from `EdlIdentify` on; the values of their constants are in
`MCInstances`.

They are composed by contract.  `UsbFraming` implements `MessagePipe`; the `inq` of `UsbDispatcher`
is such a pipe (in order, and lossy when `LinkLoses`).  What `UsbFraming` shows of the reader -- it
looks at its flag only between two reads -- is how `UsbConnCache` lets a reader end; what a stream
does with its connection is one abstract state ("using") there and all of `UsbDispatcher`.
`EdlSession` stands beside them: EDL does not use the ADB layers.  It decides who owns the transport
and the flag; `EdlIdentify`, `EdlFlash`, `EdlTransfer`, `EdlVerify`, `EdlSparse`, `EdlGpt` and `EdlMbn`
are what an owner does, and none of them can meet another on the same transport.  The operations that
take the flag (`EdlFlash`, `AdbDump`, `FastbootFlash`) run one at a time for the same reason.

So the modules from `EdlIdentify` on do not interact, and `MCOperations` checks them in one run: it
instantiates all of them, chooses in the initial state whose behaviour this is (`subject`), and keeps
the variables of the others where they start.  A state of the run is a state of one module; nothing is
multiplied.  The theorems about them are theorems of the specification of `MCOperations`: a step of it is a
step of the module they speak of or leaves the module's variables alone.

### UsbFraming
A byte is `[m, k]`, byte number `k` of message `m`; a transfer is a sequence of bytes.  `pc` is the
place in `usb_read_message`: `header` and `payload` are the tests of the deadline at the top of the
two loops, `inHeader` and `inPayload` the transfers.  `HeaderTransfer` keeps the excess of a header
read as the start of the payload (line 489), `AfterHeader` is the magic test and the length test,
`Finish` the checksum and the return to `reader_loop`, whose `match` is `GiveUp` (timeout), the bad
magic case of `AfterHeader`, and `Stop` (disconnect and other errors).
The dispatcher's thread has no tokio runtime, so `cancellable_bulk_in` takes its `pollster::block_on`
branch: the deadline is tested between transfers and never cancels one.  That is why
`DeadlinePasses` is possible while the reader is blocked: in the middle of a message, and also in front of one,
when the device was idle.

### UsbDispatcher
A stream `s` is its local id and the thread that uses it; `pc[s]` is that thread's place in
`adb_usb_open`, `UsbStream::read` and `write`, and `Drop`.  `streams` is the key set of the registry,
`chan[s]` the mpsc channel.  A message with payload leaves in two actions with the write lock in
between (`HeaderOut`, `PayloadOut`), one without payload in one (`SingleOut`).  `bus` is the half
message the device has, `torn` records that a header arrived there first.  The reader's actions
begin with `Rd`.  `Shutdown` stands for both functions that set the flag.  The device answers OPEN,
sends one unacknowledged WRTE at a time, acknowledges, and closes, when it likes.
A stream ends as `done` when it was opened and dropped, and as `unopened` when `adb_usb_open` gave up, was
refused or lost the device: there is no `UsbStream` then, and nothing that could send a CLSE.

### UsbConnCache
`lock` is the owner of the cache mutex, `users[c]` the threads that hold an `Arc` of connection `c`.
`DropArc` is the drop of an `Arc`: when it is the last one it sets the flag and the dropping thread
joins the reader (`joins`), keeping the locks it has.  `epoch` and `era` tell appearances of the
device apart: after a replug an old connection's interface does not stand in the way of a claim.
The handshake is one step that succeeds or fails.  `BeginClear` followed by `Evict` is
`clear_usb_cache`; one serial is modelled, so draining the map and removing the entry are the same.

### EdlSession
`conn`, `sahara`, `cache`, `current` and `flashing` are the fields of `AppState`; every lock of one
of them is an action.  A transport is the number of the device's appearance on the bus (`Era` is the
latest), since an exclusive claim allows one transport to an appearance.  `held[c]` is the transport
that the blocking task of command `c` owns.  `detect_device` is `Scan`, `StoreDevice`, `Invalidate`;
`edl_identify` is `IdentifyMiss` to `IdentifyCache`, with the transport dropped and opened again
after a RESET_REQ; `edl_connect` is `ConnectCheck` to `ConnectStore`.  `Read` and `Write` take the
connection out, without and with a `FlashGuard`; `PutBack` and `Panic` end them.  In `edl_disconnect`
and `edl_reboot` the fields are cleared one after the other (`ClearConn`, `Forget`, `Uncache`).
A command without an effect (a cache hit, "already connected", "operation in progress") is not a
step.  What a device answers is limited to what decides the control: whether it can be reached,
whether it runs a programmer, and its serial.  `Panic` and `AfterPanic` are what a debug build does; a release
build has `panic = "abort"` (`Cargo.toml`), and the whole application ends.

### EdlIdentify
`mode` is the device (`hello`: waits for HELLO_RSP; `command`; `firehose`; `hung`; `resetting`; `gone`) and
outlives the program: `Crash` leaves it as it is.  `inbox` are the packets not read yet, by kind.  `pc` is
the place in `identify_inner` and `connect`.  `read_sahara_identity` is a run of three commands
(`SaharaCommand` and the ways it fails); `PblHack...` is the blind HELLO_RSP on the same transport,
`SaharaReset...` the reset after which `identify` runs again, `Nop...` the probe.  `retry` is `is_retry` and
"after PblHack".  A read over serial may come back empty before the answer does (`Late`, at most `MaxLate`
times); over USB it waits (`edl_usb.rs` sets no limit).  `stale` remembers that identify began with more
than one packet unread, as after an earlier identify whose answers came late: the recovery reads one packet
at a step and does not start over, so what it promises of a Sahara device it promises of one with at most
one.  `connect` is `UploadProgrammer` or `ResumeDrain`,
`Configure`, its response, the authentication and the second configure, and the LUN probe.

### EdlFlash, EdlTransfer, EdlVerify, EdlSparse
`EdlFlash`: a set of a manifest is records of entries; `Programs` are those the parser keeps, `Skip` passes
over the others.  `report`
is `BatchFlashResult`; a set that returns an error loses its report (`lost`), as in `batch_flash_dir`, which
puts an error in its place.  `StartSector` is `attr_num`.  `Program` is all of `program_partition`: checks,
expansion, write, verification, removal of the temporary file.
`EdlTransfer`: the counter, the flag and the thread of `edl_read_partition` and `edl_program_partition`.
`Finish` is the end of the transfer, which may never come over USB.
`EdlVerify`: lengths in sectors; all sectors of a file differ, so that equal hashes mean equal places.
`EdlSparse`: a file is cells and may be cut anywhere; `Reference` is what the format defines.  `FileFails` is
an error of the file system at any point: no temporary file, a disk that is full, an image that cannot be read.

### EdlManifest, EdlGpt, EdlProgrammers, EdlMbn
`EdlManifest`: a name is what the code looks at in it, lower case; `dir` is in any order, as `read_dir` gives
it.  The code finds a patch file by its whole name, so a "patch" is exactly `patch.xml` or `patch<digit>.xml`.
The stable sort and `dedup_by_key` are stated by what they do: `ByLun` says which rearrangement the sort makes,
`Firsts` which places are kept.  So is the sort of the candidates (`ByLevel`) in `EdlProgrammers`.
`EdlGpt`: there are `AddressSpace` addresses (2^64 in the code).  `Offset`, `After` and `Sectors` are arithmetic in
that width, as a release build computes them; `Panic` is what a debug build does instead, and what the slice
does in both when an end was wrapped.  `Astray` is a header whose table lies beyond the last address: the bytes
that are walked then are not the table's, and any entry may come out of them.
`EdlProgrammers`: `entries` and `loaded` are the database in memory, `dbFile` the file; `kept` is what a user
may rely on.  `Loads` are the two ways to load it: what is in the file, or nothing because it could not be read
(`missed`), which the next save of that session writes over the file.  A scan takes the size of each file
(`Collect`), and then the identity of each from the cache or from the file (`Parse`); a file may be replaced
between the two (`Replace`, and `crossed` remembers it).  `idCache` is the identity cache, `scanCache` the same
while a scan owns it.  `Level` is `score_candidates`.
`EdlMbn`: a hash segment is cells, laid out by what its header claims (`Segment`), which need not be true.  Any
cell may read as the start of a certificate (`claims`), whether it is one, lies in the middle of one, or is part
of a signature: the code looks at the byte 0x30 and a length, and at nothing else.  `StartsFrom` walks what reads
as certificates, to the first that is cut (the walk ends) or whose length cannot be read (an error, `Unreadable`);
`Key` chooses where to start, `ResolveChipset` are the three look-ups.  `Orderly` is a file whose header and
certificates tell the truth.

### ShellSessions, AdbDump, AdbSideload, FastbootFlash
`ShellSessions`: `registered` is the session map, `reader` the blocking task of a session, `stopping` the
sleep of `logcat_stop`.  V1 and V2 end differently at the wire and alike here.  The mutex of the map is `map`,
when a command keeps it over an await, and that of a writer `writing`.  `shell_close` removes the entry (`Close`)
and shuts the writer down after it has let go of the map (`Closed`), once no write keeps the writer;
`logcat_stop` and `reboot_device` wait for the writers with the map locked (`StopShuts`, `RebootShuts`).
`AdbDump`: a file is `torn`, `whole`, `old` or `none`; `Advance` is the loop over partitions.  `features` is the
cache of `shell_v2_supported`, which a failed query fills with V1 and a reboot clears.  `doubtful` are the
files whose rm may not have run.  `Region` is what `dump_image` reads, in units smaller than dd's blocks.
`AdbSideload`: `BlockRead` is `calculate_block_read`; the device asks for what it likes.
`FastbootFlash`: a command is sent and its answer read in two steps (`Download` and `DownloadAnswer`, `Command` and
`CommandAnswer`), and the limit may end the flash between them.  `answers` are what the device said and nobody
read: a flash that begins with some (`behind`) takes them for those to its own commands.  A device that waits in
`data` takes what it is sent for data (`Swallows`), also the text of a command.

## 3. Runs

| run | shows |
|---|---|
| `framing` | messages whole (`RoutedWhole`), nothing lost but messages with payload to a read whose deadline has passed (`OnlyTimeoutsLose`), back in step after one (`Resynchronises`), no spinning (`KeepsDraining`), `MessagePipe` implemented (`ImplementsPipe`) |
| `dispatcher` | lock and transfers agree (`FramesIntact`), routing (`RegistryExact`), order (`StreamIntact`), acknowledgements (`AckIsOwn`), close (`CloseReachesDevice`), over a lossy link |
| `dispatcher_live` | data is acknowledged (`AckFlows`), unplugging wakes everybody (`UnplugWakes`) |
| `dispatcher_buffered` | violated: `BufferedDataIsReadable` |
| `cache` | one connection in order (`HealthyIsCached`), claims do not collide (`ClaimUncontended`), the retry is fresh (`RetryIsFresh`), unplugging frees the mutex (`UnplugFreesLock`) |
| `cache_join` | violated: `JoinEnds` |
| `edl_session` | a transport has one owner (`OneOwner`), the flag is exact (`GuardExact`), unplugging ends the operation that holds it (`UnplugFreesGuard`), `EdlOwner` implemented (`ImplementsOwner`) |
| `edl_session_stale` | violated: `CacheIsCurrent` |
| `operations` | the modules from `EdlIdentify` on: recovery and connect (`IdentifyExact`, `SerialIdentifyReturns`), batches (`FlashReported`), progress (`ReporterEnds`), verification (`VerifyExact`), sparse images (`SparseExact`), manifests (`OneSetPerLun`), GPT (`GptExact`), database and ranking (`ProgrammersRight`), identities (`IdentityExact`), terminals (`SessionsAreReaders`, `ReadersEnd`), dumps and temporary files (`TransfersSafe`), sideload (`BlockExact`), fastboot (`FirmwareWhole`) |
| `edl_verify_alarm` | violated: `NoFalseAlarm` |
| `edl_flash_where` | violated: `ProgramsWhereTold` |
| `dump_partial` | violated: `NoPartialDump` |

Deadlock is not checked: a tool with nothing to do, an unplugged device and exhausted bounds are
states in which these systems may stop.  What must not stop is stated as liveness.

### Bounds
- `framing`: `HeaderLen` 2, `HeaderCap` 3, `ChunkCap` 2, three messages with payloads of 0 to 3.  The
  header request is larger than a header and smaller than header and payload, as 24, 64 and 1 MB
  are; a payload can be shorter than a header, equal, longer, and need two reads.  Three messages
  are needed to fall out of step on one, resynchronise on the next and return the third.
- `dispatcher`: two streams; on the first two data messages and one write or one shell-writer
  message, on the second one data message.  Two data messages make an order; the write meets them
  before, between and after; the second stream makes a wrong route and a contended lock possible.
- `cache`: two threads, three connections, one replug.  Two attempts of one thread and one of
  another use three connections; a third thread adds no new kind of overlap, since everything but
  the use of a stream is serialised by the mutex.
- `edl_session`: two commands, two units, two appearances of a device.  The checks and updates of
  `AppState` that can collide are pairs; two appearances make a transport that is out of date and a
  swapped device.  More commands and appearances are the theorems' business.

- `operations`, per module.  `EdlIdentify`: both transports, every kind of programmer with one or two LUNs,
  two late answers: one puts an answer out of step, two leave more than one packet unread.  `EdlFlash`: a directory of two sets with erase, programs, a skipped
  entry and a patch, and images in every state.  `EdlTransfer`: totals 0, 2 and 3 and up to 4 chunks, beyond
  the total.  `EdlVerify`: chunks of 2 and lengths to 6, on both sides of one and two chunks.  `EdlSparse`: two
  chunks of every kind, of up to two blocks of 4 and 6 bytes, cut anywhere, with a file error at any step.
  `EdlManifest`: up to three files of a directory, in every order.  `EdlGpt`: 16 addresses and sectors of two
  bytes, so that the extent that overflows occurs, entries that the sectors read cut off, entries whose end does
  not fit and tables that begin beyond the last address.  `EdlProgrammers`: two devices, two paths, two files of
  different sizes, put in two places: one may replace the other under a scan.  `EdlMbn`: chains of up to two
  certificates with true and false sizes, cut, with a length that cannot be read, and with another inside one;
  signatures and padding that read as a certificate or as metadata.
  `ShellSessions`: a shell and a logcat; sessions share the bus and the map.  `AdbDump`: two partitions and an
  image of two V1 blocks.  `AdbSideload`: lengths around two blocks.  `FastbootFlash`: sizes up to and beyond both
  limits, and flashes that begin with up to `MaxUnread` (two) answers unread: one puts every answer out by one.

The largest runs have 1.9 million states (`dispatcher`), 0.9 million (`framing`) and 0.36 million (`operations`).

### Fairness
- `UsbFraming`: weak fairness of the reader.  It has an OS thread, and a pending bulk IN completes
  when the device has queued data.  Nothing else is fair.
- `UsbDispatcher`: weak fairness of `Running`: the reader, and the steps a stream's thread takes
  without a timeout and without being asked.  Since no thread can take these steps for ever without
  the device, the disjunction is as strong as a condition for each thread.  The device, the user,
  timeouts and errors are not fair.
- `UsbConnCache`: weak fairness of each thread's steps inside the mutex and of each reader that has
  lost its device.  The acquisition of the mutex is not fair, nor are the device's answers.
- `EdlSession`: weak fairness of `Unblocked`: a command that has the guard goes on when it does not
  wait for the device, and its transfers fail when the device is gone.  The device is not fair:
  `edl_usb.rs` waits for a transfer without a time limit.
- `EdlIdentify`: weak fairness of `Host`: a command that was started goes on; over serial every read returns.
- `EdlTransfer`: weak fairness of the join and of the polling thread (a loop that sleeps).  That a transfer ends is
  not assumed: over USB it has no time limit (`edl_usb.rs:150`), and with a silent device it and its reporter
  never end.  `ReporterEnds` begins where the transfer has ended.
- `ShellSessions`: weak fairness of a command that has connected, of a reader that can stop, of a command that
  keeps the map and can get the writer it waits for (`KeeperGoesOn`), and of a write without a device, which
  fails.  The device and the user are not fair, and a write to a device that takes nothing has no limit:
  `ReadersEnd` has as its premise that every write ends or the device leaves.

## 4. Disagreements between the code and its comments

1. `adb_usb.rs:1302`, "Drain buffered data first": `closed` is tested before, and data that was
   acknowledged and buffered during a write is lost when the write ends in CLSE
   (`dispatcher_buffered`).
2. `adb_usb.rs:724`, "it has a 5s read timeout": the reader has none, and the join waits, with the
   cache mutex held, until the device sends something or goes away (`cache_join`).
3. `commands.rs:1010`, "detect_device already invalidates on device change": it does when no EDL
   device is left; one EDL device swapped for another keeps the first one's identity
   (`edl_session_stale`).
4. `edl.rs:1248`, "to confirm data integrity": `verify_write` hashes different bytes of the device and the
   file when the file ends inside a chunk, or the partition has between one and two chunks; a correct
   write is then called a mismatch (`edl_verify_alarm`).
5. `edl_xml.rs:37`, "expressions ... which the device-side Firehose programmer evaluates": a program or
   erase entry with such an expression goes to sector 0 (`edl_flash_where`).
6. `README.md:57`, ".tmp rename prevents partial files on disconnect": with Shell V1 a dd that was cut off, or
   took longer than its 30 s, counts as done; the part it wrote is fetched and renamed (`dump_partial`).

Each of the six properties says what the comment says; none is used as an assumption elsewhere.

Also met, without a run of their own:

- `adb_usb.rs:664` says of a timeout "Normal -- no data available".  The deadline is set when a read begins and
  tested between transfers only.  After 5 s without traffic it has passed while the reader waits for a header, and
  the next message that comes as a header and a payload in two transfers fails the test in front of its payload
  (`adb_usb.rs:495`): the header is thrown away, and the payload skipped as stale data.  Nothing happened in the
  middle of a message, and data was available.  A message without payload, or in one transfer, is not lost.
  `OnlyTimeoutsLose` says what can be lost, and `Resynchronises` that no more is.
- `dump.rs:187` says of V1 "Size rounds UP to ensure the requested range is fully covered"; an offset that is not a
  multiple of 4096 is rounded down and the end of the range is then cut off.  With V2 `dump_image` ignores a size
  without an offset and an offset without a size.  `TransfersSafe` asks for the range where the code does cover it.

What the code does where no comment promises otherwise, and the properties name as exceptions:

- A flash that begins while an answer of an earlier one is unread takes it for its own, and can be reported
  complete with another content in the partition (`FirmwareWhole` is about the others).
- A GPT header whose table lies beyond the last address has other bytes listed as partitions by a release build,
  or panics (`GptExact`); a release build aborts then.
- A programmer database that cannot be read once counts as empty, and the next save of that session writes it
  over the file (`MappingsKept`).
- A programmer that is replaced while a scan has its size and not yet its identity is remembered with the new
  identity under the old size (`IdentityFresh`).
- Of a programmer file whose header or certificates are wrong, any bytes that begin with 0x30 and a fitting
  length, or the certificate before one that is cut, are taken for the root (`IdentityExact`).
- An open that gave up leaves a stream that the device accepts later open at the device (`CloseReachesDevice`).
- A write to a terminal that is stuck keeps its writer; `reboot_device` and `logcat_stop` then wait for it with the
  map locked, and every other terminal command waits with them (`ReadersEnd`).

## 5. Proofs

All hold for every value of the constants.  Those of the framing, the dispatcher, the cache and the EDL
session hold for any sets `Streams`, `Threads`, `Conns`, `Cmds`, `Units` and any bounds, under the modules'
own assumptions (`FramingAssumption`: a request for a header holds at least one; `DispatcherAssumption`,
`CacheAssumption`, `SessionAssumption`: bounds are naturals, "nobody" is not a thread, "no unit" is not a
unit, a slot is not a command).

- `UsbFraming_proofs!ReceiverInvariant`: `ReceiveInv`.  None of the framing's properties is inductive, since
  each speaks of messages and the code of bytes.  `Queue`: the endpoint holds the device's bytes from one
  byte on (`Here`), in order and without a gap, in transfers that start at a header or are the rest of a
  message.  `HeldInv`: a reader that waits for a payload holds its message from byte 1 up to `Here`; one
  that waits for a header holds nothing, or the end of a payload that a timeout left behind, shorter than a
  header and just before a message's first byte.  `RoutedInv`: what was returned lies before `Here`, each
  message newer than the one before.  `InStep`: while nothing was lost the endpoint is at a header when the
  reader asks for one, and all before it was returned.  `Resynced`: of two messages without payload before
  `Here` the second was returned -- a transfer that starts in mid-message fails the magic test whole, and the
  one after it starts at a header.  Most of the work is in the lemmas on stretches of bytes: joining and
  cutting them (`BytesJoin`, `BytesCut`), and taking part of a transfer off the queue or adding one to it
  (`QueueTail`, `QueueCut`, `QueueMore`).  `LostInv`: what a timeout throws away has a payload, since a read
  tests its deadline with a header in hand only if more is to come (`HeldHasPayload`).
- From it: `TypeCorrect`, `WholeMessages` (`RoutedWhole`), `TimeoutsOnly` (`OnlyTimeoutsLose`), `BackInStep`
  (`Resynchronises`), and `Implements`: every step of the reader is a step of `MessagePipe` or leaves its
  variables alone (`PipeStep`), because only `FinishReturns` adds to what was returned, and what it adds is
  newer than all before.

- `UsbDispatcher_proofs!TypeCorrect`: `TypeOK` is inductive.  Most of the work is that what comes
  off the front of a channel is a message and what is appended keeps it a sequence (`HeadTail`,
  `AppendType`, `WrteType`, `DatumType`).
- `UsbDispatcher_proofs!WholeMessages`: `FramesIntact` is not inductive.  A `PayloadOut` tears if the
  half message the device has is another's, so `Frames` adds that, as long as the device is there,
  this half message belongs to the owner of the lock (`plugged => bus = wlock`).  When it is gone
  the lock is released and the half message stays, but nothing is sent any more.  The assumption
  that `NoOne` is not a thread is what makes "a thread owns the lock" and "the lock is free" exclude
  each other (`Names`).
- `UsbDispatcher_proofs!RegistryIsExact`: `RegistryExact` is inductive, given `TypeOK`.
- `UsbDispatcher_proofs!DispatcherInvariant`: what flies between device and thread is two queues, `chan` and
  `inq`, one message moved at a time from one to the other and any message lost.  `StreamInv` says of each
  stream what both hold together (`Flight`).  `DataInv`: what was taken is the first `Taken` messages; with
  nothing unacknowledged that is all and no data flies, else one message is missing, and only that one may
  fly, once.  From it `DataIntact` (`StreamIntact`).  `AckInv`: without a write under way nothing is owed and
  no OKAY flies; with one, at most one of the two -- a write that times out ends the stream, so a late answer
  never meets a later write (`AcksAreOwn`, `AckIsOwn`).  `CloseInv`: a CLSE in flight comes from a device that
  has closed, and a stream that saw the end or was dropped, used or not, is closed there unless the device is gone or
  the dispatcher stops (`ClosesReachDevice`, `CloseReachesDevice`), which needs `FlagInv`: the reader is not gone before the flag.
- `UsbConnCache_proofs!Invariance`: `IInv`, what the mutex protects -- a thread between taking and
  releasing it is its owner and the only one; a connection in order is cached; a thread's connection
  counts it among its users; a thread past the look-up has found nothing in order.  From it follow
  `TypeCorrect`, `OneAliveConnection` (`HealthyIsCached`), `FreshRetry` (`RetryIsFresh`: the first
  attempt has shut the failed connection down before the second starts, and a connection that was
  shut down is never handed out) and `NoSelfContention` (`ClaimUncontended`).
- `EdlSession_proofs!Invariance`: `IInv` is `TypeOK`, `OneOwner` and `GuardExact`, each inductive given
  the types (`OwnerStep`, `GuardStep`), with `NoneNewer`: no transport is newer than the device, so a
  device that is plugged in is nobody's.  From it `TypeCorrect`, `OneTransportOwner`, `GuardIsExact`.
- `EdlSession_proofs!Implements`: `Spec => ImplementsOwner`.  Every action of a command but
  `ConnectUpload` moves at most the transport of that command (`CommandMoves`), and then ownership
  changes hands as `EdlOwner` allows (`OwnerMoves`); `OneOwner` makes the `CHOOSE` in the mapping of
  `owner` the one command that has the transport (`HolderOwns`).

The modules of the operations are proved about as `MCOperations` composes them, each with an inductive
invariant of its own, from `OperationsAssumption`, the conjunction of the modules' assumptions: bounds and
sizes are naturals, a block size and the number of addresses are positive, a plan has at least one set and
only a directory has more, a programmer has a known storage, a table's entries are naturals, a certificate
is at least one cell, a hash segment has at most one metadata, and what is read of a LUN lies within the addresses.

- `OperationsIdentify_proofs!IdentifyInvariance`: `IdentifyInv`.  What identify promises depends on packets it
  does not see, so `Packets` says in which order they can be unread in each mode of the device (a HELLO is
  among the last two; a CMD_READY is followed only by errors; of a programmer only the first can be none of
  XML).  `Modes` says where in the recovery which device can be: this is how nothing but a programmer is taken
  for one, also by late answers.  `Fields` and `Unread` say what the reset and the switch of mode leave.
  `Answering` is about a Sahara device that answers in time: the three commands go well in a row once the
  first packet is understood, the blind HELLO_RSP and SWITCH_MODE get it there in the second pass, and it
  never comes to the probe.  `InTime` is about a programmer: the nop's answer is within the five reads, and
  the only response unread is the last packet.  One lemma for each of the 28 actions; from it
  `IdentifiesExactly` (`IdentifyExact`).  The proof has made the statement exact: with two packets unread from
  an earlier identify the recovery may read some fields and not others, which one late answer cannot show.
- `OperationsEdl_proofs!FlashInvariance`: `FlashInv`.  An operation is `<<set, kind, number>>`, and `Past` is
  those behind the place (`nset`, `flashing`, `nop`) where the command is.  `Reported`: the report holds those
  behind, of sets that are not lost, once each; `Stays`: an image that was written is at its place unless an
  operation behind touched it later; `Clean`: nothing is written before the validation, and a temporary file
  belongs to an image that did not expand.  `Noted` is an operation that is done or fails, `Moved` going on,
  `Ended` and `Lost` the two ends of a set.  From it `ReportIsHonest` (`FlashReported`).
- `VerifyIsExact`: chunks of the file and of the device cover `Checked` (`Chunks`), and equal hashes are equal
  places (`Hashed`).  `ListingIsExact`: `GptInv` walks the table.  As long as the table begins within the addresses
  (`Straight`), an entry whose end was not wrapped is where it should be, and one whose end was wrapped ends
  before it begins and is not walked (`EntryFits`); the entry that does not fit ends the walk, so all after it
  must not fit either (`NoMoreFit`), and an extent is 0 modulo `AddressSpace` in one case (`Wraps`).
  `ProgressIsHonest` (`NoLateProgress`): what was shown last is what was polled last, and a larger
  count is not a smaller percentage (`MoreIsMore`).
- `OperationsFiles_proofs!SparseIsExact`: an image has chunks, and a chunk cells, without a bound, so the proof
  needs the position in the file after each chunk.  `Layout` is the function from the number of chunks to the
  cells they take, `Filling` to the bytes they make (`FlattenExists`: there is such a function for every list,
  and `FlattenSeq` is its last value).  `SparseInv`: with `i` chunks read the reader stands just behind
  `Layout[i]` (`NextHeader`: what it reads next is the next chunk's header, or the file ends) and the temporary
  file is `Filling[i]` (`ChunkBytes`: what each of the four kinds is expanded to is its part of it).  One lemma
  each for a chunk that is read and for one that is bad (`ReadKeeps`, `BadKeeps`).
- `OneManifestPerLun`: `ManifestInv` says that the sets found so far are right (`AllRight`) and that none is
  missing (`AllCovered`), through the sort, which rearranges them (`SetsKept`), and the removal, which keeps the
  first of each LUN (`FirstOfLun`).  A set that stays has a larger LUN than the one
  just before it in the sorted list, and so than all before it.
- `ProgrammersAreRight`: `SavedIsRemembered`, from `DatabaseInv` (what was saved is in the file, and in the memory of
  a session that could read it; a load that missed it and saves takes it from what was kept);
  `IdentitiesAreFresh`, from `CandidatesInv` (what a cache holds was seen at that path with that size, unless the
  path was crossed; a candidate's size was seen when it was collected, and its identity is that of the same file if
  nothing was put there since); and `RankedByEvidence`, from `RankInv`: the candidates are in the order of their
  names when they are ranked, and the sort is by level and then by name.
- `IdentityIsExact`: `StartsFrom` is a recursive function, from each cell to the starts of what reads as certificates
  walked from there.  Nothing can be said of it until it is known that there is one: `WalkExists`, since what is
  walked is never empty.  The walk finds only whole ones (`WalkWithin`), with every one also the next
  (`WalkCloses`), and from the first certificate of a chain that tells the truth it comes to the last
  (`WalkReaches`); by least counterexamples, counted from the end of the cells or of the chain.  `ChainLayout` is
  the function from a number of certificates to the cells they take, `SegmentCells` says where a segment's parts
  are and `CertificateStarts` what is read at the first cell of a certificate.  So a key is a whole one of the
  right size that no other follows (`RootIsThere`, `KeyIsThere`), and of a file in order it is the last certificate
  (`OrderlyKey`).  `MbnInv` keeps that the cells are those of the file (`Parsed`), that the key is the one found in
  them, and where the HWID and the chipset come from.
- The types: `HostTypes` needs the identification's own invariant, because what a connection is configured with
  is the storage of the programmer that answers, and only a device in Firehose mode answers
  (`ConfigTyped`).  `DatabaseTypes` goes through saves that stop half-way and restarts on a damaged file.
  `IdentifyTypesKept`, `EdlTypesKept` and `FilesTypesKept` take the other types from the inductive invariants;
  `Operations_proofs!TypesKept` joins them, for all operations at once (`TypeOK`).
- The library's induction theorems take an operator, which the provers cannot instantiate; those on
  well-founded relations do not (`WFMin`).  `Least`, that a set of naturals has a least element, takes their
  place: the numbers for which a claim fails have a least one, which gives the contradiction.
- `Operations_proofs!TransfersAreSafe`: `TransfersSafe` is not inductive.  The invariant adds which way a
  stage belongs to (Shell V2's stream or V1's file), that nothing is written before the push was answered, and
  that only the current temporary file may be one nobody tried to remove, while its guard is armed.  The
  ranges of `dump_image` are arithmetic: `RegionCovers`.  `BlocksMakeThePackage`: the reply is what `BlockRead`
  computes, and a place belongs to block `b` when it lies between `b` and `b + 1` times the block size.
  `CompleteIsWhole`: `FastbootInv`, that a flash which began with no answer unread stays in step with the device
  (`InStep`): at each place it says which answers can be unread, and what the device has.  Where an earlier download
  was cut off, the text of `download` is swallowed, so the first answer is no DATA and ends the flash.
  `FastbootSizes`: nothing sent, announced or missing exceeds u32::MAX.
  `MapShowsReaders`: `SessionsAreReaders` is inductive, given the types; a logcat entry without audience stays,
  since an audience that was lost does not come back.

Only model-checked: liveness (`KeepsDraining`, `AckFlows`, `UnplugWakes`, `UnplugFreesLock`,
`UnplugFreesGuard`, `SerialIdentifyReturns`, `ReadersEnd`, the liveness part of `ReporterEnds`), which is
out of the prover's reach.  Every safety property of a passing run is a theorem.

## 6. Plan

1. `SyncTransfer`: the chunks of one sync transfer; the handshake of an ADB connection with its stale messages.
2. A composition of `ShellSessions` with the reference counts of `UsbConnCache`: how long a reader that was not
   told to stop keeps the claim.

## 7. What is not modelled, and why

- Payload bytes that look like a header: `GoodMagic` recognises headers by identity.
- A transfer error on the send side while the device stays: a send fails only when it is gone.
- The ADB-server fallback of `adb_connect` (TCP) and `kill_adb_server`: another program.
- RSA keys and signatures; string formats of banners, services and progress messages; logging.
- In `EdlSession`: devices in other modes than EDL, and the fastboot and ADB commands that take the
  same flag; what they do with it is the same `FlashGuard`.
- More than one serial: the mutex and the functions treat serials alike and independently.
- The contents of files and packets beyond what the code decides on: XML syntax, DER fields, checksums of a
  GPT (the code does not look at them), SHA-256 (equal hashes are equal data).
- A USB transfer longer than the EDL transport's internal buffer of 1 MB (`edl_usb.rs:159`): qdlrs asks for less.
- The chunks of one sync transfer, `push_file` and `pull_file`, `shell_resize`: requests
  without state of their own.  Of fastboot's queries only the answer that one leaves when it is cut off
  (`QueryCut`).
- Device detection by descriptor, set-up code, the user interface: data or presentation.  nusb and qdlrs
  are third party; exclusive claims, blocking transfers and Sahara runs are modelled as the code uses them.
