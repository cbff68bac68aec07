---------------------------- MODULE ShellSessions -----------------------------
(***************************************************************************)
(* The terminals of commands.rs: shell_open, shell_write, shell_resize,     *)
(* shell_close, logcat_start, logcat_stop and the part of reboot_device     *)
(* that closes them.  A session is an entry of the map shell_sessions (its  *)
(* writer) and a reader of its own that forwards what the device sends to   *)
(* the user interface, until the stream or the user interface ends.  Shell  *)
(* V1 and V2 differ in how the end of the command shows (end of stream,     *)
(* Exit packet), which is one outcome here.  The user interface names every *)
(* session by a new random id (ShellTerminal.svelte).                       *)
(* The map and every writer have a mutex.  shell_close waits for the        *)
(* writer's after it has let go of the map; logcat_stop and reboot_device   *)
(* wait for it with the map locked, and a write has no time limit.          *)
(***************************************************************************)
CONSTANTS Shells, Logcats   \* session ids of the two kinds of terminal

VARIABLES
  carrier,   \* per session: "usb" or "tcp", what adb_connect returned
  registered,  \* the ids in shell_sessions
  shut,      \* ids whose writer was shut down
  reader,    \* per session: "none", "connected", "reading", "leaving", "ended"
  process,   \* per session: its command at the device: "none", "quiet", or "busy" sending output
  audience,  \* ids whose output channel still has a receiver
  map,       \* the mutex of shell_sessions: "free", or kept by "reboot" or "stop"
  writing,   \* ids whose writer is locked by a write under way
  closing,   \* ids shell_close has removed and not shut down yet
  stopping,  \* per session, of logcat_stop: "no", "waiting" (^C, 200 ms), "shutting"
  bus,       \* "up", "rebooting" (the command is on its way), "gone"
  current    \* current_device is set

Sessions == Shells \union Logcats

shellVars ==
  <<carrier, registered, shut, reader, process, audience, map, writing, closing, stopping, bus, current>>
locks == <<map, writing, closing, stopping>>

Init ==
  /\ carrier = [s \in Sessions |-> "usb"]
  /\ registered = {} /\ shut = {} /\ reader = [s \in Sessions |-> "none"]
  /\ process = [s \in Sessions |-> "none"] /\ audience = Sessions
  /\ map = "free" /\ writing = {} /\ closing = {} /\ stopping = [s \in Sessions |-> "no"]
  /\ bus = "up" /\ current = TRUE

\* adb_shell_open, adb_shell_open_command: the blocking task; logcat needs current_device.
Connect(s) ==
  /\ reader[s] = "none" /\ bus /= "gone" /\ (s \in Logcats => current)
  /\ \E by \in {"usb", "tcp"}, p \in {"quiet", "busy"} :
       carrier' = [carrier EXCEPT ![s] = by] /\ process' = [process EXCEPT ![s] = p]
  /\ reader' = [reader EXCEPT ![s] = "connected"]
  /\ UNCHANGED <<registered, shut, audience, locks, bus, current>>

\* The rest of the command: the entry of the same id, if there is one, is shut down and replaced.
Register(s) ==
  /\ reader[s] = "connected" /\ map = "free" /\ s \notin registered
  /\ registered' = registered \union {s} /\ reader' = [reader EXCEPT ![s] = "reading"]
  /\ UNCHANGED <<carrier, shut, process, audience, locks, bus, current>>

\* Mutant: a shut down TCP writer does not end the reader.
StreamEndsHalf(s) == process[s] = "none" \/ bus = "gone"

\* The stream of s gives its reader an end: the command exited or the device left; a TCP stream
\* also when its writer was shut down.  A USB writer's shutdown only marks the writer.
StreamEnds(s) == process[s] = "none" \/ bus = "gone" \/ (carrier[s] = "tcp" /\ s \in shut)

\* A silent stream times out: after 60 s for a shell, after the 300 s of UsbStream for logcat over
\* USB; adb_shell_open_command sets no limit, so logcat over TCP waits for ever.
MayTimeOut(s) == process[s] = "quiet" /\ (s \in Shells \/ carrier[s] = "usb")

\* shell_v2_read_packet or read returned an end or an error; the reader goes to its clean-up.
ReaderStops(s) ==
  /\ reader[s] = "reading" /\ (StreamEnds(s) \/ MayTimeOut(s))
  /\ reader' = [reader EXCEPT ![s] = "leaving"]
  /\ UNCHANGED <<carrier, registered, shut, process, audience, locks, bus, current>>

\* Output goes to the channel, which changes nothing here; for a channel without receiver: the
\* shell reader breaks, the logcat reader returns at once.
Output(s) ==
  /\ reader[s] = "reading" /\ process[s] = "busy" /\ bus /= "gone" /\ s \notin audience
  /\ IF s \in Logcats
       THEN reader' = [reader EXCEPT ![s] = "ended"] /\ process' = [process EXCEPT ![s] = "none"]
       ELSE reader' = [reader EXCEPT ![s] = "leaving"] /\ UNCHANGED process
  /\ UNCHANGED <<carrier, registered, shut, audience, locks, bus, current>>

\* Mutant: a reader that ends leaves its session in the map.
CleanUpForgets(s) ==
  /\ reader[s] = "leaving" /\ map = "free" /\ reader' = [reader EXCEPT ![s] = "ended"] /\ process' = [process EXCEPT ![s] = "none"]
  /\ UNCHANGED <<carrier, registered, shut, audience, locks, bus, current>>

\* The entry is removed, then the stream is dropped: CLSE or the end of the socket.
CleanUp(s) ==
  /\ reader[s] = "leaving" /\ map = "free" /\ reader' = [reader EXCEPT ![s] = "ended"]
  /\ registered' = registered \ {s} /\ process' = [process EXCEPT ![s] = "none"]
  /\ UNCHANGED <<carrier, shut, audience, locks, bus, current>>

\* shell_write clones the writer under the map's lock and waits for the writer's after it, which
\* changes nothing; without an entry, or with a writer that was shut down meanwhile, it fails.
\* shell_resize does the same with a packet that changes nothing here.
Write(s) ==
  /\ s \in registered /\ s \in Shells /\ map = "free" /\ s \notin writing
  /\ writing' = writing \union {s}
  /\ UNCHANGED <<carrier, registered, shut, reader, process, audience, map, closing, stopping, bus, current>>

\* The device, or its buffers, took what was written, input that may end the command; without a
\* device the write fails.
EndWrite(s) ==
  /\ s \in writing /\ writing' = writing \ {s}
  /\ \/ bus /= "gone" /\ process' = [process EXCEPT ![s] = "none"]
     \/ UNCHANGED process
  /\ UNCHANGED <<carrier, registered, shut, reader, audience, map, closing, stopping, bus, current>>

\* The writer of s is shut down, which waits for a write under way.
ShutDown(s) == s \notin writing /\ shut' = shut \union {s}

\* shell_close removes the entry, and then shuts its writer down.
Close(s) ==
  /\ s \in registered /\ map = "free" /\ registered' = registered \ {s} /\ closing' = closing \union {s}
  /\ UNCHANGED <<carrier, shut, reader, process, audience, map, writing, stopping, bus, current>>
Closed(s) ==
  /\ s \in closing /\ ShutDown(s) /\ closing' = closing \ {s}
  /\ UNCHANGED <<carrier, registered, reader, process, audience, map, writing, stopping, bus, current>>

\* logcat_stop: ^C to the writer of the entry, if there is one and it is not shut down first.
StopLogcat(s) ==
  /\ s \in Logcats /\ reader[s] /= "none" /\ stopping[s] = "no" /\ map = "free"
  /\ stopping' = [stopping EXCEPT ![s] = "waiting"]
  /\ \/ s \in registered /\ writing' = writing \union {s}
     \/ UNCHANGED writing
  /\ UNCHANGED <<carrier, registered, shut, reader, process, audience, map, closing, bus, current>>

\* After 200 ms what is in the map now is removed, and shut down before the map is let go of.
StoppedLogcat(s) ==
  /\ stopping[s] = "waiting" /\ s \notin writing /\ map = "free" /\ registered' = registered \ {s}
  /\ IF s \in registered THEN map' = "stop" /\ stopping' = [stopping EXCEPT ![s] = "shutting"]
     ELSE UNCHANGED map /\ stopping' = [stopping EXCEPT ![s] = "no"]
  /\ UNCHANGED <<carrier, shut, reader, process, audience, writing, closing, bus, current>>
StopShuts(s) ==
  /\ stopping[s] = "shutting" /\ ShutDown(s) /\ map' = "free" /\ stopping' = [stopping EXCEPT ![s] = "no"]
  /\ UNCHANGED <<carrier, registered, reader, process, audience, writing, closing, bus, current>>

\* The window that shows s is closed or reloaded; only a reader with output to send notices.
LoseAudience(s) ==
  /\ s \in audience /\ reader[s] = "reading" /\ process[s] = "busy" /\ audience' = audience \ {s}
  /\ UNCHANGED <<carrier, registered, shut, reader, process, locks, bus, current>>

\* reboot_device: with the map locked every session is shut down, then the request is sent, which
\* may fail or time out; current_device is cleared only when it succeeds, and the device leaves.
Sent == bus' = IF bus = "up" THEN "rebooting" ELSE bus
Reboot ==
  /\ bus = "up" /\ map = "free"
  /\ IF registered = {} THEN Sent /\ UNCHANGED map ELSE map' = "reboot" /\ UNCHANGED bus
  /\ UNCHANGED <<carrier, registered, shut, reader, process, audience, writing, closing, stopping, current>>
RebootShuts(s) ==
  /\ map = "reboot" /\ s \in registered /\ ShutDown(s) /\ registered' = registered \ {s}
  /\ IF registered = {s} THEN map' = "free" /\ Sent ELSE UNCHANGED <<map, bus>>
  /\ UNCHANGED <<carrier, reader, process, audience, writing, closing, stopping, current>>
RebootAnswered ==
  /\ bus = "rebooting"
  /\ \/ bus' = "gone" /\ current' = FALSE
     \/ bus' = "up" /\ UNCHANGED current
  /\ UNCHANGED <<carrier, registered, shut, reader, process, audience, locks>>

Unplug ==
  /\ bus /= "gone" /\ bus' = "gone"
  /\ UNCHANGED <<carrier, registered, shut, reader, process, audience, locks, current>>

Next ==
  \/ \E s \in Sessions : \/ Connect(s) \/ Register(s) \/ ReaderStops(s) \/ Output(s) \/ CleanUp(s)
                         \/ Write(s) \/ EndWrite(s) \/ Close(s) \/ Closed(s)
                         \/ StopLogcat(s) \/ StoppedLogcat(s) \/ StopShuts(s) \/ RebootShuts(s) \/ LoseAudience(s)
  \/ Reboot \/ RebootAnswered \/ Unplug

\* The steps a command or a reader takes without the device: a command that connected goes on, a
\* reader notices an end and leaves, a write fails without a device, and what keeps the map gets
\* the writers it waits for.
KeeperGoesOn == \E s \in Sessions : StopShuts(s) \/ RebootShuts(s)
Fairness ==
  /\ WF_shellVars(KeeperGoesOn)
  /\ \A s \in Sessions :
       /\ WF_shellVars(Register(s) \/ ReaderStops(s) \/ CleanUp(s))
       /\ WF_shellVars(bus = "gone" /\ EndWrite(s))

Spec == Init /\ [][Next]_shellVars /\ Fairness

------------------------------------------------------------------------------

ShellTypeOK ==
  /\ carrier \in [Sessions -> {"usb", "tcp"}]
  /\ registered \subseteq Sessions /\ shut \subseteq Sessions
  /\ reader \in [Sessions -> {"none", "connected", "reading", "leaving", "ended"}]
  /\ process \in [Sessions -> {"none", "quiet", "busy"}] /\ audience \subseteq Sessions
  /\ map \in {"free", "reboot", "stop"} /\ writing \subseteq Sessions
  /\ closing \subseteq Sessions /\ stopping \in [Sessions -> {"no", "waiting", "shutting"}]
  /\ bus \in {"up", "rebooting", "gone"} /\ current \in BOOLEAN

\* The map shows the sessions that live: one that ended is not in it, unless its logcat reader
\* found nobody to send to; and a reader whose entry is gone was told to stop, or the command that
\* removed the entry is still to tell it, once no write keeps the writer.
SessionsAreReaders == \A s \in Sessions :
  /\ reader[s] = "ended" /\ s \in registered => s \in Logcats /\ s \notin audience
  /\ reader[s] = "reading" /\ s \notin registered => s \in shut \union closing \/ stopping[s] = "shutting"

\* A session that was closed, stopped or rebooted away, or whose device left, does not keep its
\* reader, and with it the connection; except over USB while its command goes on sending, and
\* unless a write is stuck for ever, with which a reboot keeps the map and every reader waiting.
ReadersEnd ==
  (\A s \in Sessions : []<>(s \notin writing \/ bus = "gone")) =>
    \A s \in Sessions :
      \/ s \in shut /\ (carrier[s] = "tcp" \/ process[s] /= "busy")
      \/ bus = "gone" /\ reader[s] = "reading"
      ~> reader[s] = "ended"

==============================================================================
