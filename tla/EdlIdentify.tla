----------------------------- MODULE EdlIdentify ------------------------------
(***************************************************************************)
(* What EdlProtocol::identify and connect (edl.rs) exchange with a device   *)
(* in emergency download mode.  The boot ROM speaks Sahara, a loaded         *)
(* programmer speaks Firehose (XML), and the host cannot see which it is:    *)
(* it reads three fields over Sahara and, when nothing answers, tries a      *)
(* blind HELLO_RSP, a reset and a Firehose nop, in that order.               *)
(*                                                                          *)
(* The device outlives the program: a crash or a disconnect leaves it in     *)
(* the mode it was in, with its last packet unread or gone with the old      *)
(* transport.  A packet is its kind: "HELLO", "READY" (CMD_READY), "RESET"   *)
(* (RESET_RSP), "ERR" (any other binary packet), "LOG" and "RESP" (XML).     *)
(* A serial read times out; a USB read (edl_usb.rs) waits until there is     *)
(* something to return.                                                      *)
(***************************************************************************)
EXTENDS Integers, Sequences, SequencesExt

CONSTANTS
  Backends,   \* transports: "serial", "usb"
  Programmers,\* kinds of programmer: the storage it serves, whether it acknowledges
              \* only that one, whether it wants authentication, how many LUNs answer
  MaxLate     \* bound: answers that come after the host's time-out, in one identify

\* What the constants are.
IdentifyAssumption ==
  /\ Backends \subseteq {"serial", "usb"}
  /\ Programmers \subseteq [storage : {"ufs", "emmc"}, strict : BOOLEAN, auth : BOOLEAN, luns : 0 .. 8]
  /\ MaxLate \in Nat

NoProgrammer == [storage |-> "none", strict |-> FALSE, auth |-> FALSE, luns |-> 0]
NoInfo == "none"
Fields == 1 .. 3    \* ReadSerialNum, ReadHwId, ReadOemKeyHash

VARIABLES
  \* the device
  mode,      \* "hello": waits for HELLO_RSP, "command", "firehose", "hung", "resetting", "gone"
  prog,      \* the programmer that runs
  authed,    \* it was shown a token that it accepts
  inbox,     \* packets the host has not read
  \* the host
  pc, backend,
  stale,     \* history: more than one packet was unread when edl_identify began
  retry,     \* is_retry, or the second pass after PblHack: "no", "hacked", "reset"
  field,     \* the Sahara command that runs
  got,       \* the fields that were read
  active,    \* firehose_active
  reads,     \* reads done in a loop that is bounded
  cfg,       \* fh_cfg.storage_type (and sector size)
  info,      \* storage_type (and sector size) of the connection's info
  late       \* answers that came too late

devVars == <<mode, prog, authed>>
scratch == <<field, reads, retry>>
vars == <<mode, prog, authed, inbox, pc, backend, stale, retry, field, got, active, reads, cfg, info, late>>

Sahara == {"hello", "command"}
Off == {"resetting", "gone"}
Xml == {"LOG", "RESP"}
PCs == {"idle", "sahara", "drain", "blind", "ready", "switch", "reset", "resetrsp", "reopen",
        "nop", "nopread", "nopdrain", "identified", "upload", "resume", "configure", "response",
        "auth", "authdrain", "reconfigure", "retried", "probe", "connected"}

Init ==
  /\ mode = "hello" /\ prog = NoProgrammer /\ authed = FALSE /\ inbox = <<"HELLO">>
  /\ pc = "idle" /\ backend \in Backends /\ stale = FALSE /\ retry = "no" /\ field = 1 /\ got = {}
  /\ active = FALSE /\ reads = 0 /\ cfg = "ufs" /\ info = NoInfo /\ late = 0

------------------------------------------------------------------------------
(* Reading: a packet, or nothing in time.                                      *)

Receive == inbox /= <<>> /\ inbox' = Tail(inbox) /\ UNCHANGED late

\* Mutant: the serial port has no time-out.
SilenceUntilGone == inbox = <<>> /\ mode \in Off /\ UNCHANGED <<inbox, late>>

\* Nothing is there.  Over USB only a device that is gone ends the read.
Silence == inbox = <<>> /\ (backend = "serial" \/ mode \in Off) /\ UNCHANGED <<inbox, late>>

\* The answer comes after the serial time-out, and stays to be read.
Late ==
  /\ inbox /= <<>> /\ backend = "serial" /\ late < MaxLate
  /\ late' = late + 1 /\ UNCHANGED inbox

NoAnswer == Silence \/ Late

\* A write is answered by one of the sequences in "answers".
Answered(answers) == \E a \in answers : inbox' = inbox \o a

------------------------------------------------------------------------------
(* identify.                                                                   *)

\* A device that was reset has sent its HELLO when it is opened again.
Attach == IF mode = "resetting" THEN mode' = "hello" /\ inbox' = <<"HELLO">> ELSE UNCHANGED <<mode, inbox>>

\* identify_inner: open_transport, then read_sahara_identity.
Identify ==
  /\ pc \in {"idle", "reopen"} /\ mode /= "gone"
  /\ pc' = "sahara" /\ field' = 1 /\ got' = {} /\ active' = FALSE /\ reads' = 0
  /\ retry' = IF pc = "idle" THEN "no" ELSE "reset"
  /\ late' = IF pc = "idle" THEN 0 ELSE late
  /\ cfg' = "ufs" /\ info' = NoInfo
  /\ stale' = IF pc = "idle" THEN mode /= "resetting" /\ Len(inbox) > 1 ELSE stale
  /\ Attach /\ UNCHANGED <<prog, authed, backend>>

\* After the reset the device may not be there.
ReopenFails ==
  /\ pc = "reopen" /\ mode = "gone" /\ pc' = "idle"
  /\ UNCHANGED <<devVars, inbox, backend, stale, scratch, got, active, cfg, info, late>>

\* A Sahara command ended with the fields fs: the next one, the result, or the recovery.
NextField(fs) ==
  /\ got' = fs /\ reads' = 0
  /\ IF field < 3 THEN field' = field + 1 /\ UNCHANGED pc
     ELSE /\ field' = 1
          /\ pc' = IF fs /= {} THEN "identified"
                   ELSE CASE retry = "no" -> "drain" [] retry = "hacked" -> "reset" [] retry = "reset" -> "nop"
  /\ UNCHANGED <<prog, authed, backend, stale, retry, active, cfg, info>>

\* sahara_run in command mode: HELLO, HELLO_RSP, CMD_READY, the command and its data,
\* then SWITCH_MODE, which the device answers with a HELLO.
Understood == <<Head(inbox), mode>> \in {<<"HELLO", "hello">>, <<"READY", "command">>}

SaharaCommand ==
  /\ pc = "sahara" /\ inbox /= <<>> /\ Understood
  /\ inbox' = Tail(inbox) \o <<"HELLO">> /\ mode' = "hello"
  /\ NextField(got \union {field}) /\ UNCHANGED late

\* The CMD_READY of the device comes too late.
SaharaLate ==
  /\ pc = "sahara" /\ inbox /= <<>> /\ Understood
  /\ backend = "serial" /\ late < MaxLate /\ late' = late + 1
  /\ inbox' = Tail(inbox) \o <<"READY">> /\ mode' = "command"
  /\ NextField(got)

\* The packet does not parse, or is not of a device in Sahara mode.
SaharaUnexpected ==
  /\ pc = "sahara" /\ inbox /= <<>> /\ ~Understood /\ Receive
  /\ NextField(got) /\ UNCHANGED mode

SaharaTimesOut == pc = "sahara" /\ NoAnswer /\ NextField(got) /\ UNCHANGED mode

------------------------------------------------------------------------------
(* The recovery chain.                                                         *)

Goto(l) == pc' = l /\ reads' = 0 /\ UNCHANGED <<prog, authed, backend, stale, field, retry, got, active, cfg, info>>
Again == reads' = reads + 1 /\ UNCHANGED <<pc, prog, authed, backend, stale, field, retry, got, active, cfg, info>>

\* One of the up to twenty reads of drain_firehose_buffer; there are never as many packets.
Drained == UNCHANGED <<reads, pc, prog, authed, backend, stale, field, retry, got, active, cfg, info>>

\* try_pbl_hack reads up to three times to empty the transport.
PblHackDrain ==
  /\ pc = "drain" /\ UNCHANGED mode
  /\ \/ Receive /\ (IF reads < 2 THEN Again ELSE Goto("blind"))
     \/ NoAnswer /\ Goto("blind")

\* The blind HELLO_RSP, in command mode.
BlindHelloRsp ==
  /\ pc = "blind"
  /\ CASE mode = "hello" -> mode' = "command" /\ inbox' = Append(inbox, "READY") /\ Goto("ready")
       [] mode = "command" -> Answered({<<>>, <<"ERR">>}) /\ Goto("ready") /\ UNCHANGED mode
       [] mode = "firehose" -> Answered({<<>>, <<"LOG">>}) /\ Goto("ready") /\ UNCHANGED mode
       [] mode = "hung" -> Goto("ready") /\ UNCHANGED <<mode, inbox>>
       [] OTHER -> Goto("reset") /\ UNCHANGED <<mode, inbox>>
  /\ UNCHANGED late

\* Mutant: a device that does not take the blind HELLO_RSP is not reset.
PblHackReadyOnly ==
  /\ pc = "ready" /\ UNCHANGED mode
  /\ \/ Receive /\ Goto(IF Head(inbox) = "READY" THEN "switch" ELSE "nop")
     \/ NoAnswer /\ Goto("nop")

PblHackReady ==
  /\ pc = "ready" /\ UNCHANGED mode
  /\ \/ Receive /\ Goto(IF Head(inbox) = "READY" THEN "switch" ELSE "reset")
     \/ NoAnswer /\ Goto("reset")

\* SWITCH_MODE: the device sends a fresh HELLO, and the three commands run again.
PblHackSwitchMode ==
  /\ pc = "switch" /\ retry' = "hacked" /\ reads' = 0 /\ UNCHANGED <<prog, authed, backend, stale, field, got, active, cfg, info, late>>
  /\ CASE mode = "command" -> mode' = "hello" /\ inbox' = Append(inbox, "HELLO") /\ pc' = "sahara"
       [] mode \in Off -> pc' = "reset" /\ UNCHANGED <<mode, inbox>>
       [] OTHER -> pc' = "sahara" /\ Answered({<<>>, <<"ERR">>}) /\ UNCHANGED mode

\* try_sahara_reset sends RESET_REQ: the device acknowledges it and leaves the bus.
SaharaReset ==
  /\ pc = "reset" /\ UNCHANGED late
  /\ CASE mode \in Sahara -> mode' = "resetting" /\ inbox' = Append(inbox, "RESET") /\ Goto("resetrsp")
       [] mode = "firehose" -> Answered({<<>>, <<"LOG">>}) /\ Goto("resetrsp") /\ UNCHANGED mode
       [] mode = "hung" -> Goto("resetrsp") /\ UNCHANGED <<mode, inbox>>
       [] OTHER -> Goto("nop") /\ UNCHANGED <<mode, inbox>>

\* RESET_RSP: the transport is dropped, and opened again two and a half seconds later.
SaharaResetRsp ==
  /\ pc = "resetrsp"
  /\ \/ Receive /\ Goto(IF Head(inbox) = "RESET" THEN "reopen" ELSE "nop")
     \/ NoAnswer /\ Goto("nop")
  /\ UNCHANGED mode

\* probe_firehose_nop: the nop, and up to five reads until some XML is found.
NopProbe ==
  /\ pc = "nop" /\ UNCHANGED <<mode, late>>
  /\ CASE mode = "firehose" -> Answered({<<"RESP">>, <<"LOG", "RESP">>}) /\ Goto("nopread")
       [] mode \in Sahara -> Answered({<<>>, <<"ERR">>}) /\ Goto("nopread")
       [] mode \in {"hung", "resetting"} -> Goto("nopread") /\ UNCHANGED inbox
       [] OTHER -> Goto("identified") /\ UNCHANGED inbox

NopRead ==
  /\ pc = "nopread" /\ UNCHANGED mode
  /\ \/ Receive /\ (IF Head(inbox) \in Xml THEN Goto("nopdrain")
                    ELSE IF reads < 4 THEN Again ELSE Goto("identified"))
     \/ NoAnswer /\ Goto("identified")

\* drain_firehose_buffer, then the probe has found a programmer.
NopDrain ==
  /\ pc = "nopdrain" /\ UNCHANGED mode
  /\ \/ Receive /\ Drained
     \/ /\ NoAnswer /\ active' = TRUE /\ pc' = "identified" /\ reads' = 0
        /\ UNCHANGED <<prog, authed, backend, stale, field, retry, got, cfg, info>>

------------------------------------------------------------------------------
(* connect: the programmer is uploaded, unless one runs, and configured.       *)

\* With the transport that identify left, or, when nothing is stored, a fresh one.
Connect ==
  /\ \/ pc = "identified"
     \/ pc = "idle" /\ mode /= "gone"
  /\ IF pc = "idle"
       THEN pc' = "upload" /\ got' = {} /\ active' = FALSE /\ late' = 0 /\ Attach
       ELSE pc' = (IF active THEN "resume" ELSE "upload") /\ UNCHANGED <<mode, inbox, got, active, late>>
  /\ reads' = 0 /\ cfg' = "ufs" /\ info' = NoInfo
  /\ UNCHANGED <<prog, authed, backend, stale, retry, field>>

\* The command ends with an error: the transport is dropped.
ConnectFails(l) == pc = l /\ Goto("idle") /\ UNCHANGED mode

\* sahara_run in image mode: the device reads the image and starts it, or rejects it.
UploadProgrammer ==
  \/ /\ pc = "upload" /\ inbox /= <<>> /\ Head(inbox) = "HELLO" /\ mode = "hello"
     /\ \E p \in Programmers, log \in {<<>>, <<"LOG">>} :
          prog' = p /\ inbox' = Tail(inbox) \o log
     /\ mode' = "firehose" /\ authed' = FALSE /\ pc' = "configure" /\ reads' = 0
     /\ UNCHANGED <<backend, stale, field, retry, got, active, cfg, info, late>>
  \/ ConnectFails("upload") /\ (Receive \/ NoAnswer)

\* Three rounds of drain_firehose_buffer.
ResumeDrain ==
  /\ pc = "resume" /\ UNCHANGED mode
  /\ \/ Receive /\ Drained
     \/ NoAnswer /\ (IF reads < 2 THEN Again ELSE Goto("configure"))

Other(s) == IF s = "ufs" THEN "emmc" ELSE "ufs"
Configurable == ~prog.auth \/ authed
Refuses == prog.strict /\ cfg /= prog.storage

\* firehose_configure only writes.  Some log may come before the response.
Configure ==
  /\ pc \in {"configure", "reconfigure"} /\ UNCHANGED <<mode, late>>
  /\ IF mode = "gone" THEN Goto("idle") /\ UNCHANGED inbox
     ELSE Answered({<<"RESP">>, <<"LOG", "RESP">>}) /\ Goto(IF pc = "configure" THEN "response" ELSE "retried")

\* apply_configure_response: the storage that the programmer names, if it does.
ApplyConfigure == cfg' \in {prog.storage, cfg}

\* read_firehose_response_raw reads up to the response, and its text decides.
ConfigureResponse ==
  /\ pc = "response" /\ UNCHANGED <<devVars, backend, stale, field, retry, got, active, info>>
  /\ \/ Receive /\ Head(inbox) /= "RESP" /\ UNCHANGED <<reads, pc, cfg>>
     \/ /\ Receive /\ Head(inbox) = "RESP" /\ reads' = 0
        /\ CASE ~Configurable -> pc' = "auth" /\ UNCHANGED cfg
             [] Configurable /\ Refuses -> pc' = "reconfigure" /\ cfg' = Other(cfg)
             [] OTHER -> pc' = "probe" /\ ApplyConfigure
     \/ NoAnswer /\ pc' = "probe" /\ reads' = 0 /\ UNCHANGED cfg   \* "proceeding with defaults"

\* try_xiaomi_edl_auth: a token is accepted, or both are refused and connect fails.
Authenticate ==
  /\ pc = "auth" /\ reads' = 0 /\ UNCHANGED <<mode, prog, inbox, backend, stale, field, retry, got, active, cfg, info, late>>
  /\ \/ mode = "firehose" /\ authed' = TRUE /\ pc' = "authdrain"
     \/ UNCHANGED authed /\ pc' = "idle"

AuthDrain ==
  /\ pc = "authdrain" /\ UNCHANGED mode
  /\ \/ Receive /\ Drained
     \/ NoAnswer /\ Goto("reconfigure")

\* The response to the second configure is not looked at but for its values.
ReconfigureResponse ==
  /\ pc = "retried" /\ UNCHANGED <<devVars, backend, stale, field, retry, got, active, info>>
  /\ \/ Receive /\ Head(inbox) /= "RESP" /\ UNCHANGED <<reads, pc, cfg>>
     \/ /\ Receive /\ Head(inbox) = "RESP" /\ pc' = "probe" /\ reads' = 0
        /\ (IF Refuses THEN UNCHANGED cfg ELSE ApplyConfigure)
     \/ NoAnswer /\ pc' = "probe" /\ reads' = 0 /\ UNCHANGED cfg

\* The storage info of eight LUNs is asked for.  More than one answers: "ufs".
ProbeLuns ==
  /\ pc = "probe" /\ pc' = "connected"
  /\ LET luns == IF mode = "gone" THEN 0 ELSE prog.luns IN
     IF luns > 1 THEN info' = "ufs" /\ UNCHANGED cfg ELSE info' = "emmc" /\ cfg' = "emmc"
  /\ UNCHANGED <<devVars, inbox, backend, stale, scratch, got, active, late>>

------------------------------------------------------------------------------
(* Around them.                                                                *)

\* The program ends, in the middle of an exchange or not, or drops the connection.
\* What was not read is lost or found by the next transport.
Crash ==
  /\ pc \notin {"idle", "reopen"} /\ Goto("idle") /\ UNCHANGED late
  /\ inbox' \in {inbox, <<>>}
  /\ mode' \in {mode} \union (IF pc = "sahara" /\ mode = "hello" /\ inbox' = <<>> THEN {"command"} ELSE {})

\* Nothing but a power cycle helps.
Hang ==
  /\ mode \in Sahara /\ mode' = "hung"
  /\ UNCHANGED <<prog, authed, inbox, pc, backend, stale, scratch, got, active, cfg, info, late>>

Unplug ==
  /\ mode /= "gone" /\ mode' = "gone" /\ inbox' = <<>> /\ prog' = NoProgrammer /\ authed' = FALSE
  /\ UNCHANGED <<pc, backend, stale, scratch, got, active, cfg, info, late>>

\* A device that is plugged in again is another one for the transport: only once the
\* program has noticed.
Plug ==
  /\ mode = "gone" /\ pc \in {"idle", "reopen"} /\ mode' = "hello" /\ inbox' = <<"HELLO">>
  /\ UNCHANGED <<prog, authed, pc, backend, stale, scratch, got, active, cfg, info, late>>

Host ==
  \/ SaharaCommand \/ SaharaLate \/ SaharaUnexpected \/ SaharaTimesOut \/ ReopenFails
  \/ (Identify /\ pc = "reopen")
  \/ PblHackDrain \/ BlindHelloRsp \/ PblHackReady \/ PblHackSwitchMode
  \/ SaharaReset \/ SaharaResetRsp \/ NopProbe \/ NopRead \/ NopDrain
  \/ UploadProgrammer \/ ResumeDrain \/ Configure \/ ConfigureResponse
  \/ Authenticate \/ AuthDrain \/ ReconfigureResponse \/ ProbeLuns

Next == Host \/ Identify \/ Connect \/ Crash \/ Hang \/ Unplug \/ Plug

\* A command that was started runs on.
Spec == Init /\ [][Next]_vars /\ WF_vars(Host)

------------------------------------------------------------------------------

IdentifyTypeOK ==
  /\ mode \in Sahara \union Off \union {"firehose", "hung"} /\ prog \in Programmers \union {NoProgrammer} /\ authed \in BOOLEAN
  /\ inbox \in Seq({"HELLO", "READY", "RESET", "ERR"} \union Xml)
  /\ pc \in PCs /\ backend \in Backends /\ stale \in BOOLEAN /\ retry \in {"no", "hacked", "reset"} /\ field \in Fields
  /\ got \subseteq Fields /\ active \in BOOLEAN /\ reads \in 0 .. 4
  /\ cfg \in {"ufs", "emmc"} /\ info \in {"ufs", "emmc", NoInfo} /\ late \in 0 .. MaxLate

\* edl_identify returned, the device is alive and answered in time.
Identified == pc = "identified" /\ mode \notin {"hung", "gone"} /\ late = 0

\* A device in Sahara mode is recovered, whatever the last program left it in, with one
\* packet unread or none: all three fields are read, or no read at all comes to an end.
SaharaRecovered == Identified /\ ~stale /\ mode \in Sahara => got = Fields

\* What connect relies on: the transport that identify returns holds the HELLO that
\* the upload starts with.
HelloPending == Identified /\ ~stale /\ got /= {} => mode = "hello" /\ Head(inbox) = "HELLO"

\* A programmer from an earlier session is found, and nothing else is taken for one,
\* even by answers that come late.
FirehoseFound ==
  /\ Identified /\ mode = "firehose" => active
  /\ active /\ pc /= "idle" => mode \in {"firehose", "gone"}

\* Over serial, identify comes to an end.
SerialIdentifyReturns ==
  backend = "serial" /\ pc = "sahara" ~> pc \in {"identified", "idle"}

\* The next Firehose command of a connection does not read the answer to an earlier one.
InStep == pc = "connected" /\ late = 0 => ~Contains(inbox, "RESP")

\* No programmer that wants authentication is configured without it, unless its
\* answer was not seen.
AuthenticatedFirst == pc = "connected" /\ late = 0 /\ mode = "firehose" => Configurable

\* What identify and connect promise of the device they leave.
IdentifyExact == SaharaRecovered /\ HelloPending /\ FirehoseFound /\ InStep /\ AuthenticatedFirst

==============================================================================
