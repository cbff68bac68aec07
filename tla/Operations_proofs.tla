--------------------------- MODULE Operations_proofs ---------------------------
(***************************************************************************)
(* What ADB and Fastboot operations do with a phone, for every value of the  *)
(* constants: the blocks of a sideload, the Fastboot flash, the map of       *)
(* terminals, and the dumps, writes and installs.  The variables of one      *)
(* operation do not depend on those of another, so each has an inductive     *)
(* invariant of its own.  At the end, with what the other modules prove of   *)
(* the EDL operations, the types of all operations at once.                  *)
(***************************************************************************)
EXTENDS OperationsIdentify_proofs, OperationsEdl_proofs, OperationsFiles_proofs, TLAPS

(* A step of the composition is a step of the module or leaves its variables alone. *)

\* The blocks of a sideload.
LEMMA SideloadSteps == [Next]_operationVars => Sideload!Next \/ UNCHANGED sideloadVars
  BY DEF Next, Only, operationVars

\* The Fastboot flash.
LEMMA FastbootSteps == [Next]_operationVars => Fastboot!Next \/ UNCHANGED fastbootVars
  BY DEF Next, Only, operationVars

\* Terminals and logcat sessions.
LEMMA ShellSteps == [Next]_operationVars => Shell!Next \/ UNCHANGED shellVars
  BY DEF Next, Only, operationVars

\* Dumps, writes and installs.
LEMMA DumpSteps == [Next]_operationVars => Dump!Next \/ UNCHANGED dumpVars
  BY DEF Next, Only, operationVars

\* What is assumed of the constants: a sideload block is not empty, a length is a natural.
LEMMA SideloadConstants == Sideload!SideloadAssumption
  BY OperationsAssumption DEF OperationsAssumption

\* A file is not longer than validate_firmware lets it be, and a u32 holds some length.
LEMMA FastbootConstants == Fastboot!FastbootAssumption
  BY OperationsAssumption DEF OperationsAssumption

\* A request is of places and sizes in the device.
LEMMA DumpConstants == Dump!DumpAssumption
  BY OperationsAssumption DEF OperationsAssumption

------------------------------------------------------------------------------
(* Sideload: sideload.rs. *)

\* What BlockRead computes, the form in which the reply is kept: it ends where the next block
\* starts or where the package ends, whichever comes first.
ReplyIsBlock ==
  /\ reply.from = reply.block * BlockSize
  /\ reply.size = IF length - reply.from < BlockSize THEN length - reply.from ELSE BlockSize

SideloadInv ==
  /\ serving \in {"idle", "serving", "done", "failed"} /\ length \in Lengths \union {0}
  /\ reply \in [block : 0 .. MaxBlock, from : Nat, size : 0 .. BlockSize]
  /\ serving = "idle" => reply = Sideload!NoReply
  /\ reply /= Sideload!NoReply => ReplyIsBlock

\* A place lies in block b, b its quotient by the block size, between b times the size and the next.
LEMMA QuotientInterval ==
  ASSUME NEW n \in Nat \ {0}, NEW p \in Nat, NEW b \in Nat
  PROVE  p \div n = b <=> b * n <= p /\ p < b * n + n
<1> DEFINE q == p \div n
<1>1. q \in Nat /\ q * n <= p /\ p < q * n + n
  BY Z3
<1>2. b * n <= p /\ p < b * n + n => b = q
  <2> SUFFICES ASSUME b * n <= p, p < b * n + n PROVE b = q
    OBVIOUS
  <2> HIDE DEF q
  <2>1. ~ (b + 1 <= q)
    <3>1. b + 1 <= q => (b + 1) * n <= q * n
      BY <1>1, Z3
    <3> QED BY <1>1, <3>1, Z3
  <2>2. ~ (q + 1 <= b)
    <3>1. q + 1 <= b => (q + 1) * n <= b * n
      BY <1>1, Z3
    <3> QED BY <1>1, <3>1, Z3
  <2> QED BY <1>1, <2>1, <2>2
<1> QED BY <1>1, <1>2

\* It holds in every state.
THEOREM SideloadInvariance == Spec => []SideloadInv
<1> USE SideloadConstants DEF Sideload!SideloadAssumption
<1>1. Init => SideloadInv
  BY DEF Init, Sideload!Init, SideloadInv, Sideload!NoReply
<1>2. SideloadInv /\ [Next]_operationVars => SideloadInv'
  <2> SUFFICES ASSUME SideloadInv, [Next]_operationVars PROVE SideloadInv'
    OBVIOUS
  <2>s. Sideload!Next \/ UNCHANGED sideloadVars
    BY SideloadSteps
  <2>1. CASE Sideload!Start
    BY <2>1 DEF Sideload!Start, SideloadInv, ReplyIsBlock, Sideload!NoReply
  <2>2. ASSUME NEW b \in 0 .. MaxBlock, Sideload!Request(b) PROVE SideloadInv'
    <3>1. CASE Sideload!BlockRead(b).size = 0
      BY <2>2, <3>1 DEF Sideload!Request, SideloadInv, ReplyIsBlock
    <3>2. CASE Sideload!BlockRead(b).size /= 0
      <4>1. length \in Nat /\ b \in Nat /\ b * BlockSize \in Nat
        BY Z3 DEF SideloadInv
      <4>2. reply' = Sideload!BlockRead(b) /\ UNCHANGED <<serving, length>> /\ serving = "serving"
        BY <2>2, <3>2 DEF Sideload!Request
      <4>3. b * BlockSize < length
        BY <3>2, <4>1 DEF Sideload!BlockRead, Sideload!AtMost
      <4> DEFINE rest == length - b * BlockSize
                 size == IF rest < BlockSize THEN rest ELSE BlockSize
      <4>4. Sideload!BlockRead(b) = [block |-> b, from |-> b * BlockSize, size |-> size]
        BY <4>1, <4>3 DEF Sideload!BlockRead, Sideload!AtMost
      <4>5. size \in 0 .. BlockSize
        BY <4>1, <4>3
      <4> HIDE DEF size
      <4>6. reply' \in [block : 0 .. MaxBlock, from : Nat, size : 0 .. BlockSize]
        BY <4>1, <4>2, <4>4, <4>5
      <4>7. ReplyIsBlock'
        BY <4>2, <4>4 DEF ReplyIsBlock, size
      <4> QED BY <4>2, <4>6, <4>7 DEF SideloadInv
    <3> QED BY <3>1, <3>2
  <2>3. CASE Sideload!End
    BY <2>3 DEF Sideload!End, SideloadInv, ReplyIsBlock
  <2>4. CASE UNCHANGED sideloadVars
    BY <2>4 DEF sideloadVars, SideloadInv, ReplyIsBlock
  <2> QED BY <2>s, <2>1, <2>2, <2>3, <2>4 DEF Sideload!Next
<1> QED BY <1>1, <1>2, PTL DEF Spec

\* The type invariant of sideload.rs, for every block size and package.
THEOREM SideloadTypes == Spec => []Sideload!SideloadTypeOK
<1>1. SideloadInv => Sideload!SideloadTypeOK
  BY DEF SideloadInv, Sideload!SideloadTypeOK
<1> QED BY <1>1, SideloadInvariance, PTL

\* calculate_block_read: the bytes of every reply are exactly those places of the package whose
\* quotient by the block size is the block that was asked for.
THEOREM BlocksMakeThePackage == Spec => []BlockExact
<1>1. SideloadInv => BlockExact
  <2> SUFFICES ASSUME SideloadInv, reply /= Sideload!NoReply
               PROVE  {reply.from + i : i \in 0 .. reply.size - 1}
                        = {p \in 0 .. length - 1 : p \div BlockSize = reply.block}
    BY DEF BlockExact, Sideload!BlockExact
  <2> DEFINE b == reply.block
             n == BlockSize
  <2>1. b \in Nat /\ n \in Nat \ {0} /\ length \in Nat /\ reply.size \in Nat /\ reply.from \in Nat
    BY SideloadConstants DEF SideloadInv, Sideload!SideloadAssumption
  <2>2. reply.from = b * n
        /\ reply.size = IF length - reply.from < n THEN length - reply.from ELSE n
    BY DEF SideloadInv, ReplyIsBlock
  <2>3. ASSUME NEW i \in 0 .. reply.size - 1
        PROVE  reply.from + i \in 0 .. length - 1 /\ (reply.from + i) \div n = b
    <3>1. reply.from + i \in 0 .. length - 1 /\ reply.from + i < reply.from + n
      BY <2>1, <2>2
    <3>2. b * n <= reply.from + i /\ reply.from + i < b * n + n
      BY <2>1, <2>2, <3>1
    <3> DEFINE p == reply.from + i
    <3>3. p \in Nat
      BY <3>1
    <3> HIDE DEF b, n, p
    <3>4. p \div n = b
      BY <2>1, <3>2, <3>3, QuotientInterval DEF p
    <3> QED BY <3>1, <3>4 DEF p
  <2>4. ASSUME NEW p \in 0 .. length - 1, p \div n = b
        PROVE  p - reply.from \in 0 .. reply.size - 1 /\ p = reply.from + (p - reply.from)
    <3>1. b * n <= p /\ p < b * n + n
      <4> HIDE DEF b, n
      <4> QED BY <2>1, <2>4, QuotientInterval
    <3>2. reply.from <= p /\ p < reply.from + n
      BY <2>2, <3>1
    <3> QED BY <2>1, <2>2, <3>2
  <2> HIDE DEF b, n
  <2>5. {reply.from + i : i \in 0 .. reply.size - 1} \subseteq {p \in 0 .. length - 1 : p \div n = b}
    BY <2>3
  <2>6. {p \in 0 .. length - 1 : p \div n = b} \subseteq {reply.from + i : i \in 0 .. reply.size - 1}
    BY <2>4
  <2> QED BY <2>5, <2>6 DEF b, n
<1> QED BY <1>1, SideloadInvariance, PTL

------------------------------------------------------------------------------
(* Fastboot: flash_firmware. *)

\* An answer is one, and stays one in the queue.
LEMMA FastbootAnswers ==
  /\ Fastboot!Okay \in Fastboot!Answer /\ Fastboot!Fail \in Fastboot!Answer
  /\ \A n \in 0 .. MaxDownload : Fastboot!Data(n) \in Fastboot!Answer
  /\ Fastboot!Okay /= Fastboot!Fail /\ Fastboot!Okay.is /= "DATA" /\ Fastboot!Fail.is /= "DATA"
  /\ \A n \in 0 .. MaxDownload : Fastboot!Data(n).size = n
  BY FastbootConstants DEF Fastboot!FastbootAssumption, Fastboot!Answer, Fastboot!Okay, Fastboot!Fail, Fastboot!Data

\* The types, with what they need to be inductive: a download is not larger than u32::MAX lets it be, and
\* no more is sent than was announced.
FastbootSizes ==
  /\ Fastboot!FastbootTypeOK
  /\ phone = "data" => missing > 0
  /\ flash \in {"reading", "opening", "download", "data"} => sent = 0 /\ firmware > 0
  /\ flash \in {"opening", "download", "data", "sending"} => firmware <= MaxDownload
  /\ flash = "sending" => sent <= announced

\* What the device does with a chunk or a command keeps its types.
LEMMA DeviceTypes ==
  ASSUME FastbootSizes, Fastboot!Swallows \/ (buffer' = buffer /\ Fastboot!TakesChunk)
  PROVE  /\ missing' \in 0 .. MaxDownload /\ phone' \in {"command", "data"} /\ buffer' \in {"none", "whole", "other"}
         /\ answers' \in Seq(Fastboot!Answer) /\ (phone' = "data" => missing' > 0)
<1> USE FastbootConstants DEF Fastboot!FastbootAssumption, FastbootSizes, Fastboot!FastbootTypeOK
<1>0. answers \in Seq(Fastboot!Answer) /\ Fastboot!Okay \in Fastboot!Answer /\ Fastboot!Fail \in Fastboot!Answer
  BY FastbootAnswers
<1>1. ASSUME NEW content, Fastboot!Downloaded(content)
      PROVE  answers' \in Seq(Fastboot!Answer) /\ missing' = 0 /\ phone' = "command"
  <2>1. Append(answers, Fastboot!Okay) \in Seq(Fastboot!Answer)
    BY <1>0
  <2>2. <<Fastboot!Okay, Fastboot!Fail>> \in Seq(Fastboot!Answer)
    BY <1>0
  <2>3. answers \o <<Fastboot!Okay, Fastboot!Fail>> \in Seq(Fastboot!Answer)
    BY <1>0, <2>2
  <2> QED BY <1>1, <2>1, <2>3 DEF Fastboot!Downloaded
<1>2. ASSUME Fastboot!Says(Fastboot!Fail) PROVE answers' \in Seq(Fastboot!Answer) /\ UNCHANGED <<phone, missing, buffer>>
  BY <1>0, <1>2 DEF Fastboot!Says
<1>3. CASE Fastboot!Swallows
  BY <1>1, <1>3 DEF Fastboot!Swallows
<1>4. CASE buffer' = buffer /\ Fastboot!TakesChunk
  <2>1. CASE phone = "command"
    BY <1>2, <1>4, <2>1 DEF Fastboot!TakesChunk
  <2>2. CASE phone /= "command" /\ missing = 1
    BY <1>1, <1>4, <2>2 DEF Fastboot!TakesChunk
  <2>3. CASE phone /= "command" /\ missing /= 1
    BY <1>4, <2>3 DEF Fastboot!TakesChunk
  <2> QED BY <2>1, <2>2, <2>3
<1> QED BY <1>3, <1>4

\* So does a chunk in any case.
LEMMA ChunkKeepsBuffer == Fastboot!TakesChunk => buffer' = buffer
  BY DEF Fastboot!TakesChunk, Fastboot!Says

\* FastbootSizes holds in every state.
LEMMA FastbootSizesKept == Spec => []FastbootSizes
<1> USE FastbootConstants DEF Fastboot!FastbootAssumption
<1>1. Init => FastbootSizes
  BY DEF Init, Fastboot!Init, FastbootSizes, Fastboot!FastbootTypeOK
<1>2. FastbootSizes /\ [Next]_operationVars => FastbootSizes'
  <2> SUFFICES ASSUME FastbootSizes, [Next]_operationVars PROVE FastbootSizes'
    OBVIOUS
  <2>s. Fastboot!Next \/ UNCHANGED fastbootVars
    BY FastbootSteps
  <2> USE DEF FastbootSizes, Fastboot!FastbootTypeOK, Fastboot!Tell, Fastboot!Device
  <2>1. CASE Fastboot!Start
    <3>1. Len(answers) \in Nat
      OBVIOUS
    <3> QED BY <2>1, <3>1 DEF Fastboot!Start
  <2>2. CASE Fastboot!ReadFile
    BY <2>2 DEF Fastboot!ReadFile
  <2>3. CASE Fastboot!Open
    BY <2>3 DEF Fastboot!Open
  <2>4. CASE Fastboot!Download
    <3>1. /\ flash = "download" /\ flash' = "data" /\ UNCHANGED <<firmware, sent, announced, flashed, told, behind>>
      BY <2>4 DEF Fastboot!Download
    <3>2. CASE Fastboot!Swallows
      <4>1. /\ missing' \in 0 .. MaxDownload /\ phone' \in {"command", "data"} /\ buffer' \in {"none", "whole", "other"}
            /\ answers' \in Seq(Fastboot!Answer) /\ (phone' = "data" => missing' > 0)
        BY <3>2, DeviceTypes
      <4> QED BY <3>1, <4>1
    <3>3. CASE phone = "command" /\ Fastboot!Says(Fastboot!Fail)
      BY <3>1, <3>3, FastbootAnswers DEF Fastboot!Says
    <3>4. CASE /\ phone = "command" /\ phone' = "data" /\ missing' = firmware /\ buffer' = "whole"
               /\ answers' = Append(answers, Fastboot!Data(firmware))
      <4>1. firmware \in 1 .. MaxDownload
        BY <3>1
      <4>2. Fastboot!Data(firmware) \in Fastboot!Answer
        BY <4>1, FastbootAnswers
      <4> QED BY <3>1, <3>4, <4>1, <4>2
    <3> QED BY <2>4, <3>2, <3>3, <3>4 DEF Fastboot!Download
  <2>5. ASSUME Fastboot!Reads
        PROVE  /\ answers' \in Seq(Fastboot!Answer) /\ UNCHANGED <<phone, missing, buffer, flashed>>
               /\ Head(answers) \in Fastboot!Answer
    BY <2>5 DEF Fastboot!Reads
  <2>6. CASE Fastboot!DownloadAnswer
    <3>1. Head(answers).size \in 0 .. MaxDownload
      BY <2>5, <2>6 DEF Fastboot!DownloadAnswer, Fastboot!Answer
    <3> QED BY <2>5, <2>6, <3>1 DEF Fastboot!DownloadAnswer
  <2>7. CASE Fastboot!Send
    <3>1. flash = "sending" /\ UNCHANGED <<firmware, announced, flashed, behind>>
      BY <2>7 DEF Fastboot!Send
    <3>2. CASE sent = announced
      BY <2>7, <3>1, <3>2 DEF Fastboot!Send
    <3>3. CASE sent /= announced
      <4>1. /\ Fastboot!TakesChunk /\ sent' = sent + 1 /\ UNCHANGED told
            /\ flash' = (IF sent + 1 = firmware THEN "finish" ELSE "sending")
        BY <2>7, <3>3 DEF Fastboot!Send
      <4>2. /\ missing' \in 0 .. MaxDownload /\ phone' \in {"command", "data"} /\ buffer' \in {"none", "whole", "other"}
            /\ answers' \in Seq(Fastboot!Answer) /\ (phone' = "data" => missing' > 0)
        BY <4>1, DeviceTypes, ChunkKeepsBuffer
      <4>3. sent' \in 0 .. MaxDownload /\ sent' <= announced'
        BY <3>1, <3>3, <4>1
      <4> QED BY <3>1, <4>1, <4>2, <4>3
    <3> QED BY <3>2, <3>3
  <2>8. CASE Fastboot!FinishDownload
    BY <2>5, <2>8 DEF Fastboot!FinishDownload
  <2>9. CASE Fastboot!Command
    <3>1. /\ flash = "command" /\ flash' = "okay" /\ UNCHANGED <<firmware, sent, announced, told, behind>>
      BY <2>9 DEF Fastboot!Command
    <3>2. CASE Fastboot!Swallows /\ UNCHANGED flashed
      <4>1. /\ missing' \in 0 .. MaxDownload /\ phone' \in {"command", "data"} /\ buffer' \in {"none", "whole", "other"}
            /\ answers' \in Seq(Fastboot!Answer) /\ (phone' = "data" => missing' > 0)
        BY <3>2, DeviceTypes
      <4> QED BY <3>1, <3>2, <4>1
    <3>3. CASE phone = "command" /\ buffer /= "none" /\ flashed' = buffer /\ Fastboot!Says(Fastboot!Okay)
      BY <3>1, <3>3, FastbootAnswers DEF Fastboot!Says
    <3>4. CASE phone = "command" /\ flashed' \in {"old", "other"} /\ Fastboot!Says(Fastboot!Fail)
      BY <3>1, <3>4, FastbootAnswers DEF Fastboot!Says
    <3> QED BY <2>9, <3>2, <3>3, <3>4 DEF Fastboot!Command
  <2>10. CASE Fastboot!CommandAnswer
    BY <2>5, <2>10 DEF Fastboot!CommandAnswer
  <2>11. CASE Fastboot!TimeOut \/ Fastboot!TransferFails
    BY <2>11 DEF Fastboot!TimeOut, Fastboot!TransferFails
  <2>12. CASE Fastboot!QueryCut
    <3>1. flash = "idle" /\ UNCHANGED <<flash, firmware, sent, announced, flashed, told, behind>>
      BY <2>12 DEF Fastboot!QueryCut
    <3>2. CASE Fastboot!Swallows
      <4>1. /\ missing' \in 0 .. MaxDownload /\ phone' \in {"command", "data"} /\ buffer' \in {"none", "whole", "other"}
            /\ answers' \in Seq(Fastboot!Answer) /\ (phone' = "data" => missing' > 0)
        BY <3>2, DeviceTypes
      <4> QED BY <3>1, <4>1
    <3>3. CASE Fastboot!Says(Fastboot!Okay)
      BY <3>1, <3>3, FastbootAnswers DEF Fastboot!Says
    <3> QED BY <2>12, <3>2, <3>3 DEF Fastboot!QueryCut
  <2>13. CASE Fastboot!Restart
    BY <2>13 DEF Fastboot!Restart
  <2>14. CASE UNCHANGED fastbootVars
    BY <2>14 DEF fastbootVars
  <2> QED
    BY <2>s, <2>1, <2>2, <2>3, <2>4, <2>6, <2>7, <2>8, <2>9, <2>10, <2>11, <2>12, <2>13, <2>14 DEF Fastboot!Next
<1> QED BY <1>1, <1>2, PTL DEF Spec

\* The type invariant: in particular what is sent and what the device misses stay below u32::MAX.
THEOREM FastbootTypes == Spec => []Fastboot!FastbootTypeOK
<1>1. FastbootSizes => Fastboot!FastbootTypeOK
  BY DEF FastbootSizes
<1> QED BY <1>1, FastbootSizesKept, PTL

\* A flash that began with no answer unread and the device are in step: an answer that is read is the one to
\* the last command, DATA means that the device waits for all of this file, and OKAY that it has it.  Where the
\* device was in an earlier download, the first answer is none to `download` and ends the flash.
InStep ==
  /\ flash \in {"reading", "opening", "download"} => answers = <<>>
  /\ flash = "data" =>
       \/ answers = <<Fastboot!Data(firmware)>> /\ phone = "data" /\ missing = firmware /\ buffer = "whole"
       \/ answers /= <<>> => Head(answers).is /= "DATA"
  /\ flash = "sending" =>
       /\ answers = <<>> /\ announced = firmware /\ sent < firmware
       /\ phone = "data" /\ missing = firmware - sent /\ buffer = "whole"
  /\ flash = "finish" =>
       answers = <<Fastboot!Okay>> /\ phone = "command" /\ buffer = "whole"
  /\ flash = "command" => answers = <<>> /\ phone = "command" /\ buffer = "whole"
  /\ flash = "okay" => (answers = <<Fastboot!Okay>> /\ flashed = "whole") \/ answers = <<Fastboot!Fail>>
  /\ told = "ok" => flashed = "whole"
FastbootInv == (flash /= "idle" => told = "none") /\ (behind = 0 => InStep)

\* It holds in every state.
THEOREM FastbootInvariance == Spec => []FastbootInv
<1> USE FastbootConstants DEF Fastboot!FastbootAssumption
<1>1. Init => FastbootInv
  BY DEF Init, Fastboot!Init, FastbootInv, InStep
<1>2. FastbootSizes /\ FastbootInv /\ [Next]_operationVars => FastbootInv'
  <2> SUFFICES ASSUME FastbootSizes, FastbootInv, [Next]_operationVars PROVE FastbootInv'
    OBVIOUS
  <2>s. Fastboot!Next \/ UNCHANGED fastbootVars
    BY FastbootSteps
  <2>t. /\ answers \in Seq(Fastboot!Answer) /\ sent \in Nat /\ announced \in Nat /\ missing \in Nat /\ firmware \in Nat
        /\ phone \in {"command", "data"}
        /\ flash \in {"idle", "reading", "opening", "download", "data", "sending", "finish", "command", "okay"}
    BY DEF FastbootSizes, Fastboot!FastbootTypeOK
  <2> USE DEF FastbootInv, Fastboot!Tell, Fastboot!Device
  <2>1. CASE Fastboot!Start
    <3>1. Len(answers) = 0 => answers = <<>>
      BY <2>t
    <3> QED BY <2>1, <3>1 DEF Fastboot!Start, InStep
  <2>2. CASE Fastboot!ReadFile
    BY <2>2 DEF Fastboot!ReadFile, InStep
  <2>3. CASE Fastboot!Open
    BY <2>3 DEF Fastboot!Open, InStep
  <2>4. CASE Fastboot!Download
    <3>1. /\ flash = "download" /\ flash' = "data" /\ UNCHANGED <<firmware, sent, announced, flashed, told, behind>>
      BY <2>4 DEF Fastboot!Download
    <3> SUFFICES ASSUME behind = 0 PROVE InStep'
      BY <3>1
    <3>2. answers = <<>> /\ told = "none"
      BY <3>1 DEF InStep
    <3>3. CASE Fastboot!Swallows
      <4>1. \/ answers' = <<>>
            \/ answers' = Append(<<>>, Fastboot!Okay)
            \/ answers' = <<>> \o <<Fastboot!Okay, Fastboot!Fail>>
        BY <3>2, <3>3 DEF Fastboot!Swallows, Fastboot!Downloaded
      <4>2. Append(<<>>, Fastboot!Okay) = <<Fastboot!Okay>> /\ <<>> \o <<Fastboot!Okay, Fastboot!Fail>> = <<Fastboot!Okay, Fastboot!Fail>>
        OBVIOUS
      <4>3. Head(<<Fastboot!Okay>>) = Fastboot!Okay /\ Head(<<Fastboot!Okay, Fastboot!Fail>>) = Fastboot!Okay
        OBVIOUS
      <4>4. answers' /= <<>> => Head(answers').is /= "DATA"
        BY <4>1, <4>2, <4>3, FastbootAnswers
      <4> QED BY <3>1, <3>2, <4>4 DEF InStep
    <3>4. CASE phone = "command" /\ Fastboot!Says(Fastboot!Fail)
      <4>1. answers' = <<Fastboot!Fail>>
        BY <3>2, <3>4 DEF Fastboot!Says
      <4>2. Head(answers').is /= "DATA"
        BY <4>1, FastbootAnswers
      <4> QED BY <3>1, <3>2, <4>2 DEF InStep
    <3>5. CASE /\ phone' = "data" /\ missing' = firmware /\ buffer' = "whole"
               /\ answers' = Append(answers, Fastboot!Data(firmware))
      <4>1. answers' = <<Fastboot!Data(firmware)>>
        BY <3>2, <3>5
      <4>2. Fastboot!Data(firmware)' = Fastboot!Data(firmware)
        BY <3>1 DEF Fastboot!Data
      <4> QED BY <3>1, <3>2, <3>5, <4>1, <4>2 DEF InStep
    <3> QED BY <2>4, <3>3, <3>4, <3>5 DEF Fastboot!Download
  <2>5. CASE Fastboot!DownloadAnswer
    <3>1. /\ flash = "data" /\ answers /= <<>> /\ answers' = Tail(answers)
          /\ UNCHANGED <<firmware, sent, behind, phone, missing, buffer, flashed>>
          /\ IF Head(answers).is = "DATA"
               THEN flash' = "sending" /\ announced' = Head(answers).size /\ UNCHANGED told
               ELSE flash' = "idle" /\ told' = "failed" /\ UNCHANGED announced
      BY <2>5 DEF Fastboot!DownloadAnswer, Fastboot!Reads
    <3>2. CASE Head(answers).is /= "DATA"
      BY <3>1, <3>2 DEF InStep
    <3>3. CASE Head(answers).is = "DATA"
      <4> SUFFICES ASSUME behind = 0 PROVE InStep'
        BY <3>1, <3>3
      <4>1. answers = <<Fastboot!Data(firmware)>> /\ phone = "data" /\ missing = firmware /\ buffer = "whole"
        BY <3>1, <3>3 DEF InStep
      <4>2. Head(answers) = Fastboot!Data(firmware) /\ Tail(answers) = <<>>
        BY <4>1
      <4>3. firmware \in 1 .. MaxDownload /\ sent = 0
        BY <2>t, <3>1 DEF FastbootSizes
      <4>4. announced' = firmware
        BY <3>1, <3>3, <4>2, <4>3, FastbootAnswers
      <4>5. told' = "none"
        BY <3>1, <3>3
      <4> QED BY <3>1, <3>3, <4>1, <4>2, <4>3, <4>4, <4>5 DEF InStep
    <3> QED BY <3>2, <3>3
  <2>6. CASE Fastboot!Send
    <3>1. flash = "sending" /\ UNCHANGED <<firmware, announced, flashed, behind>> /\ told = "none"
      BY <2>6 DEF Fastboot!Send
    <3>2. CASE sent = announced
      BY <2>6, <3>1, <3>2 DEF Fastboot!Send, InStep
    <3>3. CASE sent /= announced
      <4>1. /\ Fastboot!TakesChunk /\ sent' = sent + 1 /\ UNCHANGED told
            /\ flash' = (IF sent + 1 = firmware THEN "finish" ELSE "sending")
        BY <2>6, <3>3 DEF Fastboot!Send
      <4> SUFFICES ASSUME behind = 0 PROVE InStep'
        BY <3>1, <4>1
      <4>2. /\ answers = <<>> /\ announced = firmware /\ sent < firmware
            /\ phone = "data" /\ missing = firmware - sent /\ buffer = "whole"
        BY <3>1 DEF InStep
      <4>3. buffer' = "whole"
        BY <4>1, <4>2, ChunkKeepsBuffer
      <4>4. CASE missing = 1
        <5>1. phone' = "command" /\ answers' = Append(<<>>, Fastboot!Okay)
          BY <4>1, <4>2, <4>4 DEF Fastboot!TakesChunk, Fastboot!Downloaded
        <5>2. answers' = <<Fastboot!Okay>>
          BY <5>1
        <5>3. sent + 1 = firmware
          BY <2>t, <4>2, <4>4
        <5> QED BY <3>1, <4>1, <4>3, <5>1, <5>2, <5>3 DEF InStep
      <4>5. CASE missing /= 1
        <5>1. missing' = missing - 1 /\ UNCHANGED <<phone, answers>>
          BY <4>1, <4>2, <4>5 DEF Fastboot!TakesChunk
        <5>2. sent + 1 < firmware /\ missing' = firmware - (sent + 1)
          BY <2>t, <4>2, <4>5, <5>1
        <5> QED BY <3>1, <4>1, <4>2, <4>3, <5>1, <5>2 DEF InStep
      <4> QED BY <4>4, <4>5
    <3> QED BY <3>2, <3>3
  <2>7. CASE Fastboot!FinishDownload
    <3>1. flash = "finish" /\ UNCHANGED <<firmware, sent, announced, behind>> /\ told = "none"
      BY <2>7 DEF Fastboot!FinishDownload
    <3>2. CASE flash' = "idle" /\ told' \in {"failed"}
      BY <3>1, <3>2 DEF InStep
    <3>3. CASE flash' = "command"
      <4>1. answers' = Tail(answers) /\ UNCHANGED <<phone, missing, buffer, flashed, told>>
        BY <2>7, <3>1, <3>3 DEF Fastboot!FinishDownload, Fastboot!Reads
      <4> SUFFICES ASSUME behind = 0 PROVE InStep'
        BY <3>1, <3>3, <4>1
      <4>2. answers = <<Fastboot!Okay>> /\ phone = "command" /\ buffer = "whole"
        BY <3>1 DEF InStep
      <4>3. answers' = <<>>
        BY <4>1, <4>2
      <4> QED BY <3>1, <3>3, <4>1, <4>2, <4>3 DEF InStep
    <3> QED BY <2>7, <3>1, <3>2, <3>3 DEF Fastboot!FinishDownload
  <2>8. CASE Fastboot!Command
    <3>1. flash = "command" /\ flash' = "okay" /\ UNCHANGED <<firmware, sent, announced, told, behind>> /\ told = "none"
      BY <2>8 DEF Fastboot!Command
    <3> SUFFICES ASSUME behind = 0 PROVE InStep'
      BY <3>1
    <3>2. answers = <<>> /\ phone = "command" /\ buffer = "whole"
      BY <3>1 DEF InStep
    <3>3. \/ flashed' = "whole" /\ answers' = Append(<<>>, Fastboot!Okay)
          \/ answers' = Append(<<>>, Fastboot!Fail)
      BY <2>8, <3>2 DEF Fastboot!Command, Fastboot!Swallows, Fastboot!Says
    <3>4. \/ flashed' = "whole" /\ answers' = <<Fastboot!Okay>>
          \/ answers' = <<Fastboot!Fail>>
      BY <3>3
    <3> QED BY <3>1, <3>4 DEF InStep
  <2>9. CASE Fastboot!CommandAnswer
    <3>1. /\ flash = "okay" /\ flash' = "idle" /\ UNCHANGED <<behind, flashed>>
          /\ told' = (IF Head(answers) = Fastboot!Okay THEN "ok" ELSE "failed")
      BY <2>9 DEF Fastboot!CommandAnswer, Fastboot!Reads
    <3> SUFFICES ASSUME behind = 0, told' = "ok" PROVE flashed = "whole"
      BY <3>1 DEF InStep
    <3>2. Head(answers) = Fastboot!Okay
      BY <3>1
    <3>3. answers = <<Fastboot!Fail>> => Head(answers) = Fastboot!Fail
      OBVIOUS
    <3> QED BY <3>1, <3>2, <3>3, FastbootAnswers DEF InStep
  <2>10. CASE Fastboot!TimeOut \/ Fastboot!TransferFails
    BY <2>10 DEF Fastboot!TimeOut, Fastboot!TransferFails, InStep
  <2>11. CASE Fastboot!QueryCut
    BY <2>11 DEF Fastboot!QueryCut, InStep
  <2>12. CASE Fastboot!Restart
    BY <2>12 DEF Fastboot!Restart, InStep
  <2>13. CASE UNCHANGED fastbootVars
    <3>1. Fastboot!Data(firmware)' = Fastboot!Data(firmware)
      BY <2>13 DEF fastbootVars, Fastboot!Data
    <3> QED BY <2>13, <3>1 DEF fastbootVars, InStep
  <2> QED
    BY <2>s, <2>1, <2>2, <2>3, <2>4, <2>5, <2>6, <2>7, <2>8, <2>9, <2>10, <2>11, <2>12, <2>13 DEF Fastboot!Next
<1> QED BY <1>1, <1>2, FastbootSizesKept, PTL DEF Spec

\* flash_firmware reports a flash that began with no answer unread complete only with the whole file in the
\* partition, wherever an earlier one was cut off.
THEOREM CompleteIsWhole == Spec => []FirmwareWhole
<1>1. FastbootInv => FirmwareWhole
  BY DEF FastbootInv, InStep, FirmwareWhole, Fastboot!FirmwareWhole
<1> QED BY <1>1, FastbootInvariance, PTL

------------------------------------------------------------------------------
(* Sessions: shell.rs and logcat.rs. *)

\* The type invariant of AppState::shell_sessions and the readers.
THEOREM ShellTypes == Spec => []Shell!ShellTypeOK
<1> USE DEF Shell!ShellTypeOK
<1>1. Init => Shell!ShellTypeOK
  BY DEF Init, Shell!Init
<1>2. Shell!ShellTypeOK /\ [Next]_operationVars => Shell!ShellTypeOK'
  <2> SUFFICES ASSUME Shell!ShellTypeOK, [Next]_operationVars PROVE Shell!ShellTypeOK'
    OBVIOUS
  <2>s. Shell!Next \/ UNCHANGED shellVars
    BY ShellSteps
  <2>1. ASSUME NEW s \in Shell!Sessions, Shell!Connect(s) PROVE Shell!ShellTypeOK'
    BY <2>1 DEF Shell!Connect, Shell!locks
  <2>2. ASSUME NEW s \in Shell!Sessions, Shell!Register(s) PROVE Shell!ShellTypeOK'
    BY <2>2 DEF Shell!Register, Shell!locks
  <2>3. ASSUME NEW s \in Shell!Sessions, Shell!ReaderStops(s) PROVE Shell!ShellTypeOK'
    BY <2>3 DEF Shell!ReaderStops, Shell!locks
  <2>4. ASSUME NEW s \in Shell!Sessions, Shell!Output(s) PROVE Shell!ShellTypeOK'
    BY <2>4 DEF Shell!Output, Shell!locks
  <2>5. ASSUME NEW s \in Shell!Sessions, Shell!CleanUp(s) PROVE Shell!ShellTypeOK'
    BY <2>5 DEF Shell!CleanUp, Shell!locks
  <2>6. ASSUME NEW s \in Shell!Sessions, Shell!Write(s) PROVE Shell!ShellTypeOK'
    BY <2>6 DEF Shell!Write, Shell!locks
  <2>7. ASSUME NEW s \in Shell!Sessions, Shell!EndWrite(s) PROVE Shell!ShellTypeOK'
    BY <2>7 DEF Shell!EndWrite, Shell!locks
  <2>8. ASSUME NEW s \in Shell!Sessions, Shell!Close(s) PROVE Shell!ShellTypeOK'
    BY <2>8 DEF Shell!Close, Shell!locks
  <2>9. ASSUME NEW s \in Shell!Sessions, Shell!Closed(s) PROVE Shell!ShellTypeOK'
    BY <2>9 DEF Shell!Closed, Shell!ShutDown, Shell!locks
  <2>10. ASSUME NEW s \in Shell!Sessions, Shell!StopLogcat(s) PROVE Shell!ShellTypeOK'
    BY <2>10 DEF Shell!StopLogcat, Shell!locks
  <2>11. ASSUME NEW s \in Shell!Sessions, Shell!StoppedLogcat(s) PROVE Shell!ShellTypeOK'
    BY <2>11 DEF Shell!StoppedLogcat, Shell!locks
  <2>12. ASSUME NEW s \in Shell!Sessions, Shell!StopShuts(s) PROVE Shell!ShellTypeOK'
    BY <2>12 DEF Shell!StopShuts, Shell!ShutDown, Shell!locks
  <2>13. ASSUME NEW s \in Shell!Sessions, Shell!RebootShuts(s) PROVE Shell!ShellTypeOK'
    BY <2>13 DEF Shell!RebootShuts, Shell!ShutDown, Shell!Sent, Shell!locks
  <2>14. ASSUME NEW s \in Shell!Sessions, Shell!LoseAudience(s) PROVE Shell!ShellTypeOK'
    BY <2>14 DEF Shell!LoseAudience, Shell!locks
  <2>15. CASE Shell!Reboot
    BY <2>15 DEF Shell!Reboot, Shell!Sent
  <2>16. CASE Shell!RebootAnswered \/ Shell!Unplug
    BY <2>16 DEF Shell!RebootAnswered, Shell!Unplug, Shell!locks
  <2>17. CASE UNCHANGED shellVars
    BY <2>17 DEF shellVars
  <2> QED
    BY <2>s, <2>1, <2>2, <2>3, <2>4, <2>5, <2>6, <2>7, <2>8, <2>9,
       <2>10, <2>11, <2>12, <2>13, <2>14, <2>15, <2>16, <2>17 DEF Shell!Next
<1> QED BY <1>1, <1>2, PTL DEF Spec

\* A session is in shell_sessions while its reader lives, but for the entry a logcat reader without
\* audience leaves behind; and a reader without an entry was shut down, or the command that removed the
\* entry has still to do it; given the types it is inductive.
THEOREM MapShowsReaders == Spec => []SessionsAreReaders
<1>1. Init => SessionsAreReaders
  BY DEF Init, Shell!Init, SessionsAreReaders, Shell!SessionsAreReaders
<1>2. Shell!ShellTypeOK /\ SessionsAreReaders /\ [Next]_operationVars => SessionsAreReaders'
  <2> SUFFICES ASSUME Shell!ShellTypeOK, SessionsAreReaders, [Next]_operationVars, NEW t \in Shell!Sessions
               PROVE  /\ reader'[t] = "ended" /\ t \in registered' => t \in Logcats /\ t \notin audience'
                      /\ reader'[t] = "reading" /\ t \notin registered' =>
                           t \in shut' \union closing' \/ stopping'[t] = "shutting"
    BY DEF SessionsAreReaders, Shell!SessionsAreReaders
  <2>s. Shell!Next \/ UNCHANGED shellVars
    BY ShellSteps
  <2> DEFINE Goal == /\ reader'[t] = "ended" /\ t \in registered' => t \in Logcats /\ t \notin audience'
                     /\ reader'[t] = "reading" /\ t \notin registered' =>
                          t \in shut' \union closing' \/ stopping'[t] = "shutting"
  <2>0. /\ reader[t] = "ended" /\ t \in registered => t \in Logcats /\ t \notin audience
        /\ reader[t] = "reading" /\ t \notin registered => t \in shut \union closing \/ stopping[t] = "shutting"
    BY DEF SessionsAreReaders, Shell!SessionsAreReaders
  <2> USE <2>0 DEF Shell!ShellTypeOK
  <2>1. ASSUME NEW s \in Shell!Sessions, Shell!Connect(s) PROVE Goal
    BY <2>1 DEF Shell!Connect, Shell!locks
  <2>2. ASSUME NEW s \in Shell!Sessions, Shell!Register(s) PROVE Goal
    BY <2>2 DEF Shell!Register, Shell!locks
  <2>3. ASSUME NEW s \in Shell!Sessions, Shell!ReaderStops(s) PROVE Goal
    BY <2>3 DEF Shell!ReaderStops, Shell!locks
  <2>4. ASSUME NEW s \in Shell!Sessions, Shell!Output(s) PROVE Goal
    BY <2>4 DEF Shell!Output, Shell!locks
  <2>5. ASSUME NEW s \in Shell!Sessions, Shell!CleanUp(s) PROVE Goal
    BY <2>5 DEF Shell!CleanUp, Shell!locks
  <2>6. ASSUME NEW s \in Shell!Sessions, Shell!Write(s) PROVE Goal
    BY <2>6 DEF Shell!Write, Shell!locks
  <2>7. ASSUME NEW s \in Shell!Sessions, Shell!EndWrite(s) PROVE Goal
    BY <2>7 DEF Shell!EndWrite, Shell!locks
  <2>8. ASSUME NEW s \in Shell!Sessions, Shell!Close(s) PROVE Goal
    BY <2>8 DEF Shell!Close, Shell!locks
  <2>9. ASSUME NEW s \in Shell!Sessions, Shell!Closed(s) PROVE Goal
    BY <2>9 DEF Shell!Closed, Shell!ShutDown, Shell!locks
  <2>10. ASSUME NEW s \in Shell!Sessions, Shell!StopLogcat(s) PROVE Goal
    BY <2>10 DEF Shell!StopLogcat, Shell!locks
  <2>11. ASSUME NEW s \in Shell!Sessions, Shell!StoppedLogcat(s) PROVE Goal
    BY <2>11 DEF Shell!StoppedLogcat, Shell!locks
  <2>12. ASSUME NEW s \in Shell!Sessions, Shell!StopShuts(s) PROVE Goal
    BY <2>12 DEF Shell!StopShuts, Shell!ShutDown, Shell!locks
  <2>13. ASSUME NEW s \in Shell!Sessions, Shell!RebootShuts(s) PROVE Goal
    BY <2>13 DEF Shell!RebootShuts, Shell!ShutDown, Shell!Sent, Shell!locks
  <2>14. ASSUME NEW s \in Shell!Sessions, Shell!LoseAudience(s) PROVE Goal
    BY <2>14 DEF Shell!LoseAudience, Shell!locks
  <2>15. CASE Shell!Reboot
    BY <2>15 DEF Shell!Reboot, Shell!Sent
  <2>16. CASE Shell!RebootAnswered \/ Shell!Unplug
    BY <2>16 DEF Shell!RebootAnswered, Shell!Unplug, Shell!locks
  <2>17. CASE UNCHANGED shellVars
    BY <2>17 DEF shellVars
  <2> QED
    BY <2>s, <2>1, <2>2, <2>3, <2>4, <2>5, <2>6, <2>7, <2>8, <2>9,
       <2>10, <2>11, <2>12, <2>13, <2>14, <2>15, <2>16, <2>17 DEF Shell!Next
<1> QED BY <1>1, <1>2, ShellTypes, PTL DEF Spec

------------------------------------------------------------------------------
(* Dumps and writes. *)

\* A write and an install have one file, and no step is taken without a job.
DumpTyped == Dump!DumpTypeOK /\ (job \in {"write", "install"} => at = 1) /\ (job = "none" => stage = "idle")

\* The types, with what they need to be inductive: the current file is one that may exist.
LEMMA DumpTypesInductive == Spec => []DumpTyped
<1>1. Init => DumpTyped
  BY DumpConstants DEF Init, Dump!Init, Dump!DumpAssumption, DumpTyped, Dump!DumpTypeOK, Dump!Jobs,
       Dump!Regions, Dump!Raw, Dump!NoRequest
<1>2. DumpTyped /\ [Next]_operationVars => DumpTyped'
  <2> SUFFICES ASSUME DumpTyped, [Next]_operationVars PROVE DumpTyped'
    OBVIOUS
  <2>s. Dump!Next \/ UNCHANGED dumpVars
    BY DumpSteps
  <2> USE DumpConstants DEF Dump!DumpAssumption, DumpTyped, Dump!DumpTypeOK, Dump!Jobs,
                            Dump!Regions, Dump!Raw, Dump!NoRequest, Dump!Goto, Dump!Finish,
                            Dump!ToGuard, Dump!Abandon, Dump!Advance
  <2>b. Dump!Temps' = Dump!Temps
    BY DEF Dump!Temps
  <2>a. stage \in {"read", "push"} => Dump!Own \in Dump!Temps
    <3>1. stage \in {"read", "push"} => job = "dump" \/ (job \in {"write", "install"} /\ at = 1)
      OBVIOUS
    <3>2. job = "dump" => <<job, at>> \in {"dump"} \X (Parts \union {0})
      OBVIOUS
    <3>3. job \in {"write", "install"} /\ at = 1 => <<job, at>> \in {"write", "install"} \X {1}
      OBVIOUS
    <3> QED BY <3>1, <3>2, <3>3 DEF Dump!Temps, Dump!Own
  <2>1. CASE Dump!DumpPartitions
    BY <2>1 DEF Dump!DumpPartitions, Dump!Start, Dump!temporary
  <2>2. CASE Dump!DumpImage
    BY <2>2 DEF Dump!DumpImage, Dump!Start, Dump!temporary
  <2>3. CASE Dump!WritePartition
    BY <2>3 DEF Dump!WritePartition, Dump!Start, Dump!temporary
  <2>4. CASE Dump!InstallApk
    BY <2>4 DEF Dump!InstallApk, Dump!Start, Dump!temporary
  <2>5. CASE Dump!Choose
    BY <2>5 DEF Dump!Choose
  <2>6. CASE Dump!ForgetFeatures
    BY <2>6 DEF Dump!ForgetFeatures, Dump!temporary
  <2>7. CASE Dump!StreamDump
    BY <2>7 DEF Dump!StreamDump, Dump!temporary
  <2>8. CASE Dump!StreamWrite
    BY <2>8 DEF Dump!StreamWrite, Dump!temporary
  <2>9. CASE Dump!Sweep
    BY <2>9 DEF Dump!Sweep
  <2>10. CASE Dump!Read
    <3>1. present' \subseteq Dump!Temps /\ doubtful' \subseteq Dump!Temps
      BY <2>a, <2>10 DEF Dump!Read, Dump!Create
    <3>2. Dump!DumpTypeOK'
      <4>1. complete' \in BOOLEAN
        BY <2>10 DEF Dump!Read, Dump!Create
      <4>2. present' \subseteq Dump!Temps' /\ doubtful' \subseteq Dump!Temps'
        BY <3>1, <2>b
      <4> QED BY <4>1, <4>2, <2>10 DEF Dump!Read, Dump!Create
    <3>3. (job' \in {"write", "install"} => at' = 1) /\ (job' = "none" => stage' = "idle")
      BY <2>10 DEF Dump!Read, Dump!Create
    <3> HIDE DEF Dump!DumpTypeOK
    <3> QED BY <3>2, <3>3
  <2>11. CASE Dump!Pull
    BY <2>11 DEF Dump!Pull, Dump!temporary
  <2>12. CASE Dump!Push
    <3>1. present' \subseteq Dump!Temps /\ doubtful' \subseteq Dump!Temps
      BY <2>a, <2>12 DEF Dump!Push, Dump!Create
    <3>2. Dump!DumpTypeOK'
      <4>1. complete' \in BOOLEAN
        BY <2>12 DEF Dump!Push, Dump!Create
      <4>2. present' \subseteq Dump!Temps' /\ doubtful' \subseteq Dump!Temps'
        BY <3>1, <2>b
      <4> QED BY <4>1, <4>2, <2>12 DEF Dump!Push, Dump!Create
    <3>3. (job' \in {"write", "install"} => at' = 1) /\ (job' = "none" => stage' = "idle")
      BY <2>12 DEF Dump!Push, Dump!Create
    <3> HIDE DEF Dump!DumpTypeOK
    <3> QED BY <3>2, <3>3
  <2>13. CASE Dump!RunDd
    BY <2>13 DEF Dump!RunDd, Dump!temporary
  <2>14. CASE Dump!RunPm
    BY <2>14 DEF Dump!RunPm, Dump!temporary
  <2>15. CASE Dump!Remove
    <3>1. present' \subseteq Dump!Temps /\ doubtful' \subseteq Dump!Temps
      BY <2>a, <2>15 DEF Dump!Remove, Dump!Rm
    <3>2. Dump!DumpTypeOK'
      <4>1. complete' \in BOOLEAN
        BY <2>15 DEF Dump!Remove, Dump!Rm
      <4>2. present' \subseteq Dump!Temps' /\ doubtful' \subseteq Dump!Temps'
        BY <3>1, <2>b
      <4> QED BY <4>1, <4>2, <2>15 DEF Dump!Remove, Dump!Rm
    <3>3. (job' \in {"write", "install"} => at' = 1) /\ (job' = "none" => stage' = "idle")
      BY <2>15 DEF Dump!Remove, Dump!Rm
    <3> HIDE DEF Dump!DumpTypeOK
    <3> QED BY <3>2, <3>3
  <2>16. CASE Dump!Guard
    <3>1. present' \subseteq Dump!Temps /\ doubtful' \subseteq Dump!Temps
      BY <2>a, <2>16 DEF Dump!Guard, Dump!Rm
    <3>2. Dump!DumpTypeOK'
      <4>1. complete' \in BOOLEAN
        BY <2>16 DEF Dump!Guard, Dump!Rm
      <4>2. present' \subseteq Dump!Temps' /\ doubtful' \subseteq Dump!Temps'
        BY <3>1, <2>b
      <4> QED BY <4>1, <4>2, <2>16 DEF Dump!Guard, Dump!Rm
    <3>3. (job' \in {"write", "install"} => at' = 1) /\ (job' = "none" => stage' = "idle")
      BY <2>16 DEF Dump!Guard, Dump!Rm
    <3> HIDE DEF Dump!DumpTypeOK
    <3> QED BY <3>2, <3>3
  <2>17. CASE UNCHANGED dumpVars
    BY <2>17 DEF dumpVars
  <2> QED
    BY <2>s, <2>1, <2>2, <2>3, <2>4, <2>5, <2>6, <2>7, <2>8, <2>9,
       <2>10, <2>11, <2>12, <2>13, <2>14, <2>15, <2>16, <2>17 DEF Dump!Next
<1> QED BY <1>1, <1>2, PTL DEF Spec

\* The type invariant of the transfers.
THEOREM DumpTypes == Spec => []Dump!DumpTypeOK
<1>1. DumpTyped => Dump!DumpTypeOK
  BY DEF DumpTyped
<1> QED BY <1>1, DumpTypesInductive, PTL

\* What the steps of a job keep: which way it goes, that a partition was not touched before the
\* file was pushed, and that the only temporary file nobody tried to remove is the current one,
\* while its guard is armed.
Unremoved == IF armed THEN doubtful \union {Dump!Own} ELSE doubtful

DumpInv ==
  /\ stage = "stream" => streamed
  /\ stage \in {"sweep", "read", "pull", "push", "run", "remove", "guard"} => ~streamed
  /\ stage \in {"read", "pull"} => job = "dump"
  /\ stage \in {"read", "pull", "push", "run", "remove"} => armed
  /\ stage = "run" => pushed
  /\ stage \in {"choose", "stream", "sweep", "read", "pull", "push"} \/ job = "dump" => partition = "old"
  /\ partition /= "old" /\ ~streamed => pushed
  /\ stage \in {"idle", "choose", "stream", "sweep"} => present \subseteq doubtful
  /\ present \subseteq Unremoved
  /\ stage = "idle" /\ result = "ok" /\ streamed =>
       (job = "dump" => files[at] = "whole") /\ (job = "write" => partition = "whole")

\* It holds in every state.
THEOREM DumpInvariance == Spec => []DumpInv
<1>1. Init => DumpInv
  BY DEF Init, Dump!Init, DumpInv, Unremoved
<1>2. Dump!DumpTypeOK /\ DumpInv /\ [Next]_operationVars => DumpInv'
  <2> SUFFICES ASSUME Dump!DumpTypeOK, DumpInv, [Next]_operationVars PROVE DumpInv'
    OBVIOUS
  <2>s. Dump!Next \/ UNCHANGED dumpVars
    BY DumpSteps
  <2> USE DumpConstants DEF Dump!DumpAssumption, DumpInv, Unremoved, Dump!DumpTypeOK,
                            Dump!Jobs, Dump!Regions, Dump!Raw, Dump!Temps, Dump!Own,
                            Dump!NoRequest, Dump!Goto, Dump!Finish, Dump!ToGuard, Dump!Abandon,
                            Dump!Advance
  <2>1. CASE Dump!DumpPartitions
    BY <2>1 DEF Dump!DumpPartitions, Dump!Start, Dump!temporary
  <2>2. CASE Dump!DumpImage
    BY <2>2 DEF Dump!DumpImage, Dump!Start, Dump!temporary
  <2>3. CASE Dump!WritePartition
    BY <2>3 DEF Dump!WritePartition, Dump!Start, Dump!temporary
  <2>4. CASE Dump!InstallApk
    BY <2>4 DEF Dump!InstallApk, Dump!Start, Dump!temporary
  <2>5. CASE Dump!Choose
    BY <2>5 DEF Dump!Choose
  <2>6. CASE Dump!ForgetFeatures
    BY <2>6 DEF Dump!ForgetFeatures, Dump!temporary
  <2>7. CASE Dump!StreamDump
    BY <2>7 DEF Dump!StreamDump, Dump!temporary
  <2>8. CASE Dump!StreamWrite
    BY <2>8 DEF Dump!StreamWrite, Dump!temporary
  <2>9. CASE Dump!Sweep
    BY <2>9 DEF Dump!Sweep
  <2>10. CASE Dump!Read
    BY <2>10 DEF Dump!Read, Dump!Create
  <2>11. CASE Dump!Pull
    BY <2>11 DEF Dump!Pull, Dump!temporary
  <2>12. CASE Dump!Push
    BY <2>12 DEF Dump!Push, Dump!Create
  <2>13. CASE Dump!RunDd
    BY <2>13 DEF Dump!RunDd, Dump!temporary
  <2>14. CASE Dump!RunPm
    BY <2>14 DEF Dump!RunPm, Dump!temporary
  <2>15. CASE Dump!Remove
    BY <2>15 DEF Dump!Remove, Dump!Rm
  <2>16. CASE Dump!Guard
    BY <2>16 DEF Dump!Guard, Dump!Rm
  <2>17. CASE UNCHANGED dumpVars
    BY <2>17 DEF dumpVars
  <2> QED
    BY <2>s, <2>1, <2>2, <2>3, <2>4, <2>5, <2>6, <2>7, <2>8, <2>9,
       <2>10, <2>11, <2>12, <2>13, <2>14, <2>15, <2>16, <2>17 DEF Dump!Next
<1> QED BY <1>1, <1>2, DumpTypes, PTL DEF Spec

\* build_dd_command and the ranges of Shell V2: rounding never loses a unit that was asked for,
\* when the offset is the beginning of a block of V1 and V2's size is in sectors.
LEMMA RegionCovers ==
  ASSUME request \in Requests \union {Dump!NoRequest},
         request.offset % Dump!V1Block = 0, streamed => request.size % Dump!Sector = 0
  PROVE  (Dump!Asked \intersect Dump!Units) \subseteq Dump!Region
<1> DEFINE o == request.offset
           s == request.size
<1>1. o \in Nat /\ s \in Nat /\ DiskSize \in Nat
  BY DumpConstants DEF Dump!DumpAssumption, Dump!NoRequest
<1>2. SUFFICES ASSUME NEW u \in 0 .. DiskSize - 1, o <= u, s /= 0 => u < o + s PROVE u \in Dump!Region
  BY <1>1 DEF Dump!Asked, Dump!Units
<1>3. o % 4 = 0 /\ (streamed => s % 2 = 0)
  BY DEF Dump!V1Block, Dump!Sector
<1> HIDE DEF o, s
<1>4. Dump!RoundDown(o, Dump!V1Block) = o
  BY <1>1, <1>3 DEF Dump!RoundDown, Dump!V1Block
<1>5. CASE ~streamed
  <2>1. s <= Dump!RoundUp(s, Dump!V1Block) /\ Dump!RoundUp(s, Dump!V1Block) \in Nat
    BY <1>1 DEF Dump!RoundUp, Dump!RoundDown, Dump!V1Block
  <2> DEFINE units == IF s = 0 THEN DiskSize ELSE Dump!RoundUp(s, Dump!V1Block)
  <2>2. u \in o .. o + units - 1
    BY <1>1, <1>2, <2>1
  <2> HIDE DEF units
  <2>3. u \in Dump!DdRegion(request)
    BY <1>2, <1>4, <2>2 DEF Dump!DdRegion, Dump!Units, o, s, units
  <2> QED BY <1>5, <2>3 DEF Dump!Region
<1>6. CASE streamed
  <2>1. Dump!RoundDown(o, Dump!Sector) = o /\ Dump!RoundDown(s, Dump!Sector) = s
    BY <1>1, <1>3, <1>6 DEF Dump!RoundDown, Dump!Sector
  <2>2. s > 0 => u \in o .. o + s - 1
    BY <1>1, <1>2
  <2>3. u \in Dump!StreamRegion(request)
    BY <1>2, <2>1, <2>2 DEF Dump!StreamRegion, Dump!Units, o, s
  <2> QED BY <1>6, <2>3 DEF Dump!Region
<1> QED BY <1>5, <1>6

\* Success over Shell V2 is the whole of the data, a partition is written from a pushed file
\* only, a temporary file stays only where an rm went wrong, dump_image reads what it is asked.
THEOREM TransfersAreSafe == Spec => []TransfersSafe
<1>1. Dump!DumpTypeOK /\ DumpInv => TransfersSafe
  BY RegionCovers DEF Dump!DumpTypeOK, DumpInv, TransfersSafe, Dump!TransfersSafe
<1> QED BY <1>1, DumpTypes, DumpInvariance, PTL

------------------------------------------------------------------------------
(* All operations. *)

\* A behaviour is one of some operation.
SubjectTyped == subject \in Subjects

\* It stays one of the operation it began with.
LEMMA SubjectKept == Spec => []SubjectTyped
<1>1. Init => SubjectTyped
  BY DEF Init, SubjectTyped
<1>2. SubjectTyped /\ [Next]_operationVars => SubjectTyped'
  BY DEF Next, Only, operationVars, SubjectTyped
<1> QED BY <1>1, <1>2, PTL DEF Spec

\* The type invariant of the composition: each operation keeps its own variables typed, and leaves
\* those of the others alone.
THEOREM TypesKept == Spec => []TypeOK
<1>1. /\ SubjectTyped /\ Identify!IdentifyTypeOK
      /\ Flash!FlashTypeOK /\ Transfer!TransferTypeOK /\ Verify!VerifyTypeOK /\ Gpt!GptTypeOK
      /\ Manifest!ManifestTypeOK /\ Programmer!ProgrammersTypeOK /\ Sparse!SparseTypeOK /\ Mbn!MbnTypeOK
      /\ Shell!ShellTypeOK /\ Dump!DumpTypeOK /\ Sideload!SideloadTypeOK /\ Fastboot!FastbootTypeOK
      => TypeOK
  BY DEF TypeOK, SubjectTyped
<1> QED BY <1>1, SubjectKept, IdentifyTypesKept, EdlTypesKept, FilesTypesKept, ShellTypes, DumpTypes,
       SideloadTypes, FastbootTypes, PTL

==============================================================================
