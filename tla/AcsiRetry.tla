------------------------------ MODULE AcsiRetry ------------------------------
(***************************************************************************)
(* One CosmosEx command ('C','E' tag) from the Atari driver to a module on *)
(* the Raspberry Pi and back, with every retry:                            *)
(*                                                                         *)
(*   driver   hddIfCmd_withRetries_worker() and acsi_cmd(), ce_dd_prg      *)
(*   Hans     handleAcsiCommand(), onDataRead(), onDataWrite(),            *)
(*            onReadStatus() and the main loop, ce_hans_fw/main.c          *)
(*   RPi      CCoreThread::handleAcsiCommand(), RetryModule, AcsiDataTrans *)
(*            and CConSpi, ce_main_app                                     *)
(*                                                                         *)
(* Hans arms an SPI DMA packet and raises ATN; the RPi is the SPI master   *)
(* and clocks the packet.  A packet has two parts: the front (header, ATN  *)
(* code and payload) and the rest, in which the RPi's answer is received.  *)
(* Only an ATN_ACSI_COMMAND packet stays half clocked for long (while the  *)
(* RPi's module runs), every other one is clocked in one go.               *)
(*                                                                         *)
(* A tag [cmd, call] names the execution a piece of data comes from: call  *)
(* is a ghost, nothing on the wire carries it.                             *)
(***************************************************************************)
EXTENDS Naturals

CONSTANTS
    Reads,      \* commands (their bytes) whose module answers with data
    Writes,     \* commands whose module receives data with recvData()
    NoCmd,      \* no command: RetryModule's zeroed fullCmd
    MaxRetries, \* hdIf.maxRetriesCount
    MaxCalls,   \* bound: calls the driver makes
    Patient     \* does the driver's last timeout outlast a running module?

ASSUME CommandsAssumption ==
    /\ NoCmd \notin Reads \union Writes
    /\ Reads \intersect Writes = {}

ASSUME BoundsAssumption ==
    /\ MaxRetries \in Nat
    /\ MaxCalls \in Nat \ {0}
    /\ Patient \in BOOLEAN

Cmds  == Reads \union Writes
Calls == 1..MaxCalls
Tags  == [cmd: Cmds \union {NoCmd}, call: 0..MaxCalls]
NoTag == [cmd |-> NoCmd, call |-> 0]

VARIABLES
    drv,      \* the Atari driver: [pc, cmd, retries]
    calls,    \* number of calls made so far (the current call's number)
    res,      \* what the last finished call returned: [success, good, tag, call]
    hans,     \* Hans' state, and where it waits for the SPI
    inCmd,    \* Hans is inside handleAcsiCommand()
    spiIdle,  \* spiDmaIsIdle
    proc,     \* shouldProcessCommands
    pkt,      \* the packet the DMA channels are armed with
    cmdBuf,   \* the host's command or status found in cmdBuffer[]
    rdBuf,    \* data found behind the marker in rdBuf1
    rpi,      \* the core thread: [pc, tag, good] (tag and status in hand)
    rm,       \* RetryModule: [cmd, dir, tag]
    execs     \* ghost: how often the module ran for each call

drvVars  == <<drv, calls, res>>
hansVars == <<hans, inCmd, proc>>
spiVars  == <<spiIdle, pkt, cmdBuf, rdBuf>>
rpiVars  == <<rpi, rm, execs>>
vars     == <<drvVars, hansVars, spiVars, rpiVars>>

Atns  == {"none", "fw", "acsi", "moreRead", "moreWrite", "getStatus"}
Reply == [op: {"none", "read", "write", "status"}, tag: Tags, good: BOOLEAN]

NoReply == [op |-> "none", tag |-> NoTag, good |-> FALSE]
NoPkt   == [atn |-> "none", tag |-> NoTag, retry |-> FALSE, left |-> 0, ans |-> FALSE]

Init ==
    /\ drv = [pc |-> "idle", cmd |-> NoCmd, retries |-> 0]
    /\ calls = 0
    /\ res = [success |-> FALSE, good |-> FALSE, tag |-> NoTag, call |-> 0]
    /\ hans = "GET_COMMAND"
    /\ inCmd = FALSE
    /\ spiIdle = TRUE
    /\ proc = FALSE
    /\ pkt = NoPkt
    /\ cmdBuf = NoReply
    /\ rdBuf = NoTag
    /\ rpi = [pc |-> "poll", tag |-> NoTag, good |-> FALSE]
    /\ rm = [cmd |-> NoCmd, dir |-> "unknown", tag |-> NoTag]
    /\ execs = [c \in Calls |-> 0]

(***************************************************************************)
(* The Atari driver                                                        *)
(***************************************************************************)

(* The program issues the next command: the first cmd_intern(), without    *)
(* the retry bit.                                                          *)
StartCall(c) ==
    /\ drv.pc = "idle"
    /\ calls < MaxCalls
    /\ drv' = [pc |-> "cmd", cmd |-> c, retries |-> 0]
    /\ calls' = calls + 1
    /\ UNCHANGED <<res, hansVars, spiVars, rpiVars>>

(* The RPi neither runs a module nor has a command waiting to be read.     *)
Settled == rpi.pc # "run" /\ ~(pkt.atn = "acsi" /\ pkt.left = 2)

(* Mutant: a timeout does not use up a retry.                              *)
AttemptTimeoutForEver ==
    /\ drv.pc = "cmd" \/ (drv.pc = "data" /\ (inCmd => hans = "READING"))
    /\ drv' = [drv EXCEPT !.pc = "cmd"]
    /\ UNCHANGED <<res, calls, hansVars, spiVars, rpiVars>>

(* qdone() or fdone() timed out: try again with the retry bit set, or give *)
(* up.  Once Hans has the whole command, the driver's 3 s outlast the      *)
(* 0.5 s Hans waits for anything but READ data.                            *)
AttemptTimeout ==
    /\ drv.pc = "cmd" \/ (drv.pc = "data" /\ (inCmd => hans = "READING"))
    /\ \/ /\ drv.retries < MaxRetries
          /\ drv' = [drv EXCEPT !.pc = "cmd", !.retries = @ + 1]
          /\ UNCHANGED res
       \/ /\ drv.retries = MaxRetries
          /\ Patient => Settled
          /\ drv' = [drv EXCEPT !.pc = "idle"]
          /\ res' = [success |-> FALSE, good |-> FALSE, tag |-> NoTag, call |-> calls]
    /\ UNCHANGED <<calls, hansVars, spiVars, rpiVars>>

(* The driver's DMA is set up for a transfer in this direction.            *)
DmaReady(dir) == drv.pc = "data" /\ drv.cmd \in dir

(* Hans' status byte reaches the driver (endcmd()), with the data that was *)
(* transferred before it; or the bridge handshake fails, or nobody waits   *)
(* for a status any more, and the driver sees nothing.                     *)
StatusByte(good, tag) ==
    \/ /\ drv.pc = "data"
       /\ drv' = [drv EXCEPT !.pc = "idle"]
       /\ res' = [success |-> TRUE, good |-> good, tag |-> tag, call |-> calls]
    \/ UNCHANGED <<drv, res>>

(***************************************************************************)
(* SPI and ATN                                                             *)
(***************************************************************************)

(* spiDma_txRx(): waits for the previous packet, or times out on it, and   *)
(* arms the next one in its place.                                         *)
Arm(atn, tag, retry) ==
    /\ pkt' = [atn |-> atn, tag |-> tag, retry |-> retry, left |-> 2, ans |-> FALSE]
    /\ spiIdle' = FALSE

(* These packets are received into cmdBuffer[].                            *)
RxCmdBuffer == pkt.atn \in {"fw", "acsi", "getStatus"}

(* The RPi clocks a whole packet.                                          *)
ClockWhole ==
    /\ pkt' = [pkt EXCEPT !.left = 0]
    /\ spiIdle' = TRUE

(* The RPi clocks its 10 byte answer into whatever is armed now: the rest  *)
(* of the packet it answers, the front of the packet Hans armed instead,   *)
(* or nothing.                                                             *)
ClockAnswer(r) ==
    /\ pkt' = [pkt EXCEPT !.left = IF @ = 0 THEN 0 ELSE @ - 1,
                          !.ans = @ \/ pkt.left # 0]
    /\ spiIdle' = (spiIdle \/ pkt.left = 1)
    /\ cmdBuf' = IF pkt.left # 0 /\ RxCmdBuffer THEN r ELSE cmdBuf

(* The packet is completed with zeros.  All 16 words of cmdBuffer[] are    *)
(* overwritten by a command packet without an answer; a firmware version   *)
(* or status packet is shorter and may leave an older answer, at the end   *)
(* of the buffer, in place (but no status, which is at its start).         *)
ZerosIntoCmdBuffer ==
    \/ /\ pkt.ans \/ ~RxCmdBuffer \/ (pkt.atn # "acsi" /\ cmdBuf.op # "status")
       /\ UNCHANGED cmdBuf
    \/ /\ ~pkt.ans /\ RxCmdBuffer
       /\ cmdBuf' = NoReply

(***************************************************************************)
(* Hans                                                                    *)
(***************************************************************************)

Leave == hans' = "GET_COMMAND" /\ inCmd' = FALSE

(* onGetCommand(): all command bytes arrived; pass them to the host.       *)
HansGetCommand ==
    /\ ~inCmd /\ hans = "GET_COMMAND"
    /\ drv.pc = "cmd"
    /\ drv' = [drv EXCEPT !.pc = "data"]
    /\ Arm("acsi", [cmd |-> drv.cmd, call |-> calls], drv.retries > 0)
    /\ hans' = "WAIT_COMMAND_RESPONSE" /\ inCmd' = TRUE /\ proc' = TRUE
    /\ UNCHANGED <<calls, res, cmdBuf, rdBuf, rpiVars>>

(* processHostCommands(), in the command loop or in the main loop.         *)
HansProcess ==
    /\ spiIdle /\ proc
    /\ inCmd => hans = "WAIT_COMMAND_RESPONSE"
    /\ hans' = CASE cmdBuf.op = "read"  -> "DATA_READ"
                 [] cmdBuf.op = "write" -> "DATA_WRITE"
                 [] OTHER               -> hans
    /\ cmdBuf' = IF cmdBuf.op \in {"read", "write"} THEN NoReply ELSE cmdBuf
    /\ proc' = FALSE
    /\ UNCHANGED <<drvVars, inCmd, spiIdle, pkt, rdBuf, rpiVars>>

(* The command loop's timeout while waiting for the host.                  *)
HansWaitTimeout ==
    /\ inCmd /\ hans = "WAIT_COMMAND_RESPONSE"
    /\ Leave
    /\ UNCHANGED <<drvVars, proc, spiVars, rpiVars>>

(* onDataRead(), its start: ask the host for the block.                    *)
HansStartRead ==
    /\ inCmd /\ hans = "DATA_READ"
    /\ Arm("moreRead", NoTag, FALSE)
    /\ rdBuf' = NoTag
    /\ hans' = "READING"
    /\ UNCHANGED <<drvVars, inCmd, proc, cmdBuf, rpiVars>>

(* Mutant: the block is passed on without looking for the data marker.     *)
HansFinishReadNoMarker ==
    /\ hans = "READING" /\ spiIdle
    /\ \/ DmaReady(Reads) /\ StatusByte(TRUE, rdBuf)
       \/ UNCHANGED <<drv, res>>
    /\ Leave
    /\ UNCHANGED <<calls, proc, spiVars, rpiVars>>

(* onDataRead(), its end: the block and the status, or CHECK CONDITION if  *)
(* there is no data marker.                                                *)
HansFinishRead ==
    /\ hans = "READING" /\ spiIdle
    /\ \/ rdBuf # NoTag /\ DmaReady(Reads) /\ StatusByte(TRUE, rdBuf)
       \/ rdBuf # NoTag /\ UNCHANGED <<drv, res>>
       \/ rdBuf = NoTag /\ StatusByte(FALSE, NoTag)
    /\ Leave
    /\ UNCHANGED <<calls, proc, spiVars, rpiVars>>

HansReadTimeout ==
    /\ hans = "READING" /\ ~spiIdle
    /\ spiIdle' = TRUE
    /\ Leave
    /\ UNCHANGED <<drvVars, proc, pkt, cmdBuf, rdBuf, rpiVars>>

(* onDataWrite(): take the block from the Atari and pass it to the host,   *)
(* or fail on the bridge.                                                  *)
HansDataWrite ==
    /\ inCmd /\ hans = "DATA_WRITE"
    /\ \/ /\ DmaReady(Writes)
          /\ Arm("moreWrite", [cmd |-> drv.cmd, call |-> calls], FALSE)
          /\ hans' = "READ_STATUS"
          /\ UNCHANGED inCmd
       \/ Leave /\ UNCHANGED <<pkt, spiIdle>>
    /\ UNCHANGED <<drvVars, proc, cmdBuf, rdBuf, rpiVars>>

(* onReadStatus(), its start: ask the host for the status.                 *)
HansAskStatus ==
    /\ inCmd /\ hans = "READ_STATUS"
    /\ Arm("getStatus", NoTag, FALSE)
    /\ hans' = "GETTING_STATUS"
    /\ UNCHANGED <<drvVars, inCmd, proc, cmdBuf, rdBuf, rpiVars>>

(* onReadStatus(), its end: the SPI finished, or spiDma_waitForFinish()    *)
(* timed out; without a CMD_SEND_STATUS the status is 0xff.                *)
HansFinishStatus ==
    /\ hans = "GETTING_STATUS"
    /\ StatusByte(cmdBuf.op = "status" /\ cmdBuf.good, NoTag)
    /\ spiIdle' = TRUE
    /\ Leave
    /\ UNCHANGED <<calls, proc, pkt, cmdBuf, rdBuf, rpiVars>>

(* A late answer left Hans in a data state in the main loop.  The next     *)
(* command byte takes it straight to the data phase, which fails: the      *)
(* Atari is still in the command phase.                                    *)
HansStaleRead ==
    /\ ~inCmd /\ hans = "DATA_READ"
    /\ drv.pc = "cmd"
    /\ Arm("moreRead", NoTag, FALSE)
    /\ rdBuf' = NoTag
    /\ Leave
    /\ UNCHANGED <<drvVars, proc, cmdBuf, rpiVars>>

HansStaleWrite ==
    /\ ~inCmd /\ hans = "DATA_WRITE"
    /\ drv.pc = "cmd"
    /\ Leave
    /\ UNCHANGED <<drvVars, proc, spiVars, rpiVars>>

(* The main loop: "if we got stuck somewhere, do IDLE again".              *)
HansForceIdle ==
    /\ ~inCmd /\ ~spiIdle
    /\ spiIdle' = TRUE
    /\ Leave
    /\ UNCHANGED <<drvVars, proc, pkt, cmdBuf, rdBuf, rpiVars>>

(* The main loop: sendFwToHost() each second.                              *)
HansSendFw ==
    /\ ~inCmd /\ spiIdle
    /\ Arm("fw", NoTag, FALSE)
    /\ proc' = TRUE
    /\ UNCHANGED <<drvVars, hans, inCmd, cmdBuf, rdBuf, rpiVars>>

Hans ==
    \/ HansGetCommand \/ HansProcess \/ HansWaitTimeout
    \/ HansStartRead \/ HansFinishRead \/ HansReadTimeout
    \/ HansDataWrite \/ HansAskStatus \/ HansFinishStatus
    \/ HansStaleRead \/ HansStaleWrite \/ HansForceIdle \/ HansSendFw

(***************************************************************************)
(* The core thread of the RPi                                              *)
(***************************************************************************)

GoTo(pc, tag, good) == rpi' = [pc |-> pc, tag |-> tag, good |-> good]

(* A fresh packet with this ATN code is armed.                             *)
Fresh(atn) == pkt.left = 2 /\ pkt.atn = atn

(* run(): ATN_FW_VERSION.                                                  *)
RpiFwVersion ==
    /\ rpi.pc = "poll" /\ Fresh("fw")
    /\ ClockWhole /\ ZerosIntoCmdBuffer
    /\ UNCHANGED <<drvVars, hansVars, rdBuf, rpiVars>>

(* Mutant: the retry bit is left in the bytes that are compared.           *)
GotThisCmdWithRetryBit == ~pkt.retry /\ rm.cmd = pkt.tag.cmd

GotThisCmd == rm.cmd = pkt.tag.cmd

(* Mutant: the stored data answer the first attempt of a call, too.        *)
RpiReplayUnasked ==
    /\ rpi.pc = "poll" /\ Fresh("acsi")
    /\ GotThisCmd /\ rm.dir = "read"
    /\ ClockWhole
    /\ cmdBuf' = [op |-> "read", tag |-> rm.tag, good |-> TRUE]
    /\ GoTo("sendData", rm.tag, TRUE)
    /\ UNCHANGED <<drvVars, hansVars, rdBuf, rm, execs>>

(* handleAcsiCommand(): the RETRY of a READ in RetryModule is answered     *)
(* with the stored data, in the command's own packet.                      *)
RpiReplay ==
    /\ rpi.pc = "poll" /\ Fresh("acsi")
    /\ pkt.retry /\ GotThisCmd /\ rm.dir = "read"
    /\ ClockWhole
    /\ cmdBuf' = [op |-> "read", tag |-> rm.tag, good |-> TRUE]
    /\ GoTo("sendData", rm.tag, TRUE)
    /\ UNCHANGED <<drvVars, hansVars, rdBuf, rm, execs>>

(* handleAcsiCommand(): every other command goes to its module, a copy of  *)
(* the command to RetryModule (whose data stay those of the last command   *)
(* until the module is done).                                              *)
RpiReceive ==
    /\ rpi.pc = "poll" /\ Fresh("acsi")
    /\ ~(pkt.retry /\ GotThisCmd /\ rm.dir = "read")
    /\ pkt' = [pkt EXCEPT !.left = 1]
    /\ rm' = [rm EXCEPT !.cmd = pkt.tag.cmd]
    /\ GoTo("run", pkt.tag, TRUE)
    /\ UNCHANGED <<drvVars, hansVars, spiIdle, cmdBuf, rdBuf, execs>>

(* Mutant: the direction is copied to RetryModule, the data are not.       *)
RpiAnswerNoData ==
    /\ rpi.pc = "run" /\ rpi.tag.cmd \in Reads
    /\ rm' = [rm EXCEPT !.dir = "read"]
    /\ execs' = [execs EXCEPT ![rpi.tag.call] = @ + 1]
    /\ ClockAnswer([op |-> "read", tag |-> rpi.tag, good |-> TRUE])
    /\ GoTo("sendData", rpi.tag, TRUE)
    /\ UNCHANGED <<drvVars, hansVars, rdBuf>>

(* The module of a READ is done: sendDataAndStatus(), its first half.      *)
RpiAnswer ==
    /\ rpi.pc = "run" /\ rpi.tag.cmd \in Reads
    /\ execs' = [execs EXCEPT ![rpi.tag.call] = @ + 1]
    /\ rm' = [rm EXCEPT !.dir = "read", !.tag = rpi.tag]
    /\ ClockAnswer([op |-> "read", tag |-> rpi.tag, good |-> TRUE])
    /\ GoTo("sendData", rpi.tag, TRUE)
    /\ UNCHANGED <<drvVars, hansVars, rdBuf>>

(* The module of a WRITE asks for its data: recvData_start().              *)
RpiAskData ==
    /\ rpi.pc = "run" /\ rpi.tag.cmd \in Writes
    /\ ClockAnswer([op |-> "write", tag |-> rpi.tag, good |-> TRUE])
    /\ GoTo("recvData", rpi.tag, TRUE)
    /\ UNCHANGED <<drvVars, hansVars, rdBuf, rm, execs>>

(* Mutant: the module ignores that its data did not arrive.                *)
RecvFailedIgnored ==
    /\ rm' = [rm EXCEPT !.dir = "write"]
    /\ GoTo("sendStatus", rpi.tag, TRUE)

(* recvData() failed: the module reports an error, RetryModule remembers a *)
(* WRITE (clear(false) kept the direction).                                *)
RecvFailed ==
    /\ rm' = [rm EXCEPT !.dir = "write"]
    /\ GoTo("sendStatus", rpi.tag, FALSE)

(* Mutant: the type of the packet is not compared.                         *)
RpiRecvDataAnyAtn ==
    /\ rpi.pc = "recvData" /\ pkt.left = 2
    /\ ClockWhole
    /\ GoTo("exec", pkt.tag, TRUE)
    /\ UNCHANGED <<drvVars, hansVars, cmdBuf, rdBuf, rm, execs>>

(* recvData_transferBlock(): the block arrives.                            *)
RpiRecvData ==
    /\ rpi.pc = "recvData" /\ Fresh("moreWrite")
    /\ ClockWhole
    /\ GoTo("exec", pkt.tag, TRUE)
    /\ UNCHANGED <<drvVars, hansVars, cmdBuf, rdBuf, rm, execs>>

(* The module changes its state with the data (a write to a file, ...).    *)
RpiExecWrite ==
    /\ rpi.pc = "exec"
    /\ execs' = [execs EXCEPT ![rpi.tag.call] = @ + 1]
    /\ rm' = [rm EXCEPT !.dir = "write"]
    /\ GoTo("sendStatus", rpi.tag, TRUE)
    /\ UNCHANGED <<drvVars, hansVars, spiVars>>

(* sendStatusToHans().                                                     *)
RpiSendStatus ==
    /\ rpi.pc = "sendStatus" /\ Fresh("getStatus")
    /\ ClockWhole
    /\ cmdBuf' = [op |-> "status", tag |-> rpi.tag, good |-> rpi.good]
    /\ GoTo("poll", NoTag, FALSE)
    /\ UNCHANGED <<drvVars, hansVars, rdBuf, rm, execs>>

(* sendData_transferBlock().                                               *)
RpiSendData ==
    /\ rpi.pc = "sendData" /\ Fresh("moreRead")
    /\ ClockWhole
    /\ rdBuf' = rpi.tag
    /\ GoTo("poll", NoTag, FALSE)
    /\ UNCHANGED <<drvVars, hansVars, cmdBuf, rm, execs>>

(* What waitForATN() waits for in each state; the poll takes two codes.    *)
Awaited == CASE rpi.pc = "poll"       -> {"fw", "acsi"}
             [] rpi.pc = "sendData"   -> {"moreRead"}
             [] rpi.pc = "recvData"   -> {"moreWrite"}
             [] rpi.pc = "sendStatus" -> {"getStatus"}
             [] OTHER                 -> Atns

(* A wait ends without success.                                            *)
WaitFails ==
    \/ rpi.pc = "recvData" /\ RecvFailed
    \/ rpi.pc # "recvData" /\ GoTo("poll", NoTag, FALSE) /\ UNCHANGED rm

(* waitForATN() reads the header of another packet and fails: the packet   *)
(* is lost to whoever it was for.                                          *)
RpiSwallow ==
    /\ pkt.left = 2 /\ pkt.atn \notin Awaited
    /\ pkt' = [pkt EXCEPT !.left = 1]
    /\ WaitFails
    /\ UNCHANGED <<drvVars, hansVars, spiIdle, cmdBuf, rdBuf, execs>>

(* waitForATN() pads, or readHeader() hunts through, the rest of a packet. *)
RpiClockRest ==
    /\ rpi.pc \notin {"run", "exec"} /\ pkt.left = 1
    /\ ClockWhole /\ ZerosIntoCmdBuffer
    /\ UNCHANGED <<drvVars, hansVars, rdBuf, rpiVars>>

(* Mutant: only the wait for READ data and status has a time limit.        *)
RpiTimeoutNotInRecv ==
    /\ rpi.pc \in {"sendData", "sendStatus"}
    /\ WaitFails
    /\ UNCHANGED <<drvVars, hansVars, spiVars, execs>>

(* waitForATN() times out after 1 s.                                       *)
RpiTimeout ==
    /\ rpi.pc \in {"sendData", "recvData", "sendStatus"}
    /\ WaitFails
    /\ UNCHANGED <<drvVars, hansVars, spiVars, execs>>

Rpi ==
    \/ RpiFwVersion \/ RpiReplay \/ RpiReceive \/ RpiAnswer
    \/ RpiAskData \/ RpiRecvData \/ RpiExecWrite \/ RpiSendStatus
    \/ RpiSendData \/ RpiSwallow \/ RpiClockRest \/ RpiTimeout

Next == (\E c \in Cmds : StartCall(c)) \/ AttemptTimeout \/ Hans \/ Rpi

Spec == Init /\ [][Next]_vars

(* The driver's and Hans' waits are loops over a timer, the core thread's  *)
(* loop and its modules come to an end: each of them goes on when it can.  *)
(* Nothing is assumed of a new call or of the firmware version.            *)
Fairness ==
    /\ WF_vars(AttemptTimeout)
    /\ WF_vars(Hans /\ inCmd)
    /\ WF_vars(Rpi)

FairSpec == Spec /\ Fairness

-----------------------------------------------------------------------------
(* Properties *)

Driver == [pc: {"idle", "cmd", "data"}, cmd: Cmds \union {NoCmd},
           retries: 0..MaxRetries]
Result == [success: BOOLEAN, good: BOOLEAN, tag: Tags, call: 0..MaxCalls]
States == {"GET_COMMAND", "WAIT_COMMAND_RESPONSE", "DATA_READ", "READING",
           "DATA_WRITE", "READ_STATUS", "GETTING_STATUS"}
Packet == [atn: Atns, tag: Tags, retry: BOOLEAN, left: 0..2, ans: BOOLEAN]
Core   == [pc: {"poll", "run", "sendData", "recvData", "exec", "sendStatus"},
           tag: Tags, good: BOOLEAN]
Slot   == [cmd: Cmds \union {NoCmd}, dir: {"unknown", "read", "write"}, tag: Tags]

DriverTypeOK == drv \in Driver /\ calls \in 0..MaxCalls /\ res \in Result
HansTypeOK   == hans \in States /\ inCmd \in BOOLEAN /\ proc \in BOOLEAN
SpiTypeOK    == spiIdle \in BOOLEAN /\ pkt \in Packet /\ cmdBuf \in Reply /\ rdBuf \in Tags
RpiTypeOK    == rpi \in Core /\ rm \in Slot /\ execs \in [Calls -> Nat]

(* The variables stay in their types.                                      *)
TypeOK == DriverTypeOK /\ HansTypeOK /\ SpiTypeOK /\ RpiTypeOK

(* retrymodule.h: "don't let the original module handle it, because it     *)
(* might screw its internal state": however often the driver retries a     *)
(* READ, and whatever is lost, the module runs at most once for the call.  *)
ReadRunsOnce == calls # 0 /\ drv.cmd \in Reads => execs[calls] <= 1

(* A READ that the driver reports as good returns data of that very        *)
(* command, whatever late answers of earlier attempts are on their way.    *)
NoForeignData ==
    res.success /\ res.good /\ drv.pc = "idle" /\ drv.cmd \in Reads => res.tag.cmd = drv.cmd

(* A WRITE that the driver reports as good was carried out by the module.  *)
GoodWriteApplied ==
    res.success /\ res.good /\ drv.pc = "idle" /\ drv.cmd \in Writes => execs[res.call] >= 1

(* retrymodule.h:6-8: a retry transfers the data once again, "but without  *)
(* affecting the state of disk / file / network modules"; so no module     *)
(* runs twice for a call.  ccorethread.cpp:528: a command that "was not    *)
(* buffered" is "received ... for the first time" and processed "like      *)
(* usually"; so a good READ has data of its own call.  Stated as weakly as *)
(* the two allow: one or the other holds.                                  *)
RunsOnce  == \A c \in Calls : execs[c] <= 1
FreshData ==
    res.success /\ res.good /\ drv.pc = "idle" /\ drv.cmd \in Reads => res.tag.call = calls

RetryHidden == RunsOnce \/ FreshData

(* When the core thread polls, what RetryModule would replay for a command *)
(* was produced by that command.                                           *)
SlotConsistent ==
    rpi.pc = "poll" /\ rm.dir = "read" => rm.tag.cmd = rm.cmd

(* The block a module writes is the one the Atari sent for the command the *)
(* module runs.                                                            *)
WriteDataMatches == rpi.pc = "exec" => rpi.tag.cmd = rm.cmd

(* Why a READ runs once, as an inductive invariant.  Whoever still has to   *)
(* deliver the current call's command to RetryModule after its module ran  *)
(* (the driver, a packet) has the retry bit in it, and RetryModule still   *)
(* holds that very command.                                                *)
Retried == drv.pc = "cmd" => drv.retries > 0

FreshRetry == Fresh("acsi") => pkt.retry /\ pkt.tag.call = calls

DriverInv == drv.pc # "idle" => calls > 0 /\ drv.cmd \in Cmds

PacketInv ==
    /\ Fresh("acsi") => /\ pkt.tag.call \in 1..calls
                        /\ pkt.tag.cmd \in Cmds
                        /\ pkt.tag.call = calls => pkt.tag.cmd = drv.cmd /\ Retried
    /\ Fresh("moreWrite") => /\ pkt.tag.call \in 1..calls
                             /\ pkt.tag.call = calls => drv.cmd \in Writes

RunInv ==
    rpi.pc = "run" => /\ rpi.tag.call \in 1..calls
                      /\ rm.cmd = rpi.tag.cmd
                      /\ rpi.tag.call = calls => /\ rpi.tag.cmd = drv.cmd
                                                 /\ Retried /\ FreshRetry
                      /\ Fresh("acsi") => pkt.tag.call >= rpi.tag.call

ExecInv ==
    rpi.pc = "exec" => /\ rpi.tag.call \in 1..calls
                       /\ rpi.tag.call = calls => drv.cmd \in Writes

ExecutedInv ==
    /\ \A k \in Calls : k > calls => execs[k] = 0
    /\ calls # 0 /\ drv.cmd \in Reads /\ execs[calls] # 0 =>
           /\ execs[calls] = 1
           /\ rm.cmd = drv.cmd /\ rm.dir = "read"
           /\ rpi.pc \in {"poll", "sendData"}
           /\ Retried /\ FreshRetry

ReadInv == DriverInv /\ PacketInv /\ RunInv /\ ExecInv /\ ExecutedInv

(* Every call of the driver ends.                                          *)
CallEnds == drv.pc # "idle" ~> drv.pc = "idle"

(* Hans and the core thread wait for each other and for the Atari, but     *)
(* neither waits for ever: Hans gets back to its main loop and the core    *)
(* thread to its poll.                                                     *)
NobodyStuck ==
    /\ inCmd ~> ~inCmd
    /\ rpi.pc # "poll" ~> rpi.pc = "poll"

(* The calls as the programs on the Atari see them: CeCall.  A READ runs   *)
(* once and a WRITE once for an attempt, a good status is a true one, and  *)
(* a READ whose first attempts were lost may be answered with what         *)
(* RetryModule still has, which then is the work of the last module that   *)
(* ran (gotThisCmd() compares bytes).                                      *)
Call == INSTANCE CeCall
        WITH busy <- drv.pc # "idle", cmd <- drv.cmd, retries <- drv.retries
CallSpec == Call!Spec
=============================================================================
