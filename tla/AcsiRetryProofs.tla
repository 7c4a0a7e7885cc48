--------------------------- MODULE AcsiRetryProofs ---------------------------
(***************************************************************************)
(* Proofs about AcsiRetry, for any commands, any number of retries and     *)
(* calls: first whether or not the driver is patient, then for a patient   *)
(* driver, that what the calls of the programs return is true and that the *)
(* retry protocol implements CeCall.                                       *)
(***************************************************************************)
EXTENDS AcsiRetry, TLAPS

(* The tags that are written down outright.                                *)
LEMMA TagTypes ==
    /\ NoTag \in Tags
    /\ NoReply \in Reply
    /\ \A c \in Cmds \union {NoCmd}, k \in 0..MaxCalls : [cmd |-> c, call |-> k] \in Tags
<1>1. NoTag \in Tags
  BY BoundsAssumption DEF NoTag, Tags
<1>2. NoReply \in Reply
  BY <1>1 DEF NoReply, Reply
<1> QED
  BY <1>1, <1>2 DEF Tags

(***************************************************************************)
(* Which steps touch what                                                  *)
(***************************************************************************)

(* Only these steps touch the driver.                                      *)
LEMMA DriverFrame ==
    ASSUME Next
    PROVE  \/ \E c \in Cmds : StartCall(c)
           \/ AttemptTimeout \/ HansGetCommand \/ HansFinishRead \/ HansFinishStatus
           \/ UNCHANGED drvVars
BY DEF Next, Hans, Rpi, HansProcess, HansWaitTimeout,
     HansStartRead, HansReadTimeout, HansDataWrite, HansAskStatus,
     HansStaleRead, HansStaleWrite, HansForceIdle, HansSendFw, RpiFwVersion,
     RpiReplay, RpiReceive, RpiAnswer, RpiAskData, RpiRecvData, RpiExecWrite,
     RpiSendStatus, RpiSendData, RpiSwallow, RpiClockRest, RpiTimeout

(* Only Hans' steps touch Hans.                                            *)
LEMMA HansFrame == ASSUME Next PROVE Hans \/ UNCHANGED hansVars
BY DEF Next, Rpi, StartCall, AttemptTimeout, RpiFwVersion,
     RpiReplay, RpiReceive, RpiAnswer, RpiAskData, RpiRecvData, RpiExecWrite,
     RpiSendStatus, RpiSendData, RpiSwallow, RpiClockRest, RpiTimeout

(* Only the core thread's steps touch the core thread.                     *)
LEMMA RpiFrame == ASSUME Next PROVE Rpi \/ UNCHANGED rpiVars
BY DEF Next, Hans, StartCall, AttemptTimeout, HansGetCommand, HansProcess,
     HansWaitTimeout, HansStartRead, HansReadTimeout, HansDataWrite, HansAskStatus,
     HansFinishRead, HansFinishStatus, HansStaleRead, HansStaleWrite, HansForceIdle,
     HansSendFw

(* The driver's own steps do not touch the SPI.                            *)
LEMMA SpiFrame == ASSUME Next PROVE Hans \/ Rpi \/ UNCHANGED spiVars
BY DEF Next, StartCall, AttemptTimeout

(***************************************************************************)
(* Types                                                                   *)
(***************************************************************************)

LEMMA StatusByteTypes ==
    ASSUME DriverTypeOK, NEW good \in BOOLEAN, NEW tag \in Tags,
           StatusByte(good, tag), UNCHANGED calls
    PROVE  DriverTypeOK'
<1>1. drv' \in Driver
  <2>1. CASE UNCHANGED <<drv, res>>
    BY <2>1 DEF DriverTypeOK
  <2>2. CASE drv' = [drv EXCEPT !.pc = "idle"]
    BY <2>2 DEF DriverTypeOK, Driver
  <2> QED
    BY <2>1, <2>2 DEF StatusByte
<1>2. res' \in Result
  <2>1. CASE UNCHANGED <<drv, res>>
    BY <2>1 DEF DriverTypeOK
  <2>2. CASE res' = [success |-> TRUE, good |-> good, tag |-> tag, call |-> calls]
    BY <2>2 DEF DriverTypeOK, Result
  <2> QED
    BY <2>1, <2>2 DEF StatusByte
<1> QED
  BY <1>1, <1>2 DEF DriverTypeOK

(* Every step keeps the driver's types.                                    *)
LEMMA DriverTypes == ASSUME TypeOK, Next PROVE DriverTypeOK'
<1>1. ASSUME NEW c \in Cmds, StartCall(c) PROVE DriverTypeOK'
  <2>1. drv' \in Driver
    BY <1>1, BoundsAssumption DEF StartCall, Driver
  <2>2. calls' \in 0..MaxCalls
    BY <1>1, BoundsAssumption DEF StartCall, TypeOK, DriverTypeOK
  <2> QED
    BY <1>1, <2>1, <2>2 DEF StartCall, TypeOK, DriverTypeOK
<1>2. CASE AttemptTimeout
  <2>1. CASE drv.retries < MaxRetries
    <3>1. drv' = [drv EXCEPT !.pc = "cmd", !.retries = @ + 1] /\ UNCHANGED <<calls, res>>
      BY <1>2, <2>1, BoundsAssumption DEF AttemptTimeout, TypeOK, DriverTypeOK, Driver
    <3>2. drv.retries + 1 \in 0..MaxRetries
      BY <2>1, BoundsAssumption DEF TypeOK, DriverTypeOK, Driver
    <3>3. drv' \in Driver
      BY <3>1, <3>2 DEF TypeOK, DriverTypeOK, Driver
    <3> QED
      BY <3>1, <3>3 DEF TypeOK, DriverTypeOK
  <2>2. CASE drv.retries = MaxRetries
    <3>1. drv' = [drv EXCEPT !.pc = "idle"] /\ UNCHANGED calls
      BY <1>2, <2>2, BoundsAssumption DEF AttemptTimeout
    <3>2. res' = [success |-> FALSE, good |-> FALSE, tag |-> NoTag, call |-> calls]
      BY <1>2, <2>2, BoundsAssumption DEF AttemptTimeout
    <3>3. drv' \in Driver
      BY <3>1 DEF TypeOK, DriverTypeOK, Driver
    <3>4. res' \in Result
      BY <3>2, TagTypes DEF TypeOK, DriverTypeOK, Result
    <3> QED
      BY <3>1, <3>3, <3>4 DEF TypeOK, DriverTypeOK
  <2> QED
    BY <1>2, <2>1, <2>2 DEF AttemptTimeout
<1>3. CASE HansGetCommand
  <2>1. drv' \in Driver
    BY <1>3 DEF HansGetCommand, TypeOK, DriverTypeOK, Driver
  <2> QED
    BY <1>3, <2>1 DEF HansGetCommand, TypeOK, DriverTypeOK
<1>4. CASE HansFinishRead
  <2>1. CASE rdBuf # NoTag /\ DmaReady(Reads) /\ StatusByte(TRUE, rdBuf)
    BY <1>4, <2>1, StatusByteTypes DEF HansFinishRead, TypeOK, SpiTypeOK
  <2>2. CASE rdBuf # NoTag /\ UNCHANGED <<drv, res>>
    BY <1>4, <2>2 DEF HansFinishRead, TypeOK, DriverTypeOK
  <2>3. CASE rdBuf = NoTag /\ StatusByte(FALSE, NoTag)
    BY <1>4, <2>3, StatusByteTypes, TagTypes DEF HansFinishRead, TypeOK
  <2> QED
    BY <1>4, <2>1, <2>2, <2>3 DEF HansFinishRead
<1>5. CASE HansFinishStatus
  <2>1. (cmdBuf.op = "status" /\ cmdBuf.good) \in BOOLEAN
    OBVIOUS
  <2> QED
    BY <1>5, <2>1, StatusByteTypes, TagTypes DEF HansFinishStatus, TypeOK
<1>6. CASE UNCHANGED drvVars
  BY <1>6 DEF drvVars, TypeOK, DriverTypeOK
<1> QED
  BY <1>1, <1>2, <1>3, <1>4, <1>5, <1>6, DriverFrame

(* Every step keeps Hans' types.                                           *)
LEMMA HansTypes == ASSUME TypeOK, Next PROVE HansTypeOK'
<1>1. CASE Hans
  BY <1>1 DEF Hans, HansGetCommand, HansProcess, HansWaitTimeout, HansStartRead,
       HansReadTimeout, HansDataWrite, HansAskStatus, HansFinishRead, HansFinishStatus,
       HansStaleRead, HansStaleWrite, HansForceIdle, HansSendFw, Leave, hansVars,
       TypeOK, HansTypeOK, States
<1>2. CASE UNCHANGED hansVars
  BY <1>2 DEF hansVars, TypeOK, HansTypeOK
<1> QED
  BY <1>1, <1>2, HansFrame

LEMMA ArmTypes ==
    ASSUME SpiTypeOK, NEW atn \in Atns, NEW tag \in Tags, NEW retry \in BOOLEAN,
           Arm(atn, tag, retry)
    PROVE  pkt' \in Packet /\ spiIdle' \in BOOLEAN
<1>1. [atn |-> atn, tag |-> tag, retry |-> retry, left |-> 2, ans |-> FALSE] \in Packet
  <2>1. 2 \in 0..2
    OBVIOUS
  <2> QED
    BY <2>1, Zenon DEF Packet
<1> QED
  BY <1>1, Zenon DEF Arm

(* Every step keeps the types of the packet and the buffers.               *)
LEMMA SpiTypes == ASSUME TypeOK, Next PROVE SpiTypeOK'
<1>1. CASE Hans
  <2>1. CASE HansGetCommand
    <3>1. [cmd |-> drv.cmd, call |-> calls] \in Tags
      BY TagTypes DEF TypeOK, DriverTypeOK, Driver
    <3>2. (drv.retries > 0) \in BOOLEAN /\ "acsi" \in Atns
      BY DEF Atns
    <3> QED
      BY <2>1, <3>1, <3>2, ArmTypes DEF HansGetCommand, TypeOK, SpiTypeOK
  <2>2. CASE HansProcess
    BY <2>2, TagTypes DEF HansProcess, TypeOK, SpiTypeOK
  <2>3. CASE HansDataWrite
    <3>1. [cmd |-> drv.cmd, call |-> calls] \in Tags
      BY TagTypes DEF TypeOK, DriverTypeOK, Driver
    <3>2. FALSE \in BOOLEAN /\ "moreWrite" \in Atns
      BY DEF Atns
    <3> QED
      BY <2>3, <3>1, <3>2, ArmTypes DEF HansDataWrite, TypeOK, SpiTypeOK
  <2>4. CASE HansStartRead \/ HansStaleRead \/ HansAskStatus \/ HansSendFw
    <3>1. FALSE \in BOOLEAN /\ {"moreRead", "getStatus", "fw"} \subseteq Atns
      BY DEF Atns
    <3> QED
      BY <2>4, <3>1, TagTypes, ArmTypes
         DEF HansStartRead, HansStaleRead, HansAskStatus, HansSendFw, TypeOK, SpiTypeOK
  <2>5. CASE HansWaitTimeout \/ HansFinishRead \/ HansReadTimeout \/ HansFinishStatus
              \/ HansStaleWrite \/ HansForceIdle
    BY <2>5 DEF HansWaitTimeout, HansFinishRead, HansReadTimeout, HansFinishStatus,
         HansStaleWrite, HansForceIdle, spiVars, TypeOK, SpiTypeOK
  <2> QED
    BY <1>1, <2>1, <2>2, <2>3, <2>4, <2>5 DEF Hans
<1>2. CASE Rpi
  <2>1. ASSUME ClockWhole PROVE pkt' \in Packet /\ spiIdle' \in BOOLEAN
    BY <2>1 DEF ClockWhole, TypeOK, SpiTypeOK, Packet
  <2>2. ASSUME pkt' = [pkt EXCEPT !.left = 1] PROVE pkt' \in Packet
    BY <2>2 DEF TypeOK, SpiTypeOK, Packet
  <2>3. ASSUME NEW r \in Reply, ClockAnswer(r)
        PROVE  spiIdle' \in BOOLEAN /\ pkt' \in Packet /\ cmdBuf' \in Reply
    <3>1. pkt' \in Packet
      <4> DEFINE left == IF pkt.left = 0 THEN 0 ELSE pkt.left - 1
                 ans  == pkt.ans \/ pkt.left # 0
      <4>1. left \in 0..2 /\ ans \in BOOLEAN
        BY DEF TypeOK, SpiTypeOK, Packet
      <4>2. pkt' = [pkt EXCEPT !.left = left, !.ans = ans]
        BY <2>3 DEF ClockAnswer
      <4> HIDE DEF left, ans
      <4> QED
        BY <4>1, <4>2 DEF TypeOK, SpiTypeOK, Packet
    <3>2. spiIdle' \in BOOLEAN /\ cmdBuf' \in Reply
      BY <2>3 DEF ClockAnswer, TypeOK, SpiTypeOK
    <3> QED
      BY <3>1, <3>2
  <2>4. ASSUME ZerosIntoCmdBuffer PROVE cmdBuf' \in Reply
    BY <2>4, TagTypes DEF ZerosIntoCmdBuffer, TypeOK, SpiTypeOK
  <2>5. rpi.tag \in Tags /\ rm.tag \in Tags /\ rpi.good \in BOOLEAN
    BY DEF TypeOK, RpiTypeOK, Core, Slot
  <2>6. /\ [op |-> "read", tag |-> rm.tag, good |-> TRUE] \in Reply
        /\ [op |-> "read", tag |-> rpi.tag, good |-> TRUE] \in Reply
        /\ [op |-> "write", tag |-> rpi.tag, good |-> TRUE] \in Reply
        /\ [op |-> "status", tag |-> rpi.tag, good |-> rpi.good] \in Reply
    BY <2>5 DEF Reply
  <2>7. CASE RpiFwVersion \/ RpiClockRest
    BY <2>7, <2>1, <2>4 DEF RpiFwVersion, RpiClockRest, TypeOK, SpiTypeOK
  <2>8. CASE RpiReplay \/ RpiSendStatus
    BY <2>8, <2>1, <2>6 DEF RpiReplay, RpiSendStatus, TypeOK, SpiTypeOK
  <2>9. CASE RpiReceive \/ RpiSwallow
    BY <2>9, <2>2 DEF RpiReceive, RpiSwallow, TypeOK, SpiTypeOK
  <2>10. CASE RpiAnswer \/ RpiAskData
    BY <2>10, <2>3, <2>6 DEF RpiAnswer, RpiAskData, TypeOK, SpiTypeOK
  <2>11. CASE RpiRecvData \/ RpiSendData
    BY <2>11, <2>1, <2>5 DEF RpiRecvData, RpiSendData, TypeOK, SpiTypeOK
  <2>12. CASE RpiExecWrite \/ RpiTimeout
    BY <2>12 DEF RpiExecWrite, RpiTimeout, spiVars, TypeOK, SpiTypeOK
  <2> QED
    BY <1>2, <2>7, <2>8, <2>9, <2>10, <2>11, <2>12 DEF Rpi
<1>3. CASE UNCHANGED spiVars
  BY <1>3 DEF spiVars, TypeOK, SpiTypeOK
<1> QED
  BY <1>1, <1>2, <1>3, SpiFrame

(* Every step keeps the core thread's types.                               *)
LEMMA RpiTypes == ASSUME TypeOK, Next PROVE RpiTypeOK'
<1>1. CASE Rpi
  <2>1. pkt.tag \in Tags /\ pkt.tag.cmd \in Cmds \union {NoCmd}
        /\ rpi.tag \in Tags /\ rm.tag \in Tags
    BY DEF TypeOK, SpiTypeOK, Packet, Tags, RpiTypeOK, Core, Slot
  <2>2. rpi' \in Core
    <3>1. ASSUME NEW pc \in {"poll", "run", "sendData", "recvData", "exec", "sendStatus"},
                 NEW tag \in Tags, NEW good \in BOOLEAN, GoTo(pc, tag, good)
          PROVE  rpi' \in Core
      BY <3>1 DEF GoTo, Core
    <3>2. CASE UNCHANGED rpi
      BY <3>2 DEF TypeOK, RpiTypeOK
    <3> QED
      BY <1>1, <2>1, <3>1, <3>2, TagTypes
         DEF Rpi, RpiFwVersion, RpiReplay, RpiReceive, RpiAnswer, RpiAskData,
         RpiRecvData, RpiExecWrite, RpiSendStatus, RpiSendData, RpiSwallow,
         RpiClockRest, RpiTimeout, WaitFails, RecvFailed, rpiVars
  <2>3. rm' \in Slot
    <3>1. CASE UNCHANGED rm
      BY <3>1 DEF TypeOK, RpiTypeOK
    <3>2. CASE rm' = [rm EXCEPT !.cmd = pkt.tag.cmd]
      BY <2>1, <3>2 DEF TypeOK, RpiTypeOK, Slot
    <3>3. CASE rm' = [rm EXCEPT !.dir = "read", !.tag = rpi.tag]
      BY <2>1, <3>3 DEF TypeOK, RpiTypeOK, Slot
    <3>4. CASE rm' = [rm EXCEPT !.dir = "write"]
      BY <2>1, <3>4 DEF TypeOK, RpiTypeOK, Slot
    <3> QED
      BY <1>1, <3>1, <3>2, <3>3, <3>4
         DEF Rpi, RpiFwVersion, RpiReplay, RpiReceive, RpiAnswer, RpiAskData,
         RpiRecvData, RpiExecWrite, RpiSendStatus, RpiSendData, RpiSwallow,
         RpiClockRest, RpiTimeout, WaitFails, RecvFailed, rpiVars
  <2>4. execs' \in [Calls -> Nat]
    <3>1. CASE UNCHANGED execs
      BY <3>1 DEF TypeOK, RpiTypeOK
    <3>2. CASE execs' = [execs EXCEPT ![rpi.tag.call] = @ + 1]
      <4>1. rpi.tag.call \in Calls => execs[rpi.tag.call] + 1 \in Nat
        BY DEF TypeOK, RpiTypeOK
      <4> QED
        BY <3>2, <4>1 DEF TypeOK, RpiTypeOK
    <3> QED
      BY <1>1, <3>1, <3>2
         DEF Rpi, RpiFwVersion, RpiReplay, RpiReceive, RpiAnswer, RpiAskData,
         RpiRecvData, RpiExecWrite, RpiSendStatus, RpiSendData, RpiSwallow,
         RpiClockRest, RpiTimeout, rpiVars
  <2> QED
    BY <2>2, <2>3, <2>4 DEF RpiTypeOK
<1>2. CASE UNCHANGED rpiVars
  BY <1>2 DEF rpiVars, TypeOK, RpiTypeOK
<1> QED
  BY <1>1, <1>2, RpiFrame

(* The variables stay in their types.                                      *)
THEOREM TypeCorrect == Spec => []TypeOK
<1>1. Init => TypeOK
  <2> SUFFICES ASSUME Init PROVE TypeOK
    OBVIOUS
  <2>1. DriverTypeOK
    BY TagTypes, BoundsAssumption DEF Init, DriverTypeOK, Driver, Result
  <2>2. HansTypeOK
    BY DEF Init, HansTypeOK, States
  <2>3. SpiTypeOK
    BY TagTypes DEF Init, SpiTypeOK, Packet, NoPkt, Atns
  <2>4. RpiTypeOK
    BY TagTypes DEF Init, RpiTypeOK, Core, Slot
  <2> QED
    BY <2>1, <2>2, <2>3, <2>4 DEF TypeOK
<1>2. TypeOK /\ [Next]_vars => TypeOK'
  <2> SUFFICES ASSUME TypeOK, [Next]_vars PROVE TypeOK'
    OBVIOUS
  <2>1. CASE UNCHANGED vars
    BY <2>1 DEF vars, drvVars, hansVars, spiVars, rpiVars, TypeOK, DriverTypeOK,
         HansTypeOK, SpiTypeOK, RpiTypeOK
  <2>2. CASE Next
    BY <2>2, DriverTypes, HansTypes, SpiTypes, RpiTypes DEF TypeOK
  <2> QED
    BY <2>1, <2>2
<1> QED
  BY <1>1, <1>2, PTL DEF Spec

(***************************************************************************)
(* A READ runs once                                                        *)
(***************************************************************************)

(* A step that arms neither a command nor a block of WRITE data.           *)
NothingArmed ==
    \A atn \in {"acsi", "moreWrite"} :
        Fresh(atn)' => Fresh(atn) /\ pkt'.tag = pkt.tag /\ pkt'.retry = pkt.retry

(* A step after which the driver is where it was, or done.                 *)
DriverSettles ==
    /\ UNCHANGED calls
    /\ drv'.cmd = drv.cmd /\ drv'.retries = drv.retries
    /\ drv'.pc = drv.pc \/ drv'.pc = "idle"

LEMMA NothingArmedSteps ==
    ASSUME TypeOK, Next, ~HansGetCommand, ~HansDataWrite
    PROVE  NothingArmed
<1>1. CASE UNCHANGED pkt
  BY <1>1 DEF NothingArmed, Fresh
<1>2. CASE HansStartRead \/ HansStaleRead \/ HansAskStatus \/ HansSendFw
  BY <1>2 DEF HansStartRead, HansStaleRead, HansAskStatus, HansSendFw, Arm, NothingArmed, Fresh
<1>3. CASE pkt' = [pkt EXCEPT !.left = 1] \/ ClockWhole \/ \E r \in Reply : ClockAnswer(r)
  <2> DEFINE less == IF pkt.left = 0 THEN 0 ELSE pkt.left - 1
  <2>1. pkt.left \in 0..2 /\ less # 2
    BY DEF TypeOK, SpiTypeOK, Packet
  <2>2. pkt' = [pkt EXCEPT !.left = 1] \/ ClockWhole => pkt'.left # 2
    BY DEF ClockWhole, TypeOK, SpiTypeOK, Packet
  <2>3. ASSUME NEW r, ClockAnswer(r) PROVE pkt'.left = less
    BY <2>3 DEF ClockAnswer, TypeOK, SpiTypeOK, Packet
  <2>4. pkt'.left # 2
    BY <1>3, <2>1, <2>2, <2>3
  <2> QED
    BY <2>4 DEF NothingArmed, Fresh
<1>4. rpi.tag \in Tags
  BY DEF TypeOK, RpiTypeOK, Core
<1>5. /\ [op |-> "read", tag |-> rpi.tag, good |-> TRUE] \in Reply
      /\ [op |-> "write", tag |-> rpi.tag, good |-> TRUE] \in Reply
  BY <1>4 DEF Reply
<1>6. CASE Rpi
  BY <1>1, <1>3, <1>5, <1>6
     DEF Rpi, RpiFwVersion, RpiReplay, RpiReceive, RpiAnswer, RpiAskData, RpiRecvData,
     RpiExecWrite, RpiSendStatus, RpiSendData, RpiSwallow, RpiClockRest, RpiTimeout, spiVars
<1>7. CASE Hans
  BY <1>1, <1>2, <1>7
     DEF Hans, HansProcess, HansWaitTimeout, HansFinishRead, HansReadTimeout,
     HansFinishStatus, HansStaleWrite, HansForceIdle, spiVars
<1>8. CASE UNCHANGED spiVars
  BY <1>1, <1>8 DEF spiVars
<1> QED
  BY <1>6, <1>7, <1>8, SpiFrame

LEMMA DriverSettlesSteps ==
    ASSUME TypeOK, Hans, ~HansGetCommand
    PROVE  DriverSettles
<1>1. CASE UNCHANGED drvVars
  BY <1>1 DEF drvVars, DriverSettles
<1>2. ASSUME UNCHANGED calls, NEW g, NEW t, StatusByte(g, t) \/ UNCHANGED <<drv, res>>
      PROVE  DriverSettles
  BY <1>2 DEF StatusByte, DriverSettles, TypeOK, DriverTypeOK, Driver
<1>3. CASE HansFinishRead \/ HansFinishStatus
  BY <1>2, <1>3 DEF HansFinishRead, HansFinishStatus
<1> QED
  BY <1>1, <1>3
     DEF Hans, HansProcess, HansWaitTimeout, HansStartRead, HansReadTimeout,
     HansDataWrite, HansAskStatus, HansStaleRead, HansStaleWrite, HansForceIdle, HansSendFw

(* The facts about the driver and the packet survive such a step, whatever *)
(* the core thread does in it.                                             *)
LEMMA SettledStep ==
    ASSUME TypeOK, DriverInv, PacketInv, DriverSettles, NothingArmed
    PROVE  DriverInv' /\ PacketInv' /\ (Retried => Retried') /\ (FreshRetry => FreshRetry')
BY DEF DriverSettles, NothingArmed, DriverInv, PacketInv, Retried, FreshRetry, Fresh

LEMMA QuietStep ==
    ASSUME TypeOK, ReadInv, DriverSettles, NothingArmed, UNCHANGED rpiVars
    PROVE  ReadInv'
<1>1. DriverInv' /\ PacketInv' /\ (Retried => Retried') /\ (FreshRetry => FreshRetry')
  BY SettledStep DEF ReadInv
<1>2. calls' = calls /\ drv'.cmd = drv.cmd /\ rpi' = rpi /\ rm' = rm /\ execs' = execs
  BY DEF DriverSettles, rpiVars
<1>3. Fresh("acsi")' => Fresh("acsi") /\ pkt'.tag = pkt.tag
  BY DEF NothingArmed
<1>4. RunInv'
  BY <1>1, <1>2, <1>3 DEF ReadInv, RunInv
<1>5. ExecInv'
  BY <1>2 DEF ReadInv, ExecInv
<1>6. ExecutedInv'
  BY <1>1, <1>2 DEF ReadInv, ExecutedInv
<1> QED
  BY <1>1, <1>4, <1>5, <1>6 DEF ReadInv

(* The driver starts a call: nothing of the call exists yet.               *)
LEMMA StartCallStep ==
    ASSUME TypeOK, ReadInv, NEW c \in Cmds, StartCall(c)
    PROVE  ReadInv'
<1>1. /\ drv' = [pc |-> "cmd", cmd |-> c, retries |-> 0] /\ calls' = calls + 1
      /\ pkt' = pkt /\ rpi' = rpi /\ rm' = rm /\ execs' = execs
  BY DEF StartCall, spiVars, rpiVars
<1>2. calls \in Nat /\ calls' \in Calls
  BY BoundsAssumption DEF StartCall, TypeOK, DriverTypeOK, Calls
<1>3. DriverInv'
  BY <1>1, <1>2 DEF DriverInv
<1>4. PacketInv'
  BY <1>1, <1>2 DEF ReadInv, PacketInv, Fresh
<1>5. RunInv'
  BY <1>1, <1>2 DEF ReadInv, RunInv, Fresh
<1>6. ExecInv'
  BY <1>1, <1>2 DEF ReadInv, ExecInv
<1>7. ExecutedInv'
  BY <1>1, <1>2 DEF ReadInv, ExecutedInv, Calls
<1> QED
  BY <1>3, <1>4, <1>5, <1>6, <1>7 DEF ReadInv

(* The driver retries, with the retry bit, or gives up.                    *)
LEMMA AttemptTimeoutStep ==
    ASSUME TypeOK, ReadInv, AttemptTimeout
    PROVE  ReadInv'
<1>1. UNCHANGED <<calls, spiVars, rpiVars>>
  BY DEF AttemptTimeout
<1>2. /\ calls' = calls /\ pkt' = pkt /\ rpi' = rpi /\ rm' = rm /\ execs' = execs
  BY <1>1 DEF spiVars, rpiVars
<1>3. drv'.cmd = drv.cmd /\ Retried' /\ drv.pc # "idle"
  <2>1. drv \in Driver /\ drv.pc # "idle" /\ drv.retries + 1 > 0
    BY DEF AttemptTimeout, TypeOK, DriverTypeOK, Driver
  <2>2. \/ drv' = [drv EXCEPT !.pc = "cmd", !.retries = @ + 1]
        \/ drv' = [drv EXCEPT !.pc = "idle"]
    BY DEF AttemptTimeout
  <2> QED
    BY <2>1, <2>2 DEF Driver, Retried
<1>4. DriverInv'
  BY <1>2, <1>3 DEF ReadInv, DriverInv
<1>5. PacketInv'
  BY <1>2, <1>3 DEF ReadInv, PacketInv, Fresh
<1>6. RunInv' /\ ExecInv' /\ ExecutedInv'
  BY <1>2, <1>3 DEF ReadInv, RunInv, ExecInv, ExecutedInv, FreshRetry, Fresh
<1> QED
  BY <1>4, <1>5, <1>6 DEF ReadInv

(* Hans passes the command on: its packet belongs to the current call.     *)
LEMMA GetCommandStep ==
    ASSUME TypeOK, ReadInv, HansGetCommand
    PROVE  ReadInv'
<1>1. /\ drv' = [drv EXCEPT !.pc = "data"] /\ calls' = calls
      /\ rpi' = rpi /\ rm' = rm /\ execs' = execs
  BY DEF HansGetCommand, rpiVars
<1>2. pkt'.atn = "acsi" /\ pkt'.left = 2 /\ pkt'.tag = [cmd |-> drv.cmd, call |-> calls]
      /\ pkt'.retry = (drv.retries > 0)
  BY DEF HansGetCommand, Arm
<1>3. drv'.pc = "data" /\ drv'.cmd = drv.cmd /\ drv.pc = "cmd"
  BY <1>1 DEF HansGetCommand, TypeOK, DriverTypeOK, Driver
<1>4. calls \in Nat /\ calls > 0 /\ drv.cmd \in Cmds
  BY <1>3 DEF ReadInv, DriverInv, TypeOK, DriverTypeOK
<1>5. DriverInv' /\ Retried' /\ (Retried => FreshRetry')
  <2>1. Retried => pkt'.retry
    BY <1>2, <1>3 DEF Retried
  <2> QED
    BY <1>1, <1>2, <1>3, <1>4, <2>1 DEF DriverInv, Retried, FreshRetry, Fresh
<1>6. PacketInv'
  BY <1>1, <1>2, <1>3, <1>4, <1>5 DEF PacketInv, Fresh
<1>7. RunInv'
  <2>1. rpi.pc = "run" => rpi.tag.call \in 1..calls
    BY DEF ReadInv, RunInv
  <2> QED
    BY <2>1, <1>1, <1>2, <1>3, <1>4, <1>5 DEF ReadInv, RunInv, Fresh
<1>8. ExecInv' /\ ExecutedInv'
  BY <1>1, <1>3, <1>5 DEF ReadInv, ExecInv, ExecutedInv
<1> QED
  BY <1>5, <1>6, <1>7, <1>8 DEF ReadInv

(* Hans passes a block on: it belongs to the current call, a WRITE.        *)
LEMMA DataWriteStep ==
    ASSUME TypeOK, ReadInv, HansDataWrite
    PROVE  ReadInv'
<1>1. UNCHANGED <<drv, calls, rpi, rm, execs>>
  BY DEF HansDataWrite, drvVars, rpiVars
<1>2. CASE UNCHANGED pkt
  <2>1. NothingArmed /\ DriverSettles
    BY <1>1, <1>2 DEF NothingArmed, DriverSettles, Fresh
  <2> QED
    BY <1>1, <2>1, QuietStep DEF rpiVars
<1>3. CASE /\ DmaReady(Writes)
           /\ Arm("moreWrite", [cmd |-> drv.cmd, call |-> calls], FALSE)
  <2>1. pkt'.atn = "moreWrite" /\ pkt'.tag = [cmd |-> drv.cmd, call |-> calls]
    BY <1>3 DEF Arm
  <2>2. drv.cmd \in Writes /\ calls \in Nat /\ calls > 0
    BY <1>3 DEF DmaReady, ReadInv, DriverInv, TypeOK, DriverTypeOK
  <2>3. DriverInv' /\ PacketInv'
    BY <1>1, <2>1, <2>2 DEF ReadInv, DriverInv, PacketInv, Fresh
  <2>4. (Retried => Retried') /\ FreshRetry'
    BY <1>1, <2>1 DEF Retried, FreshRetry, Fresh
  <2>5. RunInv' /\ ExecInv' /\ ExecutedInv'
    BY <1>1, <2>1, <2>4 DEF ReadInv, RunInv, ExecInv, ExecutedInv, Fresh
  <2> QED
    BY <2>3, <2>5 DEF ReadInv
<1> QED
  BY <1>2, <1>3 DEF HansDataWrite

(* The core thread.                                                        *)
LEMMA RpiStep ==
    ASSUME TypeOK, ReadInv, Next, Rpi, NothingArmed
    PROVE  ReadInv'
<1>1. UNCHANGED <<drv, calls>>
  BY DEF Rpi, RpiFwVersion, RpiReplay, RpiReceive, RpiAnswer, RpiAskData, RpiRecvData,
     RpiExecWrite, RpiSendStatus, RpiSendData, RpiSwallow, RpiClockRest, RpiTimeout, drvVars
<1>2. DriverInv' /\ PacketInv' /\ (Retried => Retried') /\ (FreshRetry => FreshRetry')
  BY <1>1, SettledStep DEF ReadInv, DriverSettles
<1>3. RunInv' /\ ExecInv' /\ ExecutedInv'
  <2>1. CASE RpiReceive
    <3>1. /\ rpi' = [pc |-> "run", tag |-> pkt.tag, good |-> TRUE]
          /\ rm'.cmd = pkt.tag.cmd /\ rm'.dir = rm.dir /\ execs' = execs
      BY <2>1 DEF RpiReceive, GoTo, TypeOK, RpiTypeOK, Slot
    <3>2. Fresh("acsi") /\ ~(pkt.retry /\ rm.cmd = pkt.tag.cmd /\ rm.dir = "read")
      BY <2>1 DEF RpiReceive, GotThisCmd
    <3>3. ~Fresh("acsi")'
      BY <2>1 DEF RpiReceive, Fresh, TypeOK, SpiTypeOK, Packet
    <3>4. RunInv'
      BY <1>1, <1>2, <3>1, <3>2, <3>3 DEF ReadInv, PacketInv, RunInv, FreshRetry
    <3>5. ~(calls # 0 /\ drv.cmd \in Reads /\ execs[calls] # 0)
      BY <3>2 DEF ReadInv, PacketInv, ExecutedInv, FreshRetry
    <3> QED
      BY <1>1, <3>1, <3>4, <3>5 DEF ReadInv, ExecInv, ExecutedInv
  <2>2. CASE RpiAnswer
    <3>1. /\ rpi.pc = "run" /\ rpi.tag.cmd \in Reads /\ rpi.tag.call \in 1..calls
          /\ rm.cmd = rpi.tag.cmd
      BY <2>2 DEF RpiAnswer, ReadInv, RunInv
    <3>2. /\ rpi' = [pc |-> "sendData", tag |-> rpi.tag, good |-> TRUE]
          /\ rm'.cmd = rm.cmd /\ rm'.dir = "read"
          /\ execs' = [execs EXCEPT ![rpi.tag.call] = @ + 1]
      BY <2>2 DEF RpiAnswer, GoTo, TypeOK, RpiTypeOK, Slot
    <3>3. ~(calls # 0 /\ drv.cmd \in Reads /\ execs[calls] # 0)
      BY <3>1 DEF ReadInv, ExecutedInv
    <3>4. calls \in Calls \union {0} /\ execs \in [Calls -> Nat]
      BY BoundsAssumption DEF TypeOK, DriverTypeOK, RpiTypeOK, Calls
    <3>5. \A k \in Calls : k > calls => execs'[k] = 0
      BY <3>1, <3>2, <3>4 DEF ReadInv, ExecutedInv, Calls
    <3>6. CASE rpi.tag.call = calls
      <4>1. drv.cmd \in Reads /\ execs[calls] = 0 /\ execs'[calls] = 1
        BY <3>1, <3>2, <3>3, <3>4, <3>6 DEF ReadInv, RunInv, Calls
      <4>2. rm'.cmd = drv.cmd /\ Retried' /\ FreshRetry'
        BY <1>2, <3>1, <3>2, <3>6 DEF ReadInv, RunInv
      <4> QED
        BY <1>1, <3>2, <3>5, <4>1, <4>2 DEF RunInv, ExecInv, ExecutedInv
    <3>7. CASE rpi.tag.call # calls
      <4>1. calls # 0 => execs'[calls] = execs[calls]
        BY <3>2, <3>4, <3>7
      <4> QED
        BY <1>1, <3>2, <3>3, <3>5, <4>1 DEF RunInv, ExecInv, ExecutedInv
    <3> QED
      BY <3>6, <3>7
  <2>3. CASE RpiRecvData
    <3>1. /\ rpi' = [pc |-> "exec", tag |-> pkt.tag, good |-> TRUE]
          /\ rpi.pc = "recvData" /\ UNCHANGED <<rm, execs>> /\ Fresh("moreWrite")
      BY <2>3 DEF RpiRecvData, GoTo
    <3> QED
      BY <1>1, <3>1 DEF ReadInv, PacketInv, RunInv, ExecInv, ExecutedInv
  <2>4. CASE RpiExecWrite
    <3>1. /\ rpi.pc = "exec" /\ rpi.tag.call \in 1..calls
          /\ rpi.tag.call = calls => drv.cmd \in Writes
      BY <2>4 DEF RpiExecWrite, ReadInv, ExecInv
    <3>2. /\ rpi' = [pc |-> "sendStatus", tag |-> rpi.tag, good |-> TRUE]
          /\ execs' = [execs EXCEPT ![rpi.tag.call] = @ + 1]
      BY <2>4 DEF RpiExecWrite, GoTo
    <3>3. calls \in Calls \union {0} /\ execs \in [Calls -> Nat]
      BY BoundsAssumption DEF TypeOK, DriverTypeOK, RpiTypeOK, Calls
    <3>4. \A k \in Calls : k > calls => execs'[k] = 0
      BY <3>1, <3>2, <3>3 DEF ReadInv, ExecutedInv, Calls
    <3>5. ~(calls # 0 /\ drv.cmd \in Reads /\ execs'[calls] # 0)
      <4>1. drv.cmd \in Reads => rpi.tag.call # calls
        BY <3>1, CommandsAssumption
      <4>2. drv.cmd \in Reads /\ calls # 0 => execs'[calls] = execs[calls]
        BY <3>2, <3>3, <4>1
      <4> QED
        BY <3>1, <4>2 DEF ReadInv, ExecutedInv
    <3> QED
      BY <1>1, <3>2, <3>4, <3>5 DEF RunInv, ExecInv, ExecutedInv
  <2>5. CASE /\ rpi'.pc \notin {"run", "exec"} /\ UNCHANGED execs
             /\ rpi.pc \notin {"poll", "sendData"}
    BY <1>1, <2>5 DEF ReadInv, RunInv, ExecInv, ExecutedInv
  <2>6. CASE rpi'.pc \in {"poll", "sendData"} /\ UNCHANGED <<rm, execs>>
    BY <1>1, <1>2, <2>6 DEF ReadInv, RunInv, ExecInv, ExecutedInv
  <2>7. CASE UNCHANGED rpiVars
    <3>1. DriverSettles
      BY <1>1 DEF DriverSettles
    <3> QED
      BY <2>7, <3>1, QuietStep DEF ReadInv
  <2>8. CASE RpiReplay \/ RpiAskData \/ RpiSendStatus \/ RpiSendData
    BY <2>5, <2>6, <2>8 DEF RpiReplay, RpiAskData, RpiSendStatus, RpiSendData, GoTo
  <2>9. CASE RpiSwallow \/ RpiTimeout
    <3>1. CASE rpi.pc = "recvData"
      BY <2>5, <2>9, <3>1 DEF RpiSwallow, RpiTimeout, WaitFails, RecvFailed, GoTo
    <3>2. CASE rpi.pc # "recvData"
      BY <2>6, <2>9, <3>2 DEF RpiSwallow, RpiTimeout, WaitFails, GoTo
    <3> QED
      BY <3>1, <3>2
  <2>10. CASE RpiFwVersion \/ RpiClockRest
    BY <2>7, <2>10 DEF RpiFwVersion, RpiClockRest
  <2> QED
    BY <2>1, <2>2, <2>3, <2>4, <2>8, <2>9, <2>10 DEF Rpi
<1> QED
  BY <1>2, <1>3 DEF ReadInv

(* ReadInv is inductive.                                                   *)
LEMMA ReadInvStep == TypeOK /\ ReadInv /\ [Next]_vars => ReadInv'
<1> SUFFICES ASSUME TypeOK, ReadInv, [Next]_vars PROVE ReadInv'
  OBVIOUS
<1>1. CASE UNCHANGED vars
  <2>1. UNCHANGED <<drv, calls, pkt, rpi, rm, execs>>
    BY <1>1 DEF vars, drvVars, spiVars, rpiVars
  <2>2. DriverSettles /\ NothingArmed /\ UNCHANGED rpiVars
    BY <2>1 DEF DriverSettles, NothingArmed, Fresh, rpiVars
  <2> QED
    BY <2>2, QuietStep
<1>2. CASE HansGetCommand
  BY <1>2, GetCommandStep
<1>3. CASE HansDataWrite
  BY <1>3, DataWriteStep
<1>4. CASE Hans /\ ~HansGetCommand /\ ~HansDataWrite
  <2>1. NothingArmed /\ DriverSettles
    BY <1>4, NothingArmedSteps, DriverSettlesSteps DEF Next
  <2>2. UNCHANGED rpiVars
    BY <1>4 DEF Hans, HansProcess, HansWaitTimeout, HansStartRead, HansReadTimeout,
       HansAskStatus, HansFinishRead, HansFinishStatus, HansStaleRead, HansStaleWrite,
       HansForceIdle, HansSendFw
  <2> QED
    BY <2>1, <2>2, QuietStep
<1>5. CASE Rpi /\ ~HansGetCommand /\ ~HansDataWrite
  BY <1>5, NothingArmedSteps, RpiStep DEF Next
<1> QED
  BY <1>1, <1>2, <1>3, <1>4, <1>5, StartCallStep, AttemptTimeoutStep DEF Next

(* The inductive invariant holds in every reachable state.                 *)
THEOREM ReadInvHolds == Spec => []ReadInv
<1>1. Init => ReadInv
  BY BoundsAssumption
     DEF Init, NoPkt, ReadInv, DriverInv, PacketInv, RunInv, ExecInv, ExecutedInv, Fresh
<1> QED
  BY <1>1, ReadInvStep, TypeCorrect, PTL DEF Spec

(* However often the driver retries a READ, and whatever is lost on the    *)
(* way, the module runs at most once for the call.                         *)
THEOREM ReadRunsAtMostOnce == Spec => []ReadRunsOnce
<1>1. TypeOK /\ ReadInv => ReadRunsOnce
  BY DEF TypeOK, DriverTypeOK, RpiTypeOK, Calls, ReadInv, ExecutedInv, ReadRunsOnce
<1> QED
  BY <1>1, ReadInvHolds, TypeCorrect, PTL

(***************************************************************************)
(* What RetryModule would replay                                           *)
(***************************************************************************)

(* The slot is wrong only while a module runs: then the command is known    *)
(* to be the one of the slot, and before the next poll either its data are  *)
(* stored or the direction is that of a WRITE.                              *)
SlotInv ==
    /\ rpi.pc \in {"poll", "sendData"} /\ rm.dir = "read" => rm.tag.cmd = rm.cmd
    /\ rpi.pc = "run" => rpi.tag.cmd = rm.cmd
    /\ rpi.pc = "sendStatus" => rm.dir = "write"

LEMMA SlotStep == TypeOK /\ SlotInv /\ [Next]_vars => SlotInv'
<1> SUFFICES ASSUME TypeOK, SlotInv, [Next]_vars PROVE SlotInv'
  OBVIOUS
<1>1. CASE UNCHANGED rpiVars
  BY <1>1 DEF rpiVars, SlotInv
<1>2. CASE RpiFwVersion \/ RpiClockRest
  BY <1>2 DEF RpiFwVersion, RpiClockRest, rpiVars, SlotInv
<1>3. CASE RpiReplay
  BY <1>3 DEF RpiReplay, GoTo, SlotInv
<1>4. CASE RpiReceive
  <2>1. rm' = [rm EXCEPT !.cmd = pkt.tag.cmd] /\ rpi' = [pc |-> "run", tag |-> pkt.tag, good |-> TRUE]
    BY <1>4 DEF RpiReceive, GoTo
  <2>2. rm'.cmd = pkt.tag.cmd
    BY <2>1 DEF TypeOK, RpiTypeOK, Slot
  <2> QED
    BY <2>1, <2>2 DEF SlotInv
<1>5. CASE RpiAnswer
  <2>1. /\ rpi.tag.cmd = rm.cmd
        /\ rm' = [rm EXCEPT !.dir = "read", !.tag = rpi.tag]
        /\ rpi' = [pc |-> "sendData", tag |-> rpi.tag, good |-> TRUE]
    BY <1>5 DEF RpiAnswer, GoTo, SlotInv
  <2>2. rm'.cmd = rm.cmd /\ rm'.tag = rpi.tag
    BY <2>1 DEF TypeOK, RpiTypeOK, Slot
  <2> QED
    BY <2>1, <2>2 DEF SlotInv
<1>6. CASE RpiAskData \/ RpiRecvData
  BY <1>6 DEF RpiAskData, RpiRecvData, GoTo, SlotInv
<1>7. CASE RpiExecWrite
  <2>1. /\ rm' = [rm EXCEPT !.dir = "write"]
        /\ rpi' = [pc |-> "sendStatus", tag |-> rpi.tag, good |-> TRUE]
    BY <1>7 DEF RpiExecWrite, GoTo
  <2>2. rm'.dir = "write"
    BY <2>1 DEF TypeOK, RpiTypeOK, Slot
  <2> QED
    BY <2>1, <2>2 DEF SlotInv
<1>8. CASE RpiSendStatus \/ RpiSendData
  BY <1>8 DEF RpiSendStatus, RpiSendData, GoTo, SlotInv
<1>9. CASE RpiSwallow \/ RpiTimeout
  <2>1. rpi.pc # "run" /\ rpi.pc # "exec"
    BY <1>9 DEF RpiSwallow, RpiTimeout, Awaited, TypeOK, SpiTypeOK, Packet
  <2>2. WaitFails
    BY <1>9 DEF RpiSwallow, RpiTimeout
  <2>3. CASE rpi.pc = "recvData"
    <3>1. rm' = [rm EXCEPT !.dir = "write"] /\ rpi' = [pc |-> "sendStatus", tag |-> rpi.tag, good |-> FALSE]
      BY <2>2, <2>3 DEF WaitFails, RecvFailed, GoTo
    <3>2. rm'.dir = "write"
      BY <3>1 DEF TypeOK, RpiTypeOK, Slot
    <3> QED
      BY <3>1, <3>2 DEF SlotInv
  <2>4. CASE rpi.pc # "recvData"
    <3>1. rpi' = [pc |-> "poll", tag |-> NoTag, good |-> FALSE] /\ rm' = rm
      BY <2>2, <2>4 DEF WaitFails, GoTo
    <3>2. rpi.pc \in {"poll", "sendData", "sendStatus"}
      BY <2>1, <2>4 DEF TypeOK, RpiTypeOK, Core
    <3> QED
      BY <3>1, <3>2 DEF SlotInv
  <2> QED
    BY <2>3, <2>4
<1> QED
  BY <1>1, <1>2, <1>3, <1>4, <1>5, <1>6, <1>7, <1>8, <1>9, RpiFrame DEF Rpi, vars

LEMMA SlotInvHolds == Spec => []SlotInv
<1>1. Init => SlotInv
  BY DEF Init, SlotInv
<1> QED
  BY <1>1, SlotStep, TypeCorrect, PTL DEF Spec

(* When the core thread polls, what RetryModule would replay for a command *)
(* was produced by that command: a slot of which half is of another one is *)
(* never seen by the poll.                                                 *)
THEOREM SlotConsistentHolds == Spec => []SlotConsistent
<1>1. SlotInv => SlotConsistent
  BY DEF SlotInv, SlotConsistent
<1> QED
  BY <1>1, SlotInvHolds, PTL

-----------------------------------------------------------------------------
(***************************************************************************)
(* A patient driver: the inductive invariant                               *)
(***************************************************************************)

(* The module has run for this tag.                                        *)
Made(tag) == tag.call \in 1..calls /\ execs[tag.call] >= 1

(* No module ran for a later call.                                         *)
Last(tag) == Made(tag) /\ \A k \in 1..calls : k > tag.call => execs[k] = 0

(* Data kept, or on their way to Hans, are from the last module that ran.  *)
MadeInv ==
    /\ rm.dir = "read" => Last(rm.tag)
    /\ rpi.pc = "sendData" => Last(rpi.tag)

(* Data of an earlier call are for a retry only.                           *)
Own(tag) == tag.call = calls \/ drv.retries > 0

(* RetryModule has the command of the module that runs.                    *)
ModuleInv == rpi.pc \in {"run", "recvData", "exec"} => rpi.tag.cmd = rm.cmd

(* A patient driver does not start a call before the last one is settled.  *)
PatientInv ==
    /\ rpi.pc = "run" => rpi.tag.call = calls /\ drv.pc # "idle"
    /\ Fresh("acsi") => /\ pkt.tag.call = calls /\ drv.pc # "idle"
                        /\ pkt.retry => drv.retries > 0

(* Hans serves the attempt the driver is waiting for.                      *)
Serving == inCmd /\ drv.pc = "data"

(* Hans in a state of the command loop, or not.                            *)
LoopInv ==
    /\ hans \in {"WAIT_COMMAND_RESPONSE", "READING", "READ_STATUS", "GETTING_STATUS"} => inCmd
    /\ inCmd => hans # "GET_COMMAND"
    /\ Fresh("moreWrite") => /\ Serving /\ hans = "READ_STATUS"
                             /\ pkt.tag.cmd = drv.cmd /\ pkt.tag.call = calls

(* The data the core thread sends or wants are those of the command.       *)
OwnData ==
    /\ rpi.pc \in {"sendData", "recvData"} => rpi.tag.cmd = drv.cmd
    /\ rpi.pc = "sendData" => Own(rpi.tag)

(* Hans waits for the answer: the packet of the command ends with an       *)
(* answer to it, or with none.                                             *)
WaitInv ==
    Serving /\ hans = "WAIT_COMMAND_RESPONSE" =>
        /\ pkt.atn = "acsi" /\ (spiIdle => pkt.left = 0)
        /\ pkt.left = 2 => ~pkt.ans
        /\ pkt.left = 1 /\ ~pkt.ans => rpi.pc \in {"run", "poll", "sendStatus"}
        /\ pkt.left = 0 \/ pkt.ans =>
              /\ rpi.pc \in {"sendData", "recvData", "sendStatus", "poll"} /\ OwnData
              /\ cmdBuf.op = "read"  => rpi.pc \in {"sendData", "poll"}
              /\ cmdBuf.op = "write" =>
                    \/ rpi.pc \in {"recvData", "poll"}
                    \/ rpi.pc = "sendStatus" /\ ~rpi.good

(* Hans serves a READ: the block comes from a run of this command.         *)
ReadPhase ==
    Serving /\ hans \in {"DATA_READ", "READING"} =>
        /\ rpi.pc \in {"sendData", "poll"} /\ ~Fresh("acsi") /\ OwnData
        /\ hans = "READING" /\ rdBuf # NoTag =>
              rdBuf.cmd = drv.cmd /\ Last(rdBuf) /\ Own(rdBuf)

(* Hans serves a WRITE: a good status follows the execution.               *)
WritePhase ==
    Serving /\ hans \in {"DATA_WRITE", "READ_STATUS", "GETTING_STATUS"} =>
        /\ rpi.pc \in {"recvData", "exec", "sendStatus", "poll"}
        /\ ~Fresh("acsi") /\ OwnData
        /\ hans # "DATA_WRITE" => drv.cmd \in Writes
        /\ rpi.pc = "exec" => rpi.tag.call = calls
        /\ rpi.pc = "sendStatus" /\ rpi.good => execs[calls] >= 1
        /\ cmdBuf.op = "status" /\ cmdBuf.good => execs[calls] >= 1

(* The result of the last call is true.                                    *)
ResultInv ==
    drv.pc = "idle" /\ res.success /\ res.good =>
        /\ res.call = calls
        /\ drv.cmd \in Reads  => res.tag.cmd = drv.cmd
        /\ drv.cmd \in Writes => execs[calls] >= 1

CallInv ==
    /\ MadeInv /\ ModuleInv /\ PatientInv /\ LoopInv
    /\ WaitInv /\ ReadPhase /\ WritePhase /\ ResultInv

(***************************************************************************)
(* What the parts of a step do to the fields                               *)
(***************************************************************************)

LEMMA ArmFields ==
    ASSUME NEW atn, NEW tag, NEW retry, Arm(atn, tag, retry)
    PROVE  /\ pkt'.atn = atn /\ pkt'.tag = tag /\ pkt'.retry = retry
           /\ pkt'.left = 2 /\ ~pkt'.ans /\ ~spiIdle'
BY DEF Arm

LEMMA WholeFields ==
    ASSUME TypeOK, ClockWhole
    PROVE  /\ pkt'.left = 0 /\ spiIdle'
           /\ pkt'.atn = pkt.atn /\ pkt'.tag = pkt.tag /\ pkt'.ans = pkt.ans
           /\ pkt'.retry = pkt.retry
BY DEF ClockWhole, TypeOK, SpiTypeOK, Packet

LEMMA FrontFields ==
    ASSUME TypeOK, pkt' = [pkt EXCEPT !.left = 1]
    PROVE  /\ pkt'.left = 1 /\ pkt'.retry = pkt.retry
           /\ pkt'.atn = pkt.atn /\ pkt'.tag = pkt.tag /\ pkt'.ans = pkt.ans
BY DEF TypeOK, SpiTypeOK, Packet

LEMMA AnswerFields ==
    ASSUME TypeOK, NEW r, ClockAnswer(r)
    PROVE  /\ pkt'.atn = pkt.atn /\ pkt'.tag = pkt.tag /\ pkt'.retry = pkt.retry
           /\ pkt'.left = IF pkt.left = 0 THEN 0 ELSE pkt.left - 1
           /\ pkt'.ans = (pkt.ans \/ pkt.left # 0)
           /\ spiIdle' = (spiIdle \/ pkt.left = 1)
           /\ cmdBuf' = IF pkt.left # 0 /\ RxCmdBuffer THEN r ELSE cmdBuf
BY DEF ClockAnswer, TypeOK, SpiTypeOK, Packet

LEMMA GoToFields ==
    ASSUME NEW pc, NEW tag, NEW good, GoTo(pc, tag, good)
    PROVE  rpi'.pc = pc /\ rpi'.tag = tag /\ rpi'.good = good
BY DEF GoTo

(* The fields' types, for the steps that only look at them.                *)
LEMMA FieldTypes ==
    ASSUME TypeOK
    PROVE  /\ pkt.left \in 0..2 /\ pkt.ans \in BOOLEAN /\ pkt.tag \in Tags
           /\ spiIdle \in BOOLEAN /\ inCmd \in BOOLEAN
           /\ rpi.tag \in Tags /\ rpi.good \in BOOLEAN
           /\ rm.tag \in Tags /\ rdBuf \in Tags /\ calls \in Nat
           /\ cmdBuf.good \in BOOLEAN
           /\ \A k \in Calls : execs[k] \in Nat
           /\ \A k \in 1..calls : k \in Calls
<1>1. calls \in 0..MaxCalls /\ MaxCalls \in Nat
  BY BoundsAssumption DEF TypeOK, DriverTypeOK
<1>2. calls \in Nat /\ \A k \in 1..calls : k \in Calls
  BY <1>1 DEF Calls
<1>3. pkt.left \in 0..2 /\ pkt.ans \in BOOLEAN /\ pkt.tag \in Tags
  BY DEF TypeOK, SpiTypeOK, Packet
<1>4. cmdBuf.good \in BOOLEAN
  BY DEF TypeOK, SpiTypeOK, Reply
<1> QED
  BY <1>2, <1>3, <1>4 DEF TypeOK, HansTypeOK, SpiTypeOK, RpiTypeOK, Core, Slot

(***************************************************************************)
(* The driver                                                              *)
(***************************************************************************)

LEMMA CallInvStart ==
    ASSUME TypeOK, CallInv, ReadInv, NEW c \in Cmds, StartCall(c) PROVE CallInv'
<1> USE FieldTypes DEF StartCall, CallInv, hansVars, spiVars, rpiVars
<1>1. /\ drv'.pc = "cmd" /\ calls' = calls + 1 /\ drv.pc = "idle"
      /\ execs' = execs /\ execs[calls + 1] = 0
  <2>1. calls + 1 \in Calls
    BY BoundsAssumption DEF Calls
  <2> QED
    BY <2>1 DEF ReadInv, ExecutedInv
<1>2. MadeInv'
  BY <1>1 DEF MadeInv, Last, Made
<1>3. ModuleInv' /\ PatientInv'
  BY <1>1 DEF ModuleInv, PatientInv, Fresh
<1>4. LoopInv'
  BY <1>1 DEF LoopInv, Serving, Fresh
<1>5. WaitInv' /\ ReadPhase' /\ WritePhase' /\ ResultInv'
  BY <1>1 DEF WaitInv, ReadPhase, Last, Made, Own, WritePhase, ResultInv, Serving
<1> QED
  BY <1>2, <1>3, <1>4, <1>5

LEMMA CallInvTimeout == ASSUME TypeOK, CallInv, Patient, AttemptTimeout PROVE CallInv'
<1> USE FieldTypes DEF CallInv, hansVars, spiVars, rpiVars
<1>1. /\ UNCHANGED <<calls, hans, inCmd, spiIdle, pkt, cmdBuf, rdBuf, rpi, rm, execs>>
      /\ drv.pc # "idle"
  BY DEF AttemptTimeout
<1>2. /\ drv'.pc \in {"cmd", "idle"}
      /\ drv'.pc = "idle" => Settled /\ ~res'.success
      /\ drv'.pc = "cmd" => drv'.retries > 0
  <2>1. CASE drv.retries < MaxRetries
    <3>1. drv' = [drv EXCEPT !.pc = "cmd", !.retries = @ + 1]
      BY <2>1, BoundsAssumption DEF AttemptTimeout, TypeOK, DriverTypeOK, Driver
    <3> QED
      BY <3>1 DEF TypeOK, DriverTypeOK, Driver
  <2>2. CASE drv.retries = MaxRetries
    <3>1. drv' = [drv EXCEPT !.pc = "idle"] /\ Settled
      BY <2>2, BoundsAssumption DEF AttemptTimeout
    <3>2. res' = [success |-> FALSE, good |-> FALSE, tag |-> NoTag, call |-> calls]
      BY <2>2, BoundsAssumption DEF AttemptTimeout
    <3> QED
      BY <3>1, <3>2 DEF TypeOK, DriverTypeOK, Driver
  <2> QED
    BY <2>1, <2>2 DEF AttemptTimeout
<1>3. MadeInv' /\ ModuleInv'
  BY <1>1 DEF MadeInv, Last, Made, ModuleInv
<1>4. PatientInv'
  BY <1>1, <1>2 DEF PatientInv, Fresh, Settled
<1>5. LoopInv'
  <2>1. ~Fresh("moreWrite")
    <3> SUFFICES ASSUME Fresh("moreWrite") PROVE FALSE
      OBVIOUS
    <3>1. inCmd /\ drv.pc = "data" /\ hans = "READ_STATUS"
      BY DEF LoopInv, Serving
    <3> QED
      BY <3>1 DEF AttemptTimeout
  <2> QED
    BY <1>1, <2>1 DEF LoopInv, Fresh
<1>6. WaitInv' /\ ReadPhase' /\ WritePhase' /\ ResultInv'
  BY <1>2 DEF WaitInv, ReadPhase, Last, Made, Own, WritePhase, ResultInv, Serving
<1> QED
  BY <1>3, <1>4, <1>5, <1>6

(***************************************************************************)
(* Hans                                                                    *)
(***************************************************************************)

(* A step of Hans that neither the core thread nor the programs see.       *)
LEMMA QuietHans ==
    ASSUME TypeOK, CallInv, UNCHANGED <<drvVars, rpiVars, rdBuf>>
    PROVE  MadeInv' /\ ModuleInv' /\ ResultInv'
BY DEF CallInv, MadeInv, Last, Made, ModuleInv, ResultInv, drvVars, rpiVars

LEMMA CallInvGetCommand == ASSUME TypeOK, CallInv, HansGetCommand PROVE CallInv'
<1> USE FieldTypes DEF CallInv, rpiVars
<1>1. /\ drv'.pc = "data" /\ drv'.cmd = drv.cmd /\ drv.pc = "cmd"
      /\ drv'.retries = drv.retries
      /\ hans' = "WAIT_COMMAND_RESPONSE" /\ inCmd'
      /\ UNCHANGED <<calls, res, cmdBuf, rdBuf, rpi, rm, execs>>
  BY DEF HansGetCommand, TypeOK, DriverTypeOK, Driver
<1>2. /\ pkt'.atn = "acsi" /\ pkt'.tag.call = calls
      /\ pkt'.left = 2 /\ ~pkt'.ans /\ ~spiIdle'
      /\ pkt'.retry = (drv.retries > 0)
  BY ArmFields DEF HansGetCommand
<1>3. MadeInv' /\ ModuleInv'
  BY <1>1 DEF MadeInv, Last, Made, ModuleInv
<1>4. PatientInv' /\ LoopInv'
  BY <1>1, <1>2 DEF PatientInv, LoopInv, Fresh
<1>5. WaitInv'
  BY <1>1, <1>2 DEF WaitInv
<1>6. ReadPhase' /\ WritePhase' /\ ResultInv'
  BY <1>1 DEF ReadPhase, Last, Made, Own, WritePhase, ResultInv
<1> QED
  BY <1>3, <1>4, <1>5, <1>6

LEMMA CallInvProcess == ASSUME TypeOK, CallInv, HansProcess PROVE CallInv'
<1> USE FieldTypes DEF CallInv, drvVars, rpiVars
<1>1. /\ UNCHANGED <<drv, calls, res, inCmd, spiIdle, pkt, rdBuf, rpi, rm, execs>>
      /\ spiIdle /\ (inCmd => hans = "WAIT_COMMAND_RESPONSE")
  BY DEF HansProcess
<1>2. MadeInv' /\ ModuleInv' /\ ResultInv'
  BY <1>1, QuietHans
<1>3. PatientInv'
  BY <1>1 DEF PatientInv, Fresh
<1>4. CASE cmdBuf.op \notin {"read", "write"}
  <2>1. hans' = hans /\ cmdBuf' = cmdBuf
    BY <1>4 DEF HansProcess
  <2> QED
    BY <1>1, <1>2, <1>3, <2>1
       DEF LoopInv, WaitInv, ReadPhase, Last, Made, Own, WritePhase, Serving, OwnData, Own, Fresh
<1>5. CASE cmdBuf.op \in {"read", "write"}
  <2>1. /\ hans' = IF cmdBuf.op = "read" THEN "DATA_READ" ELSE "DATA_WRITE"
        /\ cmdBuf'.op = "none"
    BY <1>5 DEF HansProcess, NoReply
  <2>2. LoopInv'
    BY <1>1, <2>1 DEF LoopInv, Serving, Fresh
  <2>3. WaitInv'
    BY <2>1 DEF WaitInv
  <2>4. Serving => /\ pkt.left = 0 /\ OwnData
                   /\ cmdBuf.op = "read" => rpi.pc \in {"sendData", "poll"}
                   /\ cmdBuf.op = "write" => \/ rpi.pc \in {"recvData", "poll"}
                                             \/ rpi.pc = "sendStatus" /\ ~rpi.good
    BY <1>1 DEF WaitInv, Serving
  <2>5. ReadPhase'
    BY <1>1, <1>5, <2>1, <2>4 DEF ReadPhase, Last, Made, Own, Serving, OwnData, Own, Fresh
  <2>6. WritePhase'
    BY <1>1, <1>5, <2>1, <2>4 DEF WritePhase, Serving, OwnData, Own, Fresh
  <2> QED
    BY <1>2, <1>3, <2>2, <2>3, <2>5, <2>6
<1> QED
  BY <1>4, <1>5

(* Hans leaves the command loop, or a data state of the main loop.         *)
LEMMA CallInvLeave ==
    ASSUME TypeOK, CallInv, UNCHANGED <<drvVars, pkt, cmdBuf, rdBuf, rpiVars>>,
           Leave, hans # "READ_STATUS"
    PROVE  CallInv'
<1> USE FieldTypes DEF CallInv, drvVars, rpiVars, Leave
<1>1. MadeInv' /\ ModuleInv' /\ ResultInv'
  BY QuietHans
<1>2. PatientInv' /\ LoopInv'
  BY DEF PatientInv, LoopInv, Fresh
<1>3. WaitInv' /\ ReadPhase' /\ WritePhase'
  BY DEF WaitInv, ReadPhase, Last, Made, Own, WritePhase, Serving
<1> QED
  BY <1>1, <1>2, <1>3

LEMMA CallInvQuits ==
    ASSUME TypeOK, CallInv,
           \/ HansWaitTimeout \/ HansReadTimeout \/ HansStaleWrite \/ HansForceIdle
    PROVE  CallInv'
<1>1. UNCHANGED <<drvVars, pkt, cmdBuf, rdBuf, rpiVars>> /\ Leave
  BY DEF HansWaitTimeout, HansReadTimeout, HansStaleWrite, HansForceIdle, spiVars
<1>2. hans # "READ_STATUS"
  BY DEF HansWaitTimeout, HansReadTimeout, HansStaleWrite, HansForceIdle, CallInv, LoopInv
<1> QED
  BY <1>1, <1>2, CallInvLeave

(* Hans asks for a block, of this or of an earlier attempt.                *)
LEMMA CallInvStartRead ==
    ASSUME TypeOK, CallInv, HansStartRead \/ HansStaleRead PROVE CallInv'
<1> USE FieldTypes DEF CallInv, drvVars, rpiVars
<1>1. /\ pkt'.atn = "moreRead" /\ rdBuf' = NoTag
      /\ UNCHANGED <<drv, calls, res, cmdBuf, rpi, rm, execs>>
  BY ArmFields DEF HansStartRead, HansStaleRead
<1>2. MadeInv' /\ ModuleInv' /\ ResultInv'
  BY <1>1 DEF MadeInv, Last, Made, ModuleInv, ResultInv
<1>3. PatientInv'
  BY <1>1 DEF PatientInv, Fresh
<1>4. /\ hans' \in {"READING", "GET_COMMAND"} /\ (inCmd' <=> hans' = "READING")
      /\ inCmd' => inCmd /\ hans = "DATA_READ"
  <2>1. CASE HansStartRead
    <3>1. hans' = "READING" /\ inCmd /\ inCmd' = inCmd /\ hans = "DATA_READ"
      BY <2>1 DEF HansStartRead
    <3> QED
      BY <3>1
  <2>2. CASE HansStaleRead
    <3>1. hans' = "GET_COMMAND" /\ ~inCmd'
      BY <2>2 DEF HansStaleRead, Leave
    <3> QED
      BY <3>1
  <2> QED
    BY <2>1, <2>2
<1>5. LoopInv'
  BY <1>1, <1>4 DEF LoopInv, Fresh
<1>6. ReadPhase'
  BY <1>1, <1>4 DEF ReadPhase, Last, Made, Own, Serving, OwnData, Own, Fresh
<1>7. WaitInv' /\ WritePhase'
  BY <1>4 DEF WaitInv, WritePhase
<1> QED
  BY <1>2, <1>3, <1>5, <1>6, <1>7

(* The driver gets a status, or does not notice it; in the former case it  *)
(* has to be true.                                                         *)
LEMMA CallInvStatus ==
    ASSUME TypeOK, CallInv, NEW good \in BOOLEAN, NEW tag \in Tags,
           StatusByte(good, tag), Leave, hans \in {"READING", "GETTING_STATUS"},
           UNCHANGED <<calls, pkt, cmdBuf, rdBuf, rpiVars>>,
           good /\ drv.pc = "data" =>
               /\ drv.cmd \in Reads  => tag.cmd = drv.cmd
               /\ drv.cmd \in Writes => execs[calls] >= 1
    PROVE  CallInv'
<1> USE FieldTypes DEF CallInv, rpiVars, Leave
<1>1. CASE UNCHANGED <<drv, res>>
  BY <1>1, CallInvLeave DEF drvVars
<1>2. CASE /\ drv.pc = "data"
           /\ drv' = [drv EXCEPT !.pc = "idle"]
           /\ res' = [success |-> TRUE, good |-> good, tag |-> tag, call |-> calls]
  <2>1. drv'.pc = "idle" /\ drv'.cmd = drv.cmd
    BY <1>2 DEF TypeOK, DriverTypeOK, Driver
  <2>2. Serving
    BY <1>2 DEF LoopInv, Serving
  <2>3. rpi.pc # "run" /\ ~Fresh("acsi")
    BY <2>2 DEF ReadPhase, Last, Made, Own, WritePhase
  <2>4. ~Fresh("moreWrite")
    BY DEF LoopInv
  <2>5. MadeInv' /\ ModuleInv'
    BY DEF MadeInv, Last, Made, ModuleInv
  <2>6. PatientInv' /\ LoopInv'
    BY <2>3, <2>4 DEF PatientInv, LoopInv, Fresh
  <2>7. WaitInv' /\ ReadPhase' /\ WritePhase'
    BY <2>1 DEF WaitInv, ReadPhase, Last, Made, Own, WritePhase, Serving
  <2>8. ResultInv'
    BY <1>2, <2>1 DEF ResultInv
  <2> QED
    BY <2>5, <2>6, <2>7, <2>8
<1> QED
  BY <1>1, <1>2 DEF StatusByte

LEMMA CallInvFinishRead == ASSUME TypeOK, CallInv, HansFinishRead PROVE CallInv'
<1> USE FieldTypes, CommandsAssumption DEF CallInv
<1>1. /\ Leave /\ hans = "READING"
      /\ UNCHANGED <<calls, pkt, cmdBuf, rdBuf, rpiVars>>
  BY DEF HansFinishRead, spiVars
<1>2. CASE rdBuf # NoTag /\ DmaReady(Reads) /\ StatusByte(TRUE, rdBuf)
  <2>1. drv.cmd \in Reads /\ drv.cmd \notin Writes /\ rdBuf.cmd = drv.cmd
    BY <1>1, <1>2 DEF DmaReady, LoopInv, ReadPhase, Serving
  <2> QED
    BY <1>1, <1>2, <2>1, CallInvStatus
<1>3. CASE UNCHANGED <<drv, res>>
  BY <1>1, <1>3, CallInvLeave DEF drvVars
<1>4. CASE StatusByte(FALSE, NoTag)
  BY <1>1, <1>4, TagTypes, CallInvStatus
<1> QED
  BY <1>2, <1>3, <1>4 DEF HansFinishRead

LEMMA CallInvFinishStatus == ASSUME TypeOK, CallInv, HansFinishStatus PROVE CallInv'
<1> USE FieldTypes, CommandsAssumption DEF CallInv
<1> DEFINE good == cmdBuf.op = "status" /\ cmdBuf.good
<1>1. /\ Leave /\ hans = "GETTING_STATUS" /\ StatusByte(good, NoTag)
      /\ UNCHANGED <<calls, pkt, cmdBuf, rdBuf, rpiVars>>
  BY DEF HansFinishStatus
<1>2. good /\ drv.pc = "data" => drv.cmd \notin Reads /\ execs[calls] >= 1
  BY <1>1 DEF LoopInv, WritePhase, Serving
<1>3. good \in BOOLEAN
  OBVIOUS
<1> HIDE DEF good
<1> QED
  BY <1>1, <1>2, <1>3, TagTypes, CallInvStatus

LEMMA CallInvDataWrite == ASSUME TypeOK, CallInv, HansDataWrite PROVE CallInv'
<1> USE FieldTypes DEF CallInv, drvVars, rpiVars
<1>1. inCmd /\ hans = "DATA_WRITE" /\ UNCHANGED <<drvVars, cmdBuf, rdBuf, rpiVars>>
  BY DEF HansDataWrite
<1>2. CASE Leave /\ UNCHANGED <<pkt, spiIdle>>
  BY <1>1, <1>2, CallInvLeave
<1>3. CASE /\ DmaReady(Writes)
           /\ Arm("moreWrite", [cmd |-> drv.cmd, call |-> calls], FALSE)
           /\ hans' = "READ_STATUS"
           /\ UNCHANGED inCmd
  <2>1. /\ pkt'.atn = "moreWrite"
        /\ pkt'.tag.cmd = drv.cmd /\ pkt'.tag.call = calls
    BY <1>3 DEF Arm
  <2>2. drv.pc = "data" /\ drv.cmd \in Writes
    BY <1>3 DEF DmaReady
  <2>3. MadeInv' /\ ModuleInv' /\ ResultInv'
    BY <1>1, QuietHans
  <2>4. PatientInv' /\ LoopInv'
    BY <1>1, <1>3, <2>1, <2>2 DEF PatientInv, LoopInv, Serving, Fresh
  <2>5. WaitInv' /\ ReadPhase'
    BY <1>3 DEF WaitInv, ReadPhase
  <2>6. WritePhase'
    BY <1>1, <1>3, <2>1, <2>2 DEF WritePhase, Serving, OwnData, Own, Fresh
  <2> QED
    BY <2>3, <2>4, <2>5, <2>6
<1> QED
  BY <1>2, <1>3 DEF HansDataWrite

LEMMA CallInvAskStatus == ASSUME TypeOK, CallInv, HansAskStatus PROVE CallInv'
<1> USE FieldTypes DEF CallInv, drvVars, rpiVars
<1>1. /\ inCmd /\ inCmd' = inCmd /\ hans = "READ_STATUS" /\ hans' = "GETTING_STATUS"
      /\ UNCHANGED <<drvVars, cmdBuf, rdBuf, rpiVars>>
  BY DEF HansAskStatus
<1>2. pkt'.atn = "getStatus"
  BY ArmFields DEF HansAskStatus
<1>3. MadeInv' /\ ModuleInv' /\ ResultInv'
  BY <1>1, QuietHans
<1>4. PatientInv' /\ LoopInv'
  BY <1>1, <1>2 DEF PatientInv, LoopInv, Fresh
<1>5. WaitInv' /\ ReadPhase'
  BY <1>1 DEF WaitInv, ReadPhase
<1>6. WritePhase'
  BY <1>1, <1>2 DEF WritePhase, Serving, OwnData, Own, Fresh
<1> QED
  BY <1>3, <1>4, <1>5, <1>6

LEMMA CallInvSendFw == ASSUME TypeOK, CallInv, HansSendFw PROVE CallInv'
<1> USE FieldTypes DEF CallInv, drvVars, rpiVars
<1>1. ~inCmd /\ UNCHANGED <<drvVars, hans, inCmd, cmdBuf, rdBuf, rpiVars>>
  BY DEF HansSendFw
<1>2. pkt'.atn = "fw"
  BY ArmFields DEF HansSendFw
<1>3. MadeInv' /\ ModuleInv' /\ ResultInv'
  BY <1>1, QuietHans
<1>4. PatientInv' /\ LoopInv'
  BY <1>1, <1>2 DEF PatientInv, LoopInv, Fresh
<1>5. WaitInv' /\ ReadPhase' /\ WritePhase'
  BY <1>1 DEF WaitInv, ReadPhase, Last, Made, Own, WritePhase, Serving
<1> QED
  BY <1>3, <1>4, <1>5

(***************************************************************************)
(* The core thread                                                         *)
(***************************************************************************)

(* No step of the core thread touches the driver or Hans.                  *)
LEMMA RpiOthers == ASSUME Rpi PROVE UNCHANGED <<drvVars, hansVars>>
BY DEF Rpi, RpiFwVersion, RpiReplay, RpiReceive, RpiAnswer, RpiAskData, RpiRecvData,
   RpiExecWrite, RpiSendStatus, RpiSendData, RpiSwallow, RpiClockRest, RpiTimeout

(* A module runs once more.                                                *)
LEMMA ExecsGrow ==
    ASSUME TypeOK, NEW k \in 1..calls, execs' = [execs EXCEPT ![k] = @ + 1]
    PROVE  execs'[k] >= 1 /\ \A c \in Calls : execs'[c] \in Nat /\ execs'[c] >= execs[c]
<1>1. k \in Calls /\ execs \in [Calls -> Nat]
  BY FieldTypes DEF TypeOK, RpiTypeOK
<1> QED
  BY <1>1

LEMMA CallInvPad ==
    ASSUME TypeOK, CallInv, RpiFwVersion \/ RpiClockRest PROVE CallInv'
<1> USE FieldTypes DEF CallInv, drvVars, hansVars, rpiVars
<1>1. /\ UNCHANGED <<drvVars, hansVars, rdBuf, rpiVars>>
      /\ ClockWhole /\ ZerosIntoCmdBuffer
  BY DEF RpiFwVersion, RpiClockRest
<1>2. pkt'.left = 0 /\ spiIdle' /\ pkt'.atn = pkt.atn /\ pkt'.tag = pkt.tag /\ pkt'.ans = pkt.ans
  BY <1>1, WholeFields
<1>3. MadeInv' /\ ModuleInv' /\ ResultInv'
  BY <1>1 DEF MadeInv, Last, Made, ModuleInv, ResultInv
<1>4. PatientInv' /\ LoopInv'
  BY <1>1, <1>2 DEF PatientInv, LoopInv, Fresh
<1>5. cmdBuf' = cmdBuf \/ cmdBuf'.op = "none"
  BY <1>1 DEF ZerosIntoCmdBuffer, NoReply
<1>6. WaitInv'
  <2> SUFFICES ASSUME Serving, hans = "WAIT_COMMAND_RESPONSE" PROVE WaitInv'
    BY <1>1 DEF WaitInv, Serving
  <2>1. pkt.atn = "acsi" /\ pkt.left = 1 /\ rpi.pc # "run"
    BY <1>1 DEF WaitInv, RpiFwVersion, RpiClockRest, Fresh
  <2>2. CASE pkt.ans
    BY <1>1, <1>2, <1>5, <2>1, <2>2 DEF WaitInv, OwnData, Own
  <2>3. CASE ~pkt.ans
    <3>1. cmdBuf' = NoReply
      BY <1>1, <2>1, <2>3 DEF ZerosIntoCmdBuffer, RxCmdBuffer
    <3> QED
      BY <1>1, <1>2, <2>1, <2>3, <3>1 DEF WaitInv, OwnData, Own, NoReply
  <2> QED
    BY <2>2, <2>3
<1>7. ReadPhase' /\ WritePhase'
  BY <1>1, <1>2, <1>5 DEF ReadPhase, Last, Made, Own, WritePhase, Serving, OwnData, Own, Fresh
<1> QED
  BY <1>3, <1>4, <1>6, <1>7

LEMMA CallInvReplay ==
    ASSUME TypeOK, CallInv, ReadInv, SlotInv, RpiReplay PROVE CallInv'
<1> USE FieldTypes DEF CallInv, drvVars, hansVars, rpiVars
<1>1. /\ UNCHANGED <<drvVars, hansVars, rdBuf, rm, execs>>
      /\ rpi.pc = "poll" /\ Fresh("acsi") /\ rm.cmd = pkt.tag.cmd /\ rm.dir = "read"
      /\ cmdBuf'.op = "read"
  BY DEF RpiReplay, GotThisCmd
<1>2. pkt'.left = 0 /\ spiIdle' /\ pkt'.atn = pkt.atn
  BY WholeFields DEF RpiReplay
<1>3. rpi'.pc = "sendData" /\ rpi'.tag = rm.tag
  BY GoToFields DEF RpiReplay
<1>4. rm.tag.cmd = drv.cmd /\ drv.retries > 0
  BY <1>1 DEF RpiReplay, SlotInv, PatientInv, ReadInv, PacketInv
<1>5. MadeInv' /\ ModuleInv' /\ ResultInv'
  BY <1>1, <1>3 DEF MadeInv, Last, Made, ModuleInv, ResultInv
<1>6. PatientInv' /\ LoopInv'
  BY <1>1, <1>2, <1>3 DEF PatientInv, LoopInv, Fresh
<1>7. WaitInv'
  BY <1>1, <1>2, <1>3, <1>4 DEF WaitInv, Serving, OwnData, Own
<1>8. ReadPhase' /\ WritePhase'
  BY <1>1 DEF ReadPhase, Last, Made, Own, WritePhase, Serving
<1> QED
  BY <1>5, <1>6, <1>7, <1>8

LEMMA CallInvReceive ==
    ASSUME TypeOK, CallInv, RpiReceive PROVE CallInv'
<1> USE FieldTypes DEF CallInv, drvVars, hansVars, rpiVars
<1>1. /\ UNCHANGED <<drvVars, hansVars, spiIdle, cmdBuf, rdBuf, execs>>
      /\ rpi.pc = "poll" /\ Fresh("acsi")
  BY DEF RpiReceive
<1>2. pkt'.left = 1 /\ pkt'.atn = pkt.atn /\ pkt'.tag = pkt.tag /\ pkt'.ans = pkt.ans
  BY FrontFields DEF RpiReceive
<1>3. rpi'.pc = "run" /\ rpi'.tag = pkt.tag
  BY GoToFields DEF RpiReceive
<1>4. rm'.cmd = pkt.tag.cmd /\ rm'.dir = rm.dir /\ rm'.tag = rm.tag
  BY DEF RpiReceive, TypeOK, RpiTypeOK, Slot
<1>5. MadeInv' /\ ModuleInv' /\ ResultInv'
  BY <1>1, <1>3, <1>4 DEF MadeInv, Last, Made, ModuleInv, ResultInv
<1>6. PatientInv' /\ LoopInv'
  BY <1>1, <1>2, <1>3 DEF PatientInv, LoopInv, Fresh
<1>7. WaitInv'
  BY <1>1, <1>2, <1>3 DEF WaitInv, Serving, Fresh
<1>8. ReadPhase' /\ WritePhase'
  BY <1>1 DEF ReadPhase, Last, Made, Own, WritePhase, Serving
<1> QED
  BY <1>5, <1>6, <1>7, <1>8

(* The module runs, and answers into whatever is armed.                    *)
LEMMA CallInvAnswer ==
    ASSUME TypeOK, CallInv, ReadInv, RpiAnswer \/ RpiAskData PROVE CallInv'
<1> USE FieldTypes DEF CallInv, drvVars, hansVars, rpiVars
<1>1. UNCHANGED <<drvVars, hansVars, rdBuf>> /\ rpi.pc = "run"
  BY DEF RpiAnswer, RpiAskData
<1>2. PICK op \in {"read", "write"} :
        /\ ClockAnswer([op |-> op, tag |-> rpi.tag, good |-> TRUE])
        /\ rpi'.pc = IF op = "read" THEN "sendData" ELSE "recvData"
        /\ rpi'.tag = rpi.tag
  BY GoToFields DEF RpiAnswer, RpiAskData
<1> DEFINE r == [op |-> op, tag |-> rpi.tag, good |-> TRUE]
<1>4. /\ pkt'.atn = pkt.atn
      /\ pkt'.left = IF pkt.left = 0 THEN 0 ELSE pkt.left - 1
      /\ pkt'.ans = (pkt.ans \/ pkt.left # 0)
      /\ spiIdle' = (spiIdle \/ pkt.left = 1)
      /\ cmdBuf' = IF pkt.left # 0 /\ RxCmdBuffer THEN r ELSE cmdBuf
  <2>1. ClockAnswer(r)
    BY <1>2
  <2> HIDE DEF r
  <2> QED
    BY <2>1, AnswerFields
<1>5. /\ rpi.tag.call \in 1..calls /\ rpi.tag.call = calls
      /\ rpi.tag.cmd = drv.cmd /\ rm.cmd = rpi.tag.cmd
  BY <1>1 DEF ReadInv, RunInv, PatientInv
<1>6. MadeInv'
  <2>1. CASE RpiAnswer
    <3>1. execs' = [execs EXCEPT ![rpi.tag.call] = @ + 1] /\ rpi' = [pc |-> "sendData", tag |-> rpi.tag, good |-> TRUE]
      BY <2>1 DEF RpiAnswer, GoTo
    <3>2. execs'[rpi.tag.call] >= 1 /\ \A c \in Calls : execs'[c] \in Nat /\ execs'[c] >= execs[c]
      BY <1>5, <3>1, ExecsGrow
    <3>3. rm'.tag = rpi.tag
      BY <2>1 DEF RpiAnswer, TypeOK, RpiTypeOK, Slot
    <3>4. Made(rpi.tag)' /\ rpi'.tag = rpi.tag
      BY <1>1, <1>2, <1>5, <3>2 DEF Made
    <3> QED
      BY <1>1, <1>5, <3>1, <3>2, <3>3 DEF MadeInv, Last, Made
  <2>2. CASE RpiAskData
    BY <1>1, <2>2, GoToFields DEF RpiAskData, MadeInv, Last, Made
  <2> QED
    BY <2>1, <2>2
<1>7. ModuleInv'
  BY <1>2, <1>5 DEF ModuleInv, RpiAskData, RpiAnswer, GoTo
<1>8. PatientInv' /\ LoopInv'
  BY <1>1, <1>2, <1>4 DEF PatientInv, LoopInv, Fresh
<1>9. WaitInv'
  <2> SUFFICES ASSUME Serving, hans = "WAIT_COMMAND_RESPONSE" PROVE WaitInv'
    BY <1>1 DEF WaitInv, Serving
  <2>1. pkt.atn = "acsi" /\ pkt.left # 0 /\ ~pkt.ans /\ ~spiIdle
    BY <1>1 DEF WaitInv
  <2>2. cmdBuf'.op = op
    BY <1>4, <2>1 DEF RxCmdBuffer
  <2>3. OwnData' /\ rpi'.pc \in {"sendData", "recvData"}
    BY <1>1, <1>2, <1>5 DEF OwnData, Own
  <2>4. pkt'.left = pkt.left - 1 /\ pkt'.ans /\ (spiIdle' <=> pkt.left = 1) /\ pkt'.atn = "acsi"
    BY <1>4, <2>1
  <2> QED
    BY <1>2, <2>2, <2>3, <2>4 DEF WaitInv
<1>10. ReadPhase' /\ WritePhase'
  BY <1>1 DEF ReadPhase, Last, Made, Own, WritePhase, Serving
<1>11. ResultInv'
  BY <1>1, <1>5 DEF ResultInv, PatientInv
<1> QED
  BY <1>6, <1>7, <1>8, <1>9, <1>10, <1>11

(* The core thread takes the block of a WRITE, and its module runs.        *)
LEMMA CallInvRecvData ==
    ASSUME TypeOK, CallInv, RpiRecvData PROVE CallInv'
<1> USE FieldTypes DEF CallInv, drvVars, hansVars, rpiVars
<1>1. /\ UNCHANGED <<drvVars, hansVars, cmdBuf, rdBuf, rm, execs>>
      /\ rpi.pc = "recvData" /\ Fresh("moreWrite")
  BY DEF RpiRecvData
<1>2. pkt'.left = 0 /\ spiIdle' /\ rpi'.pc = "exec" /\ rpi'.tag = pkt.tag
  BY WholeFields, GoToFields DEF RpiRecvData
<1>3. /\ Serving /\ hans = "READ_STATUS"
      /\ pkt.tag.cmd = drv.cmd /\ pkt.tag.call = calls
  BY <1>1 DEF LoopInv
<1>4. pkt.tag.cmd = rm.cmd
  BY <1>1, <1>3 DEF WritePhase, OwnData, Own, ModuleInv
<1>5. MadeInv' /\ ModuleInv' /\ ResultInv'
  BY <1>1, <1>2, <1>4 DEF MadeInv, Last, Made, ModuleInv, ResultInv
<1>6. PatientInv' /\ LoopInv'
  BY <1>1, <1>2 DEF PatientInv, LoopInv, Fresh
<1>7. WaitInv' /\ ReadPhase'
  BY <1>1, <1>3 DEF WaitInv, ReadPhase
<1>8. WritePhase'
  BY <1>1, <1>2, <1>3 DEF WritePhase, Serving, OwnData, Own, Fresh
<1> QED
  BY <1>5, <1>6, <1>7, <1>8

LEMMA CallInvExecWrite ==
    ASSUME TypeOK, CallInv, ReadInv, RpiExecWrite PROVE CallInv'
<1> USE FieldTypes DEF CallInv, drvVars, hansVars, spiVars, rpiVars
<1>1. UNCHANGED <<drvVars, hansVars, spiVars>> /\ rpi.pc = "exec"
  BY DEF RpiExecWrite
<1>2. rpi'.pc = "sendStatus" /\ rpi'.tag = rpi.tag
  BY GoToFields DEF RpiExecWrite
<1>3. rm'.dir = "write"
  BY DEF RpiExecWrite, TypeOK, RpiTypeOK, Slot
<1>4. /\ rpi.tag.call \in 1..calls /\ execs'[rpi.tag.call] >= 1
      /\ \A c \in Calls : execs'[c] \in Nat /\ execs'[c] >= execs[c]
  <2>1. rpi.tag.call \in 1..calls
    BY <1>1 DEF ReadInv, ExecInv
  <2>2. execs' = [execs EXCEPT ![rpi.tag.call] = @ + 1]
    BY DEF RpiExecWrite
  <2> QED
    BY <2>1, <2>2, ExecsGrow
<1>5. MadeInv' /\ ModuleInv'
  BY <1>1, <1>2, <1>3, <1>4 DEF MadeInv, Last, Made, ModuleInv
<1>6. ResultInv'
  <2>1. drv.pc = "idle" /\ res.success /\ res.good /\ drv.cmd \in Writes => calls \in Calls
    <3>1. calls # 0
      BY <1>4
    <3> QED
      BY <3>1
  <2> QED
    BY <1>1, <1>4, <2>1 DEF ResultInv
<1>7. PatientInv' /\ LoopInv'
  BY <1>1, <1>2 DEF PatientInv, LoopInv, Serving, Fresh
<1>8. WaitInv' /\ ReadPhase'
  BY <1>1, <1>2 DEF WaitInv, ReadPhase, Serving
<1>9. WritePhase'
  BY <1>1, <1>2, <1>4 DEF WritePhase, Serving, OwnData, Own, Fresh
<1> QED
  BY <1>5, <1>6, <1>7, <1>8, <1>9

(* The status or the block goes to Hans.                                   *)
LEMMA CallInvSendStatus ==
    ASSUME TypeOK, CallInv, RpiSendStatus PROVE CallInv'
<1> USE FieldTypes DEF CallInv, drvVars, hansVars, rpiVars
<1>1. /\ UNCHANGED <<drvVars, hansVars, rdBuf, rm, execs>>
      /\ rpi.pc = "sendStatus" /\ Fresh("getStatus")
      /\ cmdBuf'.op = "status" /\ cmdBuf'.good = rpi.good
  BY DEF RpiSendStatus
<1>2. pkt'.left = 0 /\ spiIdle' /\ rpi'.pc = "poll"
  BY WholeFields, GoToFields DEF RpiSendStatus
<1>3. MadeInv' /\ ModuleInv' /\ ResultInv'
  BY <1>1, <1>2 DEF MadeInv, Last, Made, ModuleInv, ResultInv
<1>4. PatientInv' /\ LoopInv'
  BY <1>1, <1>2 DEF PatientInv, LoopInv, Fresh
<1>5. WaitInv' /\ ReadPhase'
  BY <1>1 DEF WaitInv, ReadPhase, Serving, Fresh
<1>6. WritePhase'
  BY <1>1, <1>2 DEF WritePhase, Serving, OwnData, Own, Fresh
<1> QED
  BY <1>3, <1>4, <1>5, <1>6

LEMMA CallInvSendData ==
    ASSUME TypeOK, CallInv, RpiSendData PROVE CallInv'
<1> USE FieldTypes DEF CallInv, drvVars, hansVars, rpiVars
<1>1. /\ UNCHANGED <<drvVars, hansVars, cmdBuf, rm, execs>>
      /\ rpi.pc = "sendData" /\ Fresh("moreRead") /\ rdBuf' = rpi.tag
  BY DEF RpiSendData
<1>2. pkt'.left = 0 /\ spiIdle' /\ rpi'.pc = "poll"
  BY WholeFields, GoToFields DEF RpiSendData
<1>3. MadeInv' /\ ModuleInv' /\ ResultInv'
  BY <1>1, <1>2 DEF MadeInv, Last, Made, ModuleInv, ResultInv
<1>4. PatientInv' /\ LoopInv'
  BY <1>1, <1>2 DEF PatientInv, LoopInv, Fresh
<1>5. WaitInv' /\ WritePhase'
  BY <1>1 DEF WaitInv, WritePhase, Serving, Fresh
<1>6. ReadPhase'
  BY <1>1, <1>2 DEF ReadPhase, MadeInv, Last, Made, Own, Serving, OwnData, Fresh
<1> QED
  BY <1>3, <1>4, <1>5, <1>6

(* A wait of the core thread fails, on another packet or by its time.      *)
LEMMA CallInvFails ==
    ASSUME TypeOK, CallInv, RpiSwallow \/ RpiTimeout PROVE CallInv'
<1> USE FieldTypes DEF CallInv, drvVars, hansVars, spiVars, rpiVars
<1>1. /\ UNCHANGED <<drvVars, hansVars, spiIdle, cmdBuf, rdBuf, execs>>
      /\ rpi.pc \notin {"run", "exec"}
  BY DEF RpiSwallow, RpiTimeout, Awaited, TypeOK, SpiTypeOK, Packet
<1>2. \/ RpiSwallow /\ pkt.left = 2 /\ pkt'.left = 1
      \/ RpiTimeout /\ pkt'.left = pkt.left
  BY FrontFields DEF RpiSwallow, RpiTimeout
<1>3. /\ pkt'.atn = pkt.atn /\ pkt'.tag = pkt.tag /\ pkt'.ans = pkt.ans
      /\ pkt'.retry = pkt.retry
  BY FrontFields DEF RpiSwallow, RpiTimeout
<1>4. \/ rpi'.pc = "poll" /\ rm' = rm
      \/ /\ rpi.pc = "recvData" /\ rpi'.pc = "sendStatus" /\ ~rpi'.good
         /\ rm'.dir = "write"
  <2>1. WaitFails
    BY DEF RpiSwallow, RpiTimeout
  <2>2. CASE rpi.pc # "recvData"
    BY <2>1, <2>2, GoToFields DEF WaitFails
  <2>3. CASE rpi.pc = "recvData" /\ RecvFailed
    <3>1. rm'.dir = "write"
      BY <2>3 DEF RecvFailed, TypeOK, RpiTypeOK, Slot
    <3> QED
      BY <2>3, <3>1, GoToFields DEF RecvFailed
  <2> QED
    BY <2>1, <2>2, <2>3 DEF WaitFails
<1>5. MadeInv' /\ ModuleInv' /\ ResultInv'
  BY <1>1, <1>4 DEF MadeInv, Last, Made, ModuleInv, ResultInv
<1>6. PatientInv' /\ LoopInv'
  BY <1>1, <1>2, <1>3, <1>4 DEF PatientInv, LoopInv, Serving, Fresh
<1>7. WaitInv'
  BY <1>1, <1>2, <1>3, <1>4 DEF WaitInv, Serving, OwnData, Own
<1>8. ReadPhase' /\ WritePhase'
  BY <1>1, <1>2, <1>3, <1>4 DEF ReadPhase, Last, Made, Own, WritePhase, Serving, OwnData, Own, Fresh
<1> QED
  BY <1>5, <1>6, <1>7, <1>8

(***************************************************************************)
(* Every step, and what follows                                            *)
(***************************************************************************)

LEMMA CallInvStep ==
    ASSUME TypeOK, CallInv, ReadInv, SlotInv, Patient, [Next]_vars PROVE CallInv'
<1>1. CASE UNCHANGED vars
  BY <1>1 DEF vars, drvVars, hansVars, spiVars, rpiVars, CallInv, MadeInv, Last, Made, ModuleInv,
     PatientInv, LoopInv, WaitInv, ReadPhase, Last, Made, Own, WritePhase, ResultInv, Serving, OwnData, Own, Fresh
<1>2. CASE Hans
  BY <1>2, CallInvGetCommand, CallInvProcess, CallInvQuits, CallInvStartRead,
     CallInvFinishRead, CallInvDataWrite, CallInvAskStatus, CallInvFinishStatus,
     CallInvSendFw DEF Hans
<1>3. CASE Rpi
  BY <1>3, CallInvPad, CallInvReplay, CallInvReceive, CallInvAnswer, CallInvRecvData,
     CallInvExecWrite, CallInvSendStatus, CallInvSendData, CallInvFails DEF Rpi
<1> QED
  BY <1>1, <1>2, <1>3, CallInvStart, CallInvTimeout DEF Next

LEMMA CallInvInit == Init => CallInv
BY DEF Init, NoPkt, NoReply, CallInv, MadeInv, ModuleInv, PatientInv, LoopInv, WaitInv,
   ReadPhase, Last, Made, Own, WritePhase, ResultInv, Serving, Fresh

LEMMA CallInvHolds == ASSUME Patient PROVE Spec => []CallInv
BY CallInvInit, CallInvStep, TypeCorrect, ReadInvHolds, SlotInvHolds, PTL DEF Spec

(* A READ that the driver reports as good returns data of its own command, *)
(* whatever late answers of earlier attempts and calls are on their way    *)
(* through the core thread, the packets and Hans.                          *)
THEOREM NoForeignDataHolds == ASSUME Patient PROVE Spec => []NoForeignData
<1>1. CallInv => NoForeignData
  BY DEF CallInv, ResultInv, NoForeignData
<1> QED
  BY <1>1, CallInvHolds, PTL

(* A WRITE that the driver reports as good was carried out by the module:  *)
(* no status of another attempt is taken for it before it ran.             *)
THEOREM GoodWriteAppliedHolds == ASSUME Patient PROVE Spec => []GoodWriteApplied
<1>1. CallInv => GoodWriteApplied
  BY DEF CallInv, ResultInv, GoodWriteApplied
<1> QED
  BY <1>1, CallInvHolds, PTL

(* The block a module writes is the one the Atari sent for the command the *)
(* module runs.                                                            *)
THEOREM WriteDataMatchesHolds == ASSUME Patient PROVE Spec => []WriteDataMatches
<1>1. CallInv => WriteDataMatches
  BY DEF CallInv, ModuleInv, WriteDataMatches
<1> QED
  BY <1>1, CallInvHolds, PTL

(***************************************************************************)
(* A WRITE runs at most once for an attempt                                *)
(***************************************************************************)

(* The attempt can still pass its block to the core thread.                *)
Unsent ==
    \/ drv.pc = "cmd"
    \/ Serving /\ hans \in {"WAIT_COMMAND_RESPONSE", "DATA_WRITE"}

(* The runs of the module that call k still has under way.                 *)
One(p) == IF p THEN 1 ELSE 0

Executing(k) == rpi.pc = "exec" /\ rpi.tag.call = k
Passing(k)   == Fresh("moreWrite") /\ pkt.tag.call = k
ToPass(k)    == k = calls /\ drv.cmd \in Writes /\ Unsent

UnderWay(k) == One(Executing(k)) + One(Passing(k)) + One(ToPass(k))

(* The attempts call k has had, or could have had.                         *)
Attempts(k) == 1 + (IF k = calls THEN drv.retries ELSE MaxRetries)

RunsInv == \A k \in 1..calls : execs[k] + UnderWay(k) <= Attempts(k)

LEMMA RunsLeft ==
    ASSUME TypeOK, RunsInv, rpi.pc = "exec", rpi.tag.call \in 1..calls
    PROVE  execs[rpi.tag.call] <=
               IF rpi.tag.call = calls THEN drv.retries ELSE MaxRetries
<1>1. execs[rpi.tag.call] \in Nat /\ drv.retries \in Nat /\ MaxRetries \in Nat
  BY FieldTypes, BoundsAssumption DEF TypeOK, DriverTypeOK, Driver
<1> QED
  BY <1>1 DEF RunsInv, UnderWay, Attempts, Executing, One

(* A step that runs no module, starts no call and adds nothing to what is  *)
(* under way.                                                              *)
LEMMA RunsKept ==
    ASSUME TypeOK, RunsInv, UNCHANGED <<calls, execs>>, drv'.retries = drv.retries,
           \A k \in 1..calls : UnderWay(k)' <= UnderWay(k)
    PROVE  RunsInv'
<1> SUFFICES ASSUME NEW k \in 1..calls PROVE execs[k] + UnderWay(k)' <= Attempts(k)'
  BY DEF RunsInv
<1>1. execs[k] \in Nat /\ drv.retries \in Nat /\ MaxRetries \in Nat
  BY FieldTypes, BoundsAssumption DEF TypeOK, DriverTypeOK, Driver
<1>2. UnderWay(k) \in Nat /\ UnderWay(k)' \in Nat
  BY DEF UnderWay, One
<1>3. Attempts(k)' = Attempts(k) /\ Attempts(k) \in Nat
  BY <1>1 DEF Attempts
<1>4. execs[k] + UnderWay(k) <= Attempts(k) /\ UnderWay(k)' <= UnderWay(k)
  BY DEF RunsInv
<1> HIDE DEF UnderWay, Attempts
<1> QED
  BY <1>1, <1>2, <1>3, <1>4

LEMMA RunsStart ==
    ASSUME TypeOK, CallInv, ReadInv, RunsInv, NEW c \in Cmds, StartCall(c) PROVE RunsInv'
<1>1. /\ drv.pc = "idle" /\ drv'.pc = "cmd" /\ drv'.retries = 0 /\ calls' = calls + 1
      /\ UNCHANGED <<hans, inCmd, pkt, rpi, execs>>
  BY DEF StartCall, hansVars, spiVars, rpiVars
<1>2. /\ calls \in Nat /\ MaxRetries \in Nat /\ drv.retries \in 0..MaxRetries
      /\ \A k \in 1..calls : execs[k] \in Nat
  BY FieldTypes, BoundsAssumption DEF TypeOK, DriverTypeOK, Driver
<1>3. execs[calls + 1] = 0
  BY <1>2, BoundsAssumption DEF StartCall, ReadInv, ExecutedInv, Calls
<1>4. \A k \in 1..calls : ToPass(k)' = FALSE
  BY <1>1, <1>2 DEF ToPass
<1>5. ASSUME NEW k \in 1..calls PROVE execs[k] + UnderWay(k)' <= Attempts(k)'
  <2>1. Executing(k)' = Executing(k) /\ Passing(k)' = Passing(k)
    BY <1>1 DEF Executing, Passing, Fresh
  <2>2. execs[k] + UnderWay(k) <= Attempts(k)
    BY DEF RunsInv
  <2> QED
    BY <1>1, <1>2, <1>4, <2>1, <2>2 DEF UnderWay, Attempts, One
<1>6. ASSUME NEW k, k = calls + 1 PROVE execs[k] + UnderWay(k)' <= Attempts(k)'
  <2>1. ~Executing(k)'
    BY <1>1, <1>2, <1>6 DEF Executing, ReadInv, ExecInv
  <2>2. ~Passing(k)'
    BY <1>1, <1>2, <1>6 DEF Passing, Fresh, ReadInv, PacketInv
  <2> QED
    BY <1>1, <1>2, <1>3, <1>6, <2>1, <2>2 DEF UnderWay, Attempts, One
<1>7. \A k \in 1..calls' : k \in 1..calls \/ k = calls + 1
  BY <1>1, <1>2
<1> QED
  BY <1>1, <1>5, <1>6, <1>7 DEF RunsInv

LEMMA RunsTimeout ==
    ASSUME TypeOK, CallInv, RunsInv, AttemptTimeout PROVE RunsInv'
<1>1. UNCHANGED <<calls, hans, inCmd, pkt, rpi, execs>>
  BY DEF AttemptTimeout, hansVars, spiVars, rpiVars
<1>2. \A k : Executing(k)' = Executing(k) /\ Passing(k)' = Passing(k)
  BY <1>1 DEF Executing, Passing, Fresh
<1>3. CASE drv.retries < MaxRetries
  <2>1. drv'.retries = drv.retries + 1
    <3>1. drv' = [drv EXCEPT !.pc = "cmd", !.retries = @ + 1]
      BY <1>3, BoundsAssumption DEF AttemptTimeout, TypeOK, DriverTypeOK, Driver
    <3> QED
      BY <3>1 DEF TypeOK, DriverTypeOK, Driver
  <2> SUFFICES ASSUME NEW k \in 1..calls PROVE execs[k] + UnderWay(k)' <= Attempts(k)'
    BY <1>1 DEF RunsInv
  <2>2. execs[k] \in Nat /\ drv.retries \in Nat /\ MaxRetries \in Nat
    BY FieldTypes, BoundsAssumption DEF TypeOK, DriverTypeOK, Driver
  <2>3. execs[k] + UnderWay(k) <= Attempts(k)
    BY DEF RunsInv
  <2>4. k # calls => ~ToPass(k)'
    BY <1>1 DEF ToPass
  <2> QED
    BY <1>1, <1>2, <2>1, <2>2, <2>3, <2>4 DEF UnderWay, Attempts, One
<1>4. CASE drv.retries = MaxRetries
  <2>1. drv' = [drv EXCEPT !.pc = "idle"]
    BY <1>4, BoundsAssumption DEF AttemptTimeout
  <2>2. drv'.pc = "idle" /\ drv'.retries = drv.retries
    BY <2>1 DEF TypeOK, DriverTypeOK, Driver
  <2>3. \A k : ~ToPass(k)'
    BY <2>2 DEF ToPass, Unsent, Serving
  <2>4. \A k \in 1..calls : UnderWay(k)' <= UnderWay(k)
    BY <1>2, <2>3 DEF UnderWay, One
  <2> QED
    BY <1>1, <2>2, <2>4, RunsKept
<1> QED
  BY <1>3, <1>4 DEF AttemptTimeout

(* Hans passes the block of an attempt once.                               *)
LEMMA RunsHans ==
    ASSUME TypeOK, CallInv, RunsInv, Hans PROVE RunsInv'
<1>1. UNCHANGED <<calls, rpi, execs>> /\ drv'.retries = drv.retries /\ drv'.cmd = drv.cmd
  BY DEF Hans, HansGetCommand, HansProcess, HansWaitTimeout, HansStartRead, HansFinishRead,
     HansReadTimeout, HansDataWrite, HansAskStatus, HansFinishStatus, HansStaleRead,
     HansStaleWrite, HansForceIdle, HansSendFw, StatusByte, drvVars, rpiVars,
     TypeOK, DriverTypeOK, Driver
<1>2. \A k : Executing(k)' = Executing(k)
  BY <1>1 DEF Executing
<1>3. CASE HansDataWrite /\ hans' = "READ_STATUS"
  <2>1. drv.pc = "data" /\ drv.cmd \in Writes /\ Serving /\ hans = "DATA_WRITE"
    BY <1>3 DEF HansDataWrite, DmaReady, Serving, Leave
  <2>2. UNCHANGED drv /\ pkt'.tag.call = calls
    BY <1>3 DEF HansDataWrite, Arm, Leave, drvVars
  <2>3. \A k \in 1..calls : /\ ToPass(k)' = FALSE
                            /\ Passing(k)' => ToPass(k)
    BY <1>3, <2>1, <2>2 DEF ToPass, Passing, Unsent, Serving
  <2>4. \A k \in 1..calls : UnderWay(k)' <= UnderWay(k)
    BY <1>2, <2>3 DEF UnderWay, One
  <2> QED
    BY <1>1, <2>4, RunsKept
<1>4. CASE ~(HansDataWrite /\ hans' = "READ_STATUS")
  <2>1. pkt'.atn = "moreWrite" => pkt' = pkt
    BY <1>4, ArmFields DEF Hans, HansGetCommand, HansProcess, HansWaitTimeout, HansStartRead,
       HansFinishRead, HansReadTimeout, HansDataWrite, HansAskStatus, HansFinishStatus,
       HansStaleRead, HansStaleWrite, HansForceIdle, HansSendFw, spiVars, Leave
  <2>2. Unsent' => Unsent
    <3>1. CASE HansGetCommand
      BY <3>1 DEF HansGetCommand, Unsent
    <3>2. CASE HansProcess
      BY <3>2 DEF HansProcess, Unsent, Serving, drvVars
    <3>3. CASE HansFinishRead \/ HansFinishStatus
      <4>1. Leave /\ (UNCHANGED drv \/ drv' = [drv EXCEPT !.pc = "idle"])
        BY <3>3 DEF HansFinishRead, HansFinishStatus, StatusByte
      <4>2. ~Serving' /\ (drv'.pc = "cmd" => drv.pc = "cmd")
        BY <4>1 DEF Leave, Serving, TypeOK, DriverTypeOK, Driver
      <4> QED
        BY <4>2 DEF Unsent
    <3>4. CASE ~HansGetCommand /\ ~HansProcess /\ ~HansFinishRead /\ ~HansFinishStatus
      <4>1. UNCHANGED drv
        BY <3>4 DEF Hans, HansWaitTimeout, HansStartRead, HansReadTimeout, HansDataWrite,
           HansAskStatus, HansStaleRead, HansStaleWrite, HansForceIdle, HansSendFw, drvVars
      <4>2. \/ hans' \notin {"WAIT_COMMAND_RESPONSE", "DATA_WRITE"}
            \/ hans' = hans /\ inCmd' = inCmd
        BY <3>4, <1>4 DEF Hans, HansWaitTimeout, HansStartRead, HansReadTimeout, HansDataWrite,
           HansAskStatus, HansStaleRead, HansStaleWrite, HansForceIdle, HansSendFw, Leave
      <4> QED
        BY <4>1, <4>2 DEF Unsent, Serving
    <3> QED
      BY <3>1, <3>2, <3>3, <3>4
  <2>3. \A k : (Passing(k)' => Passing(k)) /\ (ToPass(k)' => ToPass(k))
    BY <1>1, <2>1, <2>2 DEF Passing, ToPass, Fresh
  <2>4. \A k \in 1..calls : UnderWay(k)' <= UnderWay(k)
    BY <1>2, <2>3 DEF UnderWay, One
  <2> QED
    BY <1>1, <2>4, RunsKept
<1> QED
  BY <1>3, <1>4

LEMMA RunsRpi ==
    ASSUME TypeOK, CallInv, ReadInv, RunsInv, Rpi PROVE RunsInv'
<1>1. UNCHANGED <<drvVars, hansVars>>
  BY RpiOthers
<1>2. \A k : ToPass(k)' = ToPass(k)
  BY <1>1 DEF ToPass, Unsent, Serving, drvVars, hansVars
<1>3. CASE RpiRecvData
  <2>1. /\ rpi.pc = "recvData" /\ Fresh("moreWrite") /\ execs' = execs
        /\ rpi'.pc = "exec" /\ rpi'.tag = pkt.tag /\ pkt'.left = 0
    BY <1>3, WholeFields, GoToFields DEF RpiRecvData
  <2>2. \A k : ~Executing(k) /\ ~Passing(k)' /\ (Executing(k)' => Passing(k))
    BY <2>1 DEF Executing, Passing, Fresh
  <2>3. \A k \in 1..calls : UnderWay(k)' <= UnderWay(k)
    BY <1>2, <2>2 DEF UnderWay, One
  <2> QED
    BY <1>1, <2>1, <2>3, RunsKept DEF drvVars
<1>4. CASE RpiExecWrite
  <2>1. /\ rpi.pc = "exec" /\ rpi'.pc = "sendStatus" /\ UNCHANGED pkt
        /\ execs' = [execs EXCEPT ![rpi.tag.call] = @ + 1]
    BY <1>4, GoToFields DEF RpiExecWrite, spiVars
  <2> SUFFICES ASSUME NEW k \in 1..calls PROVE execs'[k] + UnderWay(k)' <= Attempts(k)'
    BY <1>1 DEF RunsInv, drvVars
  <2>2. k \in Calls /\ execs[k] \in Nat /\ execs \in [Calls -> Nat]
    BY FieldTypes DEF TypeOK, RpiTypeOK
  <2>3. execs'[k] = execs[k] + One(Executing(k))
    BY <2>1, <2>2 DEF Executing, One
  <2>4. ~Executing(k)' /\ Passing(k)' = Passing(k)
    BY <2>1 DEF Executing, Passing, Fresh
  <2>5. Attempts(k)' = Attempts(k)
    BY <1>1 DEF Attempts, drvVars
  <2>6. execs[k] + UnderWay(k) <= Attempts(k)
    BY DEF RunsInv
  <2>7. drv.retries \in Nat /\ MaxRetries \in Nat
    BY BoundsAssumption DEF TypeOK, DriverTypeOK, Driver
  <2> QED
    BY <1>2, <2>2, <2>3, <2>4, <2>5, <2>6, <2>7 DEF UnderWay, One, Attempts
<1>5. CASE RpiAnswer
  <2>1. /\ rpi.pc = "run" /\ rpi'.pc = "sendData" /\ rpi.tag.cmd \in Reads
        /\ execs' = [execs EXCEPT ![rpi.tag.call] = @ + 1]
        /\ pkt'.atn = pkt.atn /\ pkt'.tag = pkt.tag
    BY <1>5, AnswerFields, GoToFields DEF RpiAnswer
  <2>2. pkt'.left = 2 => pkt.left = 2
    BY <1>5, AnswerFields, FieldTypes DEF RpiAnswer
  <2>3. /\ rpi.tag.call = calls /\ calls \in 1..calls
        /\ rpi.tag.cmd = drv.cmd /\ drv.cmd \notin Writes
    BY <2>1, CommandsAssumption DEF CallInv, PatientInv, ReadInv, RunInv
  <2>4. execs[calls] = 0
    BY <2>1, <2>3 DEF ReadInv, ExecutedInv
  <2> SUFFICES ASSUME NEW k \in 1..calls PROVE execs'[k] + UnderWay(k)' <= Attempts(k)'
    BY <1>1 DEF RunsInv, drvVars
  <2>5. k \in Calls /\ execs[k] \in Nat /\ execs \in [Calls -> Nat] /\ calls \in Calls
    BY <2>3, FieldTypes DEF TypeOK, RpiTypeOK
  <2>6. drv.retries \in Nat /\ MaxRetries \in Nat
    BY BoundsAssumption DEF TypeOK, DriverTypeOK, Driver
  <2>7. /\ ~Executing(k)' /\ (Passing(k)' => Passing(k))
        /\ Attempts(k)' = Attempts(k)
    BY <1>1, <2>1, <2>2 DEF Executing, Passing, Fresh, Attempts, drvVars
  <2>8. CASE k = calls
    <3>1. ~Passing(k) /\ ~ToPass(k)
      BY <2>3, <2>8 DEF Passing, ToPass, ReadInv, PacketInv
    <3> QED
      BY <1>2, <2>1, <2>3, <2>4, <2>5, <2>6, <2>7, <2>8, <3>1 DEF UnderWay, One, Attempts
  <2>9. CASE k # calls
    <3>1. execs'[k] = execs[k]
      BY <2>1, <2>3, <2>5, <2>9
    <3>2. execs[k] + UnderWay(k) <= Attempts(k)
      BY DEF RunsInv
    <3> QED
      BY <1>2, <2>5, <2>6, <2>7, <3>1, <3>2 DEF UnderWay, One, Attempts
  <2> QED
    BY <2>8, <2>9
<1>6. CASE ~RpiRecvData /\ ~RpiExecWrite /\ ~RpiAnswer
  <2>1. execs' = execs /\ (rpi'.pc = "exec" => rpi' = rpi)
    BY <1>6, GoToFields DEF Rpi, RpiFwVersion, RpiReplay, RpiReceive, RpiAskData,
       RpiSendStatus, RpiSendData, RpiSwallow, RpiClockRest, RpiTimeout, WaitFails,
       RecvFailed, rpiVars
  <2>2. pkt'.tag = pkt.tag /\ pkt'.atn = pkt.atn /\ (pkt'.left = 2 => pkt.left = 2)
    <3>1. CASE RpiFwVersion \/ RpiReplay \/ RpiSendStatus \/ RpiSendData \/ RpiClockRest
      <4>1. ClockWhole
        BY <3>1 DEF RpiFwVersion, RpiReplay, RpiSendStatus, RpiSendData, RpiClockRest
      <4> QED
        BY <4>1, WholeFields
    <3>2. CASE RpiReceive \/ RpiSwallow
      <4>1. pkt' = [pkt EXCEPT !.left = 1]
        BY <3>2 DEF RpiReceive, RpiSwallow
      <4> QED
        BY <4>1, FrontFields
    <3>3. CASE RpiAskData
      BY <3>3, AnswerFields, FieldTypes DEF RpiAskData
    <3>4. CASE RpiTimeout
      BY <3>4 DEF RpiTimeout, spiVars
    <3> QED
      BY <1>6, <3>1, <3>2, <3>3, <3>4 DEF Rpi
  <2>3. \A k : (Executing(k)' => Executing(k)) /\ (Passing(k)' => Passing(k))
    BY <2>1, <2>2 DEF Executing, Passing, Fresh
  <2>4. \A k \in 1..calls : UnderWay(k)' <= UnderWay(k)
    BY <1>2, <2>3 DEF UnderWay, One
  <2> QED
    BY <1>1, <2>1, <2>4, RunsKept DEF drvVars
<1> QED
  BY <1>3, <1>4, <1>5, <1>6

LEMMA RunsInvStep ==
    ASSUME TypeOK, CallInv, ReadInv, RunsInv, [Next]_vars PROVE RunsInv'
<1>1. CASE UNCHANGED vars
  BY <1>1 DEF vars, drvVars, hansVars, spiVars, rpiVars, RunsInv, UnderWay, Attempts,
     Executing, Passing, ToPass, Unsent, Serving, Fresh
<1> QED
  BY <1>1, RunsStart, RunsTimeout, RunsHans, RunsRpi DEF Next

LEMMA RunsInvHolds == ASSUME Patient PROVE Spec => []RunsInv
<1>1. Init => RunsInv
  BY DEF Init, RunsInv
<1> QED
  BY <1>1, RunsInvStep, TypeCorrect, ReadInvHolds, CallInvHolds, PTL DEF Spec

(***************************************************************************)
(* The retry protocol implements CeCall                                    *)
(***************************************************************************)

LEMMA CallInit == Init => Call!Init
BY DEF Init, Call!Init, NoTag, Call!NoTag, Calls

LEMMA CallStart == ASSUME NEW c \in Cmds, StartCall(c) PROVE Call!Next
BY DEF StartCall, Call!Next, Call!Begin, Cmds, rpiVars

LEMMA CallTimeout == ASSUME TypeOK, AttemptTimeout PROVE [Call!Next]_(Call!vars)
<1>1. UNCHANGED <<calls, execs>> /\ drv.pc \in {"cmd", "data"}
  BY DEF AttemptTimeout, rpiVars
<1>2. CASE drv.retries < MaxRetries
  <2>1. drv' = [drv EXCEPT !.pc = "cmd", !.retries = @ + 1] /\ res' = res
    BY <1>2, BoundsAssumption DEF AttemptTimeout, TypeOK, DriverTypeOK, Driver
  <2>2. drv'.pc = "cmd" /\ drv'.cmd = drv.cmd /\ drv'.retries = drv.retries + 1
    BY <2>1 DEF TypeOK, DriverTypeOK, Driver
  <2> QED
    BY <1>1, <1>2, <2>1, <2>2 DEF Call!Next, Call!Retry
<1>3. CASE drv.retries = MaxRetries
  <2>1. drv' = [drv EXCEPT !.pc = "idle"]
    BY <1>3, BoundsAssumption DEF AttemptTimeout
  <2>2. res' = [success |-> FALSE, good |-> FALSE, tag |-> NoTag, call |-> calls]
    BY <1>3, BoundsAssumption DEF AttemptTimeout
  <2>3. drv'.pc = "idle" /\ drv'.cmd = drv.cmd /\ drv'.retries = drv.retries
    BY <2>1 DEF TypeOK, DriverTypeOK, Driver
  <2> QED
    BY <1>1, <2>2, <2>3 DEF Call!Next, Call!Return
<1> QED
  BY <1>2, <1>3 DEF AttemptTimeout

(* A status that the driver gets ends the call, if it is a true one.       *)
LEMMA CallStatus ==
    ASSUME TypeOK, NEW good \in BOOLEAN, NEW tag \in Tags,
           StatusByte(good, tag), UNCHANGED <<calls, execs>>,
           good /\ drv.pc = "data" =>
               /\ drv.cmd \in Reads  => tag.cmd = drv.cmd /\ Last(tag) /\ Own(tag)
               /\ drv.cmd \in Writes => execs[calls] >= 1
    PROVE  [Call!Next]_(Call!vars)
<1>1. CASE UNCHANGED <<drv, res>>
  BY <1>1 DEF Call!vars
<1>2. CASE /\ drv.pc = "data"
           /\ drv' = [drv EXCEPT !.pc = "idle"]
           /\ res' = [success |-> TRUE, good |-> good, tag |-> tag, call |-> calls]
  <2>1. drv'.pc = "idle" /\ drv'.cmd = drv.cmd /\ drv'.retries = drv.retries
    BY <1>2 DEF TypeOK, DriverTypeOK, Driver
  <2> QED
    BY <1>2, <2>1 DEF Call!Next, Call!Return, Call!Last, Last, Made, Own
<1> QED
  BY <1>1, <1>2 DEF StatusByte

LEMMA CallHans == ASSUME TypeOK, CallInv, Hans PROVE [Call!Next]_(Call!vars)
<1> USE FieldTypes, CommandsAssumption DEF CallInv, rpiVars
<1>1. CASE HansGetCommand
  <2>1. /\ drv.pc = "cmd" /\ drv'.pc = "data" /\ drv'.cmd = drv.cmd
        /\ drv'.retries = drv.retries
        /\ UNCHANGED <<calls, res, execs>>
    BY <1>1 DEF HansGetCommand, TypeOK, DriverTypeOK, Driver
  <2> QED
    BY <2>1 DEF Call!vars
<1>2. CASE HansFinishRead
  <2>1. CASE rdBuf # NoTag /\ DmaReady(Reads) /\ StatusByte(TRUE, rdBuf)
    <3>1. /\ drv.cmd \in Reads /\ drv.cmd \notin Writes
          /\ rdBuf.cmd = drv.cmd /\ Last(rdBuf) /\ Own(rdBuf)
      BY <1>2, <2>1 DEF HansFinishRead, DmaReady, LoopInv, ReadPhase, Serving
    <3> QED
      BY <1>2, <2>1, <3>1, CallStatus DEF HansFinishRead
  <2>2. CASE UNCHANGED <<drv, res>>
    BY <1>2, <2>2 DEF HansFinishRead, Call!vars
  <2>3. CASE StatusByte(FALSE, NoTag)
    BY <1>2, <2>3, TagTypes, CallStatus DEF HansFinishRead
  <2> QED
    BY <1>2, <2>1, <2>2, <2>3 DEF HansFinishRead
<1>3. CASE HansFinishStatus
  <2> DEFINE good == cmdBuf.op = "status" /\ cmdBuf.good
  <2>1. hans = "GETTING_STATUS" /\ StatusByte(good, NoTag) /\ UNCHANGED <<calls, execs>>
    BY <1>3 DEF HansFinishStatus
  <2>2. good /\ drv.pc = "data" => drv.cmd \notin Reads /\ execs[calls] >= 1
    BY <2>1 DEF LoopInv, WritePhase, Serving
  <2>3. good \in BOOLEAN
    OBVIOUS
  <2> HIDE DEF good
  <2> QED
    BY <2>1, <2>2, <2>3, TagTypes, CallStatus
<1>4. CASE ~HansGetCommand /\ ~HansFinishRead /\ ~HansFinishStatus
  <2>1. UNCHANGED <<drv, calls, res, execs>>
    BY <1>4 DEF Hans, HansProcess, HansWaitTimeout, HansStartRead, HansReadTimeout,
       HansDataWrite, HansAskStatus, HansStaleRead, HansStaleWrite, HansForceIdle,
       HansSendFw, drvVars
  <2> QED
    BY <2>1 DEF Call!vars
<1> QED
  BY <1>1, <1>2, <1>3, <1>4

LEMMA CallRpi ==
    ASSUME TypeOK, CallInv, ReadInv, RunsInv, Rpi PROVE [Call!Next]_(Call!vars)
<1>1. UNCHANGED <<drv, calls, res>>
  BY RpiOthers DEF drvVars
<1>2. CASE RpiAnswer
  <2>1. rpi.pc = "run" /\ execs' = [execs EXCEPT ![rpi.tag.call] = @ + 1] /\ rpi.tag.cmd \in Reads
    BY <1>2 DEF RpiAnswer
  <2>2. /\ rpi.tag.call = calls /\ calls \in 1..calls
        /\ rpi.tag.cmd = drv.cmd /\ drv.pc # "idle"
    BY <2>1 DEF CallInv, PatientInv, ReadInv, RunInv
  <2>3. execs[calls] = 0
    BY <2>1, <2>2 DEF ReadInv, ExecutedInv
  <2>4. execs' = [execs EXCEPT ![calls] = 1]
    BY <2>1, <2>2, <2>3
  <2> QED
    BY <1>1, <2>1, <2>2, <2>3, <2>4 DEF Call!Next, Call!RunRead
<1>3. CASE RpiExecWrite
  <2>1. rpi.pc = "exec" /\ execs' = [execs EXCEPT ![rpi.tag.call] = @ + 1]
    BY <1>3 DEF RpiExecWrite
  <2>2. /\ rpi.tag.call \in 1..calls
        /\ rpi.tag.call < calls \/ drv.cmd \in Writes
    BY <2>1, FieldTypes DEF ReadInv, ExecInv
  <2>3. execs[rpi.tag.call] <= IF rpi.tag.call = calls THEN drv.retries ELSE MaxRetries
    BY <2>1, <2>2, RunsLeft
  <2> QED
    BY <1>1, <2>1, <2>2, <2>3 DEF Call!Next, Call!RunWrite
<1>4. CASE ~RpiAnswer /\ ~RpiExecWrite
  <2>1. UNCHANGED execs
    BY <1>4 DEF Rpi, RpiFwVersion, RpiReplay, RpiReceive, RpiAskData, RpiRecvData,
       RpiSendStatus, RpiSendData, RpiSwallow, RpiClockRest, RpiTimeout, rpiVars
  <2> QED
    BY <1>1, <2>1 DEF Call!vars
<1> QED
  BY <1>2, <1>3, <1>4

(* With a patient driver, what the programs see of the whole protocol, its *)
(* retries, stale packets and late answers, is CeCall: a READ runs at most *)
(* once and a WRITE at most once for an attempt, a call that returns a     *)
(* good status was carried out, and an answer to a READ that is not its    *)
(* own comes after a retry and from the last module that ran.              *)
THEOREM RetryImplementsCall == ASSUME Patient PROVE Spec => CallSpec
<1>1. ASSUME TypeOK, CallInv, ReadInv, RunsInv, [Next]_vars PROVE [Call!Next]_(Call!vars)
  <2>1. CASE UNCHANGED vars
    BY <2>1 DEF vars, drvVars, rpiVars, Call!vars
  <2> QED
    BY <1>1, <2>1, CallStart, CallTimeout, CallHans, CallRpi DEF Next
<1> QED
  BY CallInit, <1>1, TypeCorrect, ReadInvHolds, CallInvHolds, RunsInvHolds, PTL DEF Spec, CallSpec, Call!Spec
=============================================================================
