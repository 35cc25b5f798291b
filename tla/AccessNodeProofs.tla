---------------------------- MODULE AccessNodeProofs ----------------------------
(***************************************************************************)
(* The access node for every length of an answer, position of its code,    *)
(* number of touches and width of a semaphore.                             *)
(***************************************************************************)
EXTENDS AccessNode, RtSemaphoreProofs, SequenceTheorems

(* Each semaphore is waited for by its own thread or by nobody. *)
Queues ==
    /\ sem["face"].suspended = IF face = "wait" THEN <<"face">> ELSE <<>>
    /\ sem["oled"].suspended = IF oled = "wait" THEN <<"oled">> ELSE <<>>
    /\ oled = "wait" => sem["oled"].value = 0

(* A verdict that Pass_status does not show yet is on its way to it. *)
VerdictUnderWay ==
    \/ face \in {"gate", "bounce", "tell"}
    \/ sem["oled"].value > 0
    \/ oled = "go"
    \/ oled = "pass" /\ status = AS_status
    \/ oled \in {"ready", "wait"} /\ Pass_status = AS_status

(* What is on the wire is the rest of an answer: only its start is surely 0xEF,
   only its last byte may be, and a match in the code's place is a match. *)
Place(i) == PACKET + 1 - Len(wire) + i

WireOK ==
    /\ Len(wire) \in 0..(PACKET + 1)
    /\ \A i \in 1..Len(wire) :
        /\ Place(i) = 1 => wire[i] = "EF"
        /\ 1 < Place(i) /\ (Place(i) <= PACKET \/ "plain" \in good) => wire[i] # "EF"
        /\ Place(i) = CODE + 2 /\ wire[i] = "00" => answered \in matched

(* Where a whole answer has brought the handler, if there is no other 0xEF in it ... *)
Resyncing ==
    /\ "whole" \in good /\ "plain" \in good
    /\ Len(wire) <= PACKET /\ RxState = 1
    => pRxPacket >= PACKET - Len(wire)

(* ... and if the handler was at rest before. *)
Landing ==
    "whole" \in good /\ "at rest" \in good =>
        /\ Len(wire) \in {0, PACKET + 1} => RxState = 0
        /\ Len(wire) \in 1..PACKET => RxState = 1 /\ pRxPacket = PACKET - Len(wire)
        /\ Len(wire) < PACKET - CODE => code.of = answered

(* Answers come in the order of the touches; one in time stays until it is used. *)
Timely ==
    /\ landed <= answered /\ answered <= touch
    /\ landed = touch => wire = <<>> /\ answered = touch /\ code.of = touch
    /\ face = "answer" /\ landed = touch => Serial_RxFlag = 1
    /\ face = "judge" /\ inTime = 1 => landed = touch
    /\ face \notin {"answer", "judge"} /\ inTime = 1 => taken = touch

(* Without a lost byte every answer is whole and finds the handler at rest, and
   every verdict goes back to a match. *)
Granted ==
    lost = 0 =>
        /\ IF answered = 0 THEN wire = <<>> /\ RxState = 0
                           ELSE "whole" \in good /\ "at rest" \in good
        /\ code.of # 0 /\ code.byte = "00" => code.of \in matched
        /\ Serial_RxFlag = 1 \/ face = "judge" => code.of # 0
        /\ as = 1 => taken \in matched
        /\ 1 \in {AS_status, status, Pass_status, sent} => matched # {}

AccessIInv ==
    /\ AccessTypeOK /\ Queues /\ VerdictUnderWay
    /\ WireOK /\ Resyncing /\ Landing /\ Timely /\ Granted

-------------------------------------------------------------------------------
LEMMA Constants ==
    /\ CODE \in Nat /\ PACKET \in Nat /\ CODE + 2 < PACKET
    /\ MaxTouches \in Nat \ {0} /\ Touches = 0..MaxTouches /\ 0 \in Touches
    /\ RT_SEM_VALUE_MAX \in Nat \ {0}
  BY AccessAssumption, SemAssumption DEF Touches

LEMMA NewSemaphore ==
    NewSem(0) \in Semaphores(Threads) /\ NewSem(0).suspended = <<>>
  BY SemAssumption DEF NewSem, Semaphores

LEMMA AccessInitial == AccessInit => AccessIInv
<1> SUFFICES ASSUME AccessInit PROVE AccessIInv
  OBVIOUS
<1>1. /\ sem = [t \in Threads |-> NewSem(0)] /\ face = "ready" /\ oled = "ready"
      /\ RxState = 0 /\ pRxPacket = 0 /\ Serial_RxFlag = 0
      /\ code = [byte |-> "00", of |-> 0]
      /\ as = 0 /\ AS_status = 0 /\ Pass_status = 0 /\ status = 0 /\ sent = 0
      /\ touch = 0 /\ wire = <<>> /\ answered = 0 /\ matched = {} /\ lost = 0
      /\ good = {} /\ landed = 0 /\ taken = 0 /\ inTime = 0
  BY DEF AccessInit
<1>2. AccessTypeOK
  <2>1. sem \in [Threads -> Semaphores(Threads)]
    BY <1>1, NewSemaphore
  <2>2. code \in [byte : Bytes, of : Touches]
    BY <1>1, Constants DEF Bytes
  <2> QED BY <1>1, <2>1, <2>2, Constants DEF AccessTypeOK
<1>3. Queues
  BY <1>1, NewSemaphore DEF Queues, Threads
<1>4. VerdictUnderWay
  BY <1>1 DEF VerdictUnderWay
<1>5. WireOK
  BY <1>1, Constants DEF WireOK
<1>6. Resyncing /\ Landing
  BY <1>1 DEF Resyncing, Landing
<1>7. Timely
  BY <1>1 DEF Timely
<1>8. Granted
  BY <1>1 DEF Granted
<1> QED BY <1>2, <1>3, <1>4, <1>5, <1>6, <1>7, <1>8 DEF AccessIInv

-------------------------------------------------------------------------------
(* The semaphores: one is changed at a time. *)
LEMMA SemUpdate ==
    ASSUME sem \in [Threads -> Semaphores(Threads)], NEW t \in Threads,
           NEW s \in Semaphores(Threads), sem' = [sem EXCEPT ![t] = s]
    PROVE  /\ sem' \in [Threads -> Semaphores(Threads)] /\ sem'[t] = s
           /\ \A u \in Threads : u # t => sem'[u] = sem[u]
  OBVIOUS

(* Who is told of what: the queues and the way of a verdict, step by step. *)
QueueInv == AccessTypeOK /\ Queues

LEMMA TakeStep ==
    ASSUME QueueInv, NEW t \in Threads, sem[t].suspended = <<>>
    PROVE  /\ CanTake(sem[t]) => /\ Taken(sem[t]) \in Semaphores(Threads)
                                 /\ Taken(sem[t]).suspended = <<>>
           /\ ~CanTake(sem[t]) => /\ Suspended(sem[t], t) \in Semaphores(Threads)
                                  /\ Suspended(sem[t], t).suspended = <<t>>
                                  /\ Suspended(sem[t], t).value = 0
<1>1. sem[t] \in Semaphores(Threads)
  BY DEF QueueInv, AccessTypeOK
<1>2. ~CanTake(sem[t]) => sem[t].value = 0
  BY <1>1, SemAssumption DEF CanTake, Semaphores
<1> QED BY <1>1, <1>2, SemaphoreOps

LEMMA ReleaseStep ==
    ASSUME QueueInv, NEW t \in Threads, NEW pc,
           sem[t].suspended = IF pc = "wait" THEN <<t>> ELSE <<>>
    PROVE  /\ Released(sem[t]) \in Semaphores(Threads)
           /\ Released(sem[t]).suspended = <<>>
           /\ Wake(t, pc) = IF pc = "wait" THEN "go" ELSE pc
           /\ pc # "wait" => Released(sem[t]).value > 0
<1>1. sem[t] \in Semaphores(Threads)
  BY DEF QueueInv, AccessTypeOK
<1>2. CASE pc = "wait"
  BY <1>1, <1>2, SemaphoreOps DEF Wake
<1>3. CASE pc # "wait"
  BY <1>1, <1>3, SemaphoreOps DEF Wake
<1> QED BY <1>2, <1>3

-------------------------------------------------------------------------------
(* What a step keeps when it leaves the variables of a conjunct alone. *)
LEMMA KeepQueues ==
    ASSUME Queues, sem' = sem,
           face' = face \/ (face # "wait" /\ face' # "wait"),
           oled' = oled \/ (oled # "wait" /\ oled' # "wait")
    PROVE  Queues'
  BY DEF Queues

LEMMA KeepVerdict ==
    ASSUME VerdictUnderWay, sem'["oled"] = sem["oled"], oled' = oled, status' = status,
           Pass_status' = Pass_status, AS_status' = AS_status,
           face \in {"gate", "bounce", "tell"} => face' \in {"gate", "bounce", "tell"}
    PROVE  VerdictUnderWay'
  BY DEF VerdictUnderWay

LEMMA KeepRx ==
    ASSUME WireOK, Resyncing, Landing, wire' = wire, good' = good, answered' = answered,
           matched' = matched, RxState' = RxState, pRxPacket' = pRxPacket, code' = code
    PROVE  WireOK' /\ Resyncing' /\ Landing'
  BY DEF WireOK, Place, Resyncing, Landing

LEMMA KeepTimely ==
    ASSUME Timely, landed' = landed, answered' = answered, touch' = touch, wire' = wire,
           code' = code, inTime' = inTime, taken' = taken,
           \/ face' = face /\ Serial_RxFlag' = Serial_RxFlag
           \/ face \notin {"answer", "judge"} /\ face' \notin {"answer", "judge"}
    PROVE  Timely'
  BY DEF Timely

LEMMA KeepGranted ==
    ASSUME Granted, lost' = lost, answered' = answered, wire' = wire, RxState' = RxState,
           good' = good, code' = code, matched' = matched, taken' = taken, as' = as,
           Serial_RxFlag' = 1 => Serial_RxFlag = 1,
           face' = "judge" => face = "judge" \/ Serial_RxFlag = 1,
           1 \in {AS_status', status', Pass_status', sent'}
             => as = 1 \/ 1 \in {AS_status, status, Pass_status, sent}
    PROVE  Granted'
  BY DEF Granted

-------------------------------------------------------------------------------
(* face_tracking_thread *)
LEMMA FaceTakeStep == AccessIInv /\ FaceTake => AccessIInv'
<1> SUFFICES ASSUME AccessTypeOK, Queues, VerdictUnderWay, WireOK, Resyncing, Landing,
                    Timely, Granted, FaceTake
             PROVE  AccessIInv'
  BY DEF AccessIInv
<1>1. /\ RxState' = RxState /\ pRxPacket' = pRxPacket /\ Serial_RxFlag' = Serial_RxFlag
      /\ code' = code /\ wire' = wire /\ answered' = answered /\ matched' = matched
      /\ lost' = lost /\ good' = good /\ landed' = landed
      /\ oled' = oled /\ AS_status' = AS_status /\ Pass_status' = Pass_status
      /\ status' = status /\ sent' = sent
      /\ as' = as /\ touch' = touch /\ taken' = taken /\ inTime' = inTime
  BY DEF FaceTake, rxVars, readerVars, passVars, askVars
<1>2. face = "ready" /\ face' \in {"go", "wait"}
  BY DEF FaceTake
<1>3. sem["face"].suspended = <<>> /\ "face" \in Threads /\ "oled" \in Threads
  BY <1>2 DEF Queues, Threads
<1>4. /\ sem' \in [Threads -> Semaphores(Threads)]
      /\ sem'["oled"] = sem["oled"]
      /\ sem'["face"].suspended = IF face' = "wait" THEN <<"face">> ELSE <<>>
  <2>1. sem \in [Threads -> Semaphores(Threads)]
    BY DEF AccessTypeOK
  <2>2. CASE CanTake(sem["face"])
    <3>1. sem' = [sem EXCEPT !["face"] = Taken(sem["face"])] /\ face' = "go"
      BY <2>2 DEF FaceTake
    <3>2. Taken(sem["face"]) \in Semaphores(Threads) /\ Taken(sem["face"]).suspended = <<>>
      BY <1>3, <2>2, TakeStep DEF QueueInv
    <3> QED BY <1>3, <2>1, <3>1, <3>2, SemUpdate
  <2>3. CASE ~CanTake(sem["face"])
    <3>1. sem' = [sem EXCEPT !["face"] = Suspended(sem["face"], "face")] /\ face' = "wait"
      BY <2>3 DEF FaceTake
    <3>2. /\ Suspended(sem["face"], "face") \in Semaphores(Threads)
          /\ Suspended(sem["face"], "face").suspended = <<"face">>
      BY <1>3, <2>3, TakeStep DEF QueueInv
    <3> QED BY <1>3, <2>1, <3>1, <3>2, SemUpdate
  <2> QED BY <2>2, <2>3
<1>5. AccessTypeOK'
  BY <1>1, <1>2, <1>4 DEF AccessTypeOK
<1>6. Queues'
  BY <1>1, <1>4 DEF Queues
<1>7. VerdictUnderWay'
  BY <1>1, <1>2, <1>4, KeepVerdict
<1>8. WireOK' /\ Resyncing' /\ Landing'
  BY <1>1, KeepRx
<1>9. Timely'
  BY <1>1, <1>2, KeepTimely
<1>10. Granted'
  BY <1>1, <1>2, KeepGranted
<1> QED BY <1>5, <1>6, <1>7, <1>8, <1>9, <1>10 DEF AccessIInv

LEMMA AskStep == AccessIInv /\ Ask => AccessIInv'
<1> SUFFICES ASSUME AccessTypeOK, Queues, VerdictUnderWay, WireOK, Resyncing, Landing,
                    Timely, Granted, Ask
             PROVE  AccessIInv'
  BY DEF AccessIInv
<1>1. /\ RxState' = RxState /\ pRxPacket' = pRxPacket /\ Serial_RxFlag' = Serial_RxFlag
      /\ code' = code /\ wire' = wire /\ answered' = answered /\ matched' = matched
      /\ lost' = lost /\ good' = good /\ landed' = landed
      /\ sem' = sem /\ oled' = oled /\ AS_status' = AS_status /\ Pass_status' = Pass_status
      /\ status' = status /\ sent' = sent
      /\ as' = as /\ taken' = taken /\ inTime' = inTime
  BY DEF Ask, rxVars, readerVars, passVars
<1>2. face = "go" /\ face' = "answer" /\ touch < MaxTouches /\ touch' = touch + 1
  BY DEF Ask
<1>3. touch' \in Touches /\ touch \in Nat /\ landed \in Nat /\ answered \in Nat
  <2>1. touch \in Touches /\ landed \in Touches /\ answered \in Touches
    BY DEF AccessTypeOK
  <2> QED BY <1>2, <2>1, Constants
<1>4. AccessTypeOK'
  BY <1>1, <1>2, <1>3 DEF AccessTypeOK
<1>5. Queues'
  BY <1>1, <1>2, KeepQueues
<1>6. VerdictUnderWay'
  BY <1>1, <1>2, KeepVerdict
<1>7. WireOK' /\ Resyncing' /\ Landing'
  BY <1>1, KeepRx
<1>8. Timely'
  <2>1. landed <= answered /\ answered <= touch
    BY DEF Timely
  <2>2. landed # touch' /\ answered <= touch'
    BY <1>2, <1>3, <2>1
  <2> QED BY <1>1, <1>2, <2>1, <2>2 DEF Timely
<1>9. Granted'
  BY <1>1, <1>2, KeepGranted
<1> QED BY <1>4, <1>5, <1>6, <1>7, <1>8, <1>9 DEF AccessIInv

LEMMA NoFingerStep == AccessIInv /\ NoFinger => AccessIInv'
<1> SUFFICES ASSUME AccessTypeOK, Queues, VerdictUnderWay, WireOK, Resyncing, Landing,
                    Timely, Granted, NoFinger
             PROVE  AccessIInv'
  BY DEF AccessIInv
<1>1. /\ RxState' = RxState /\ pRxPacket' = pRxPacket /\ Serial_RxFlag' = Serial_RxFlag
      /\ code' = code /\ wire' = wire /\ answered' = answered /\ matched' = matched
      /\ lost' = lost /\ good' = good /\ landed' = landed
      /\ sem' = sem /\ oled' = oled /\ Pass_status' = Pass_status
      /\ status' = status /\ sent' = sent /\ touch' = touch
      /\ as' = as /\ taken' = taken /\ inTime' = inTime
  BY DEF NoFinger, rxVars, readerVars
<1>2. face = "go" /\ face' = "gate" /\ AS_status' = as
  BY DEF NoFinger, Return
<1>3. AccessTypeOK'
  BY <1>1, <1>2 DEF AccessTypeOK
<1>4. Queues'
  BY <1>1, <1>2, KeepQueues
<1>5. VerdictUnderWay'
  BY <1>2 DEF VerdictUnderWay
<1>6. WireOK' /\ Resyncing' /\ Landing'
  BY <1>1, KeepRx
<1>7. Timely'
  BY <1>1, <1>2, KeepTimely
<1>8. Granted'
  BY <1>1, <1>2, KeepGranted
<1> QED BY <1>3, <1>4, <1>5, <1>6, <1>7, <1>8 DEF AccessIInv

LEMMA LookStep == AccessIInv /\ Look => AccessIInv'
<1> SUFFICES ASSUME AccessTypeOK, Queues, VerdictUnderWay, WireOK, Resyncing, Landing,
                    Timely, Granted, Look
             PROVE  AccessIInv'
  BY DEF AccessIInv
<1>1. /\ RxState' = RxState /\ pRxPacket' = pRxPacket
      /\ Serial_RxFlag' = Serial_RxFlag /\ code' = code
      /\ wire' = wire /\ answered' = answered /\ matched' = matched /\ lost' = lost
      /\ good' = good /\ landed' = landed /\ Pass_status' = Pass_status /\ status' = status
      /\ sent' = sent /\ as' = as /\ touch' = touch /\ taken' = taken
      /\ sem' = sem /\ oled' = oled
  BY DEF Look, Return, rxVars, readerVars, passVars, askVars, threadVars
<1>2. /\ face = "answer" /\ inTime' = IF landed = touch THEN 1 ELSE 0
      /\ IF Serial_RxFlag = 1 THEN face' = "judge" /\ AS_status' = AS_status
                              ELSE face' = "gate" /\ AS_status' = as
  BY <1>1 DEF Look, Return
<1>3. AccessTypeOK'
  BY <1>1, <1>2 DEF AccessTypeOK
<1>4. Queues'
  BY <1>1, <1>2, KeepQueues
<1>5. VerdictUnderWay'
  <2>1. CASE face' = "gate"
    BY <2>1 DEF VerdictUnderWay
  <2>2. CASE face' = "judge"
    BY <1>1, <1>2, <2>2, KeepVerdict
  <2> QED BY <1>2, <2>1, <2>2
<1>6. WireOK' /\ Resyncing' /\ Landing'
  BY <1>1, KeepRx
<1>7. Timely'
  <2>1. landed = touch => Serial_RxFlag = 1
    BY <1>2 DEF Timely
  <2>2. inTime' = 1 => face' = "judge" /\ landed = touch
    <3>1. CASE landed = touch
      BY <1>2, <2>1, <3>1
    <3>2. CASE landed # touch
      <4>1. inTime' = 0
        BY <1>2, <3>2
      <4> QED BY <4>1
    <3> QED BY <3>1, <3>2
  <2>3. face' # "answer"
    BY <1>2
  <2> QED BY <1>1, <2>2, <2>3 DEF Timely
<1>8. Granted'
  <2>1. face' = "judge" => Serial_RxFlag = 1
    BY <1>2
  <2>2. AS_status' = AS_status \/ AS_status' = as
    BY <1>2
  <2> QED BY <1>1, <2>1, <2>2, KeepGranted
<1> QED BY <1>3, <1>4, <1>5, <1>6, <1>7, <1>8 DEF AccessIInv

LEMMA JudgeStep == AccessIInv /\ Judge => AccessIInv'
<1> SUFFICES ASSUME AccessTypeOK, Queues, VerdictUnderWay, WireOK, Resyncing, Landing,
                    Timely, Granted, Judge
             PROVE  AccessIInv'
  BY DEF AccessIInv
<1>1. /\ RxState' = RxState /\ pRxPacket' = pRxPacket
      /\ Serial_RxFlag' = Serial_RxFlag /\ code' = code
      /\ wire' = wire /\ answered' = answered /\ matched' = matched /\ lost' = lost
      /\ good' = good /\ landed' = landed /\ AS_status' = AS_status
      /\ Pass_status' = Pass_status
      /\ status' = status /\ sent' = sent /\ touch' = touch /\ inTime' = inTime
      /\ sem' = sem /\ oled' = oled
  BY DEF Judge, Return, rxVars, readerVars, passVars, askVars, threadVars
<1>2. /\ face = "judge" /\ face' = "clear" /\ taken' = code.of
      /\ as' = IF code.byte = "00" THEN 1 ELSE 0
  BY DEF Judge
<1>3. AccessTypeOK'
  <2>1. code.of \in Touches
    BY DEF AccessTypeOK
  <2> QED BY <1>1, <1>2, <2>1 DEF AccessTypeOK
<1>4. Queues'
  BY <1>1, <1>2, KeepQueues
<1>5. VerdictUnderWay'
  BY <1>1, <1>2, KeepVerdict
<1>6. WireOK' /\ Resyncing' /\ Landing'
  BY <1>1, KeepRx
<1>7. Timely'
  BY <1>1, <1>2 DEF Timely
<1>8. Granted'
  <2>1. ASSUME lost = 0
        PROVE  as' = 1 => taken' \in matched
    <3>1. code.of # 0 /\ (code.of # 0 /\ code.byte = "00" => code.of \in matched)
      BY <1>2, <2>1 DEF Granted
    <3>2. as' = 1 => code.byte = "00"
      <4>1. CASE code.byte = "00"
        BY <4>1
      <4>2. CASE code.byte # "00"
        <5>1. as' = 0
          BY <1>2, <4>2
        <5> QED BY <5>1
      <4> QED BY <4>1, <4>2
    <3> QED BY <1>2, <3>1, <3>2
  <2>2. face' # "judge"
    BY <1>2
  <2> QED BY <1>1, <2>1, <2>2 DEF Granted
<1> QED BY <1>3, <1>4, <1>5, <1>6, <1>7, <1>8 DEF AccessIInv

LEMMA ClearFlagStep == AccessIInv /\ ClearFlag => AccessIInv'
<1> SUFFICES ASSUME AccessTypeOK, Queues, VerdictUnderWay, WireOK, Resyncing, Landing,
                    Timely, Granted, ClearFlag
             PROVE  AccessIInv'
  BY DEF AccessIInv
<1>1. /\ RxState' = RxState /\ pRxPacket' = pRxPacket /\ code' = code /\ wire' = wire
      /\ answered' = answered /\ matched' = matched /\ lost' = lost /\ good' = good
      /\ landed' = landed /\ Pass_status' = Pass_status /\ status' = status /\ sent' = sent
      /\ as' = as /\ touch' = touch /\ taken' = taken /\ inTime' = inTime
      /\ sem' = sem /\ oled' = oled
  BY DEF ClearFlag, Return, rxVars, readerVars, passVars, askVars, threadVars
<1>2. face = "clear" /\ face' = "gate" /\ Serial_RxFlag' = 0 /\ AS_status' = as
  BY <1>1 DEF ClearFlag, Return
<1>3. AccessTypeOK'
  BY <1>1, <1>2 DEF AccessTypeOK
<1>4. Queues'
  BY <1>1, <1>2, KeepQueues
<1>5. VerdictUnderWay'
  BY <1>2 DEF VerdictUnderWay
<1>6. WireOK' /\ Resyncing' /\ Landing'
  BY <1>1, KeepRx
<1>7. Timely'
  BY <1>1, <1>2, KeepTimely
<1>8. Granted'
  <2>1. Serial_RxFlag' # 1 /\ face' # "judge"
    BY <1>2
  <2>2. 1 \in {AS_status', status', Pass_status', sent'}
          => as = 1 \/ 1 \in {AS_status, status, Pass_status, sent}
    BY <1>1, <1>2
  <2> QED BY <1>1, <2>1, <2>2, KeepGranted
<1> QED BY <1>3, <1>4, <1>5, <1>6, <1>7, <1>8 DEF AccessIInv

LEMMA GateStep == AccessIInv /\ Gate => AccessIInv'
<1> SUFFICES ASSUME AccessTypeOK, Queues, VerdictUnderWay, WireOK, Resyncing, Landing,
                    Timely, Granted, Gate
             PROVE  AccessIInv'
  BY DEF AccessIInv
<1>1. /\ RxState' = RxState /\ pRxPacket' = pRxPacket
      /\ Serial_RxFlag' = Serial_RxFlag /\ code' = code
      /\ wire' = wire /\ answered' = answered /\ matched' = matched /\ lost' = lost
      /\ good' = good /\ landed' = landed /\ AS_status' = AS_status
      /\ Pass_status' = Pass_status
      /\ status' = status /\ sent' = sent /\ as' = as /\ touch' = touch
      /\ taken' = taken /\ inTime' = inTime /\ sem' = sem /\ oled' = oled
  BY DEF Gate, Return, rxVars, readerVars, passVars, askVars, threadVars
<1>2. face \in {"gate", "bounce"} /\ face' \in {"tell", "bounce"}
  BY DEF Gate
<1>3. AccessTypeOK'
  BY <1>1, <1>2 DEF AccessTypeOK
<1>4. Queues'
  BY <1>1, <1>2, KeepQueues
<1>5. VerdictUnderWay'
  BY <1>2 DEF VerdictUnderWay
<1>6. WireOK' /\ Resyncing' /\ Landing'
  BY <1>1, KeepRx
<1>7. Timely'
  BY <1>1, <1>2, KeepTimely
<1>8. Granted'
  BY <1>1, <1>2, KeepGranted
<1> QED BY <1>3, <1>4, <1>5, <1>6, <1>7, <1>8 DEF AccessIInv

LEMMA TellStep == AccessIInv /\ Tell => AccessIInv'
<1> SUFFICES ASSUME AccessTypeOK, Queues, VerdictUnderWay, WireOK, Resyncing, Landing,
                    Timely, Granted, Tell
             PROVE  AccessIInv'
  BY DEF AccessIInv
<1>1. /\ RxState' = RxState /\ pRxPacket' = pRxPacket
      /\ Serial_RxFlag' = Serial_RxFlag /\ code' = code
      /\ wire' = wire /\ answered' = answered /\ matched' = matched /\ lost' = lost
      /\ good' = good /\ landed' = landed /\ AS_status' = AS_status
      /\ Pass_status' = Pass_status
      /\ status' = status /\ sent' = sent /\ as' = as /\ touch' = touch
      /\ taken' = taken /\ inTime' = inTime
  BY DEF Tell, Return, rxVars, readerVars, passVars, askVars, threadVars
<1>2. /\ face = "tell" /\ face' = "ready" /\ oled' = Wake("oled", oled)
      /\ sem' = [sem EXCEPT !["oled"] = Released(sem["oled"])]
  BY DEF Tell
<1>a. /\ Released(sem["oled"]) \in Semaphores(Threads)
      /\ Released(sem["oled"]).suspended = <<>>
      /\ oled' = IF oled = "wait" THEN "go" ELSE oled
      /\ oled # "wait" => Released(sem["oled"]).value > 0
  BY <1>2, ReleaseStep DEF QueueInv, Queues, Threads
<1>b. /\ sem' \in [Threads -> Semaphores(Threads)]
      /\ sem'["face"] = sem["face"] /\ sem'["oled"] = Released(sem["oled"])
  BY <1>2, <1>a, SemUpdate DEF AccessTypeOK, Threads
<1>3. AccessTypeOK'
  BY <1>1, <1>2, <1>a, <1>b DEF AccessTypeOK
<1>4. Queues'
  BY <1>2, <1>a, <1>b DEF Queues
<1>5. VerdictUnderWay'
  BY <1>a, <1>b DEF VerdictUnderWay
<1>6. WireOK' /\ Resyncing' /\ Landing'
  BY <1>1, KeepRx
<1>7. Timely'
  BY <1>1, <1>2, KeepTimely
<1>8. Granted'
  BY <1>1, <1>2, KeepGranted
<1> QED BY <1>3, <1>4, <1>5, <1>6, <1>7, <1>8 DEF AccessIInv

-------------------------------------------------------------------------------
(* oled_display_thread, sensor_send_thread and the timer *)
LEMMA OledTakeStep == AccessIInv /\ OledTake => AccessIInv'
<1> SUFFICES ASSUME AccessTypeOK, Queues, VerdictUnderWay, WireOK, Resyncing, Landing,
                    Timely, Granted, OledTake
             PROVE  AccessIInv'
  BY DEF AccessIInv
<1>1. /\ RxState' = RxState /\ pRxPacket' = pRxPacket
      /\ Serial_RxFlag' = Serial_RxFlag /\ code' = code
      /\ wire' = wire /\ answered' = answered /\ matched' = matched /\ lost' = lost
      /\ good' = good /\ landed' = landed /\ AS_status' = AS_status
      /\ Pass_status' = Pass_status
      /\ status' = status /\ sent' = sent /\ as' = as /\ touch' = touch
      /\ taken' = taken /\ inTime' = inTime /\ face' = face
  BY DEF OledTake, Return, rxVars, readerVars, passVars, askVars, threadVars
<1>2. oled = "ready" /\ oled' \in {"go", "wait"} /\ sem["oled"].suspended = <<>>
  BY DEF OledTake, Queues
<1>a. /\ sem' \in [Threads -> Semaphores(Threads)] /\ sem'["face"] = sem["face"]
      /\ sem'["oled"].suspended = IF oled' = "wait" THEN <<"oled">> ELSE <<>>
      /\ oled' = "wait" => sem'["oled"].value = 0 /\ ~(sem["oled"].value > 0)
  <2>1. sem \in [Threads -> Semaphores(Threads)] /\ "face" \in Threads /\ "oled" \in Threads
    BY DEF AccessTypeOK, Threads
  <2>2. CASE CanTake(sem["oled"])
    <3>1. sem' = [sem EXCEPT !["oled"] = Taken(sem["oled"])] /\ oled' = "go"
      BY <2>2 DEF OledTake
    <3>2. Taken(sem["oled"]) \in Semaphores(Threads) /\ Taken(sem["oled"]).suspended = <<>>
      BY <1>2, <2>1, <2>2, TakeStep DEF QueueInv
    <3> QED BY <2>1, <3>1, <3>2, SemUpdate
  <2>3. CASE ~CanTake(sem["oled"])
    <3>1. sem' = [sem EXCEPT !["oled"] = Suspended(sem["oled"], "oled")] /\ oled' = "wait"
      BY <2>3 DEF OledTake
    <3>2. /\ Suspended(sem["oled"], "oled") \in Semaphores(Threads)
          /\ Suspended(sem["oled"], "oled").suspended = <<"oled">>
          /\ Suspended(sem["oled"], "oled").value = 0
      BY <1>2, <2>1, <2>3, TakeStep DEF QueueInv
    <3>3. ~(sem["oled"].value > 0)
      BY <2>3 DEF CanTake
    <3> QED BY <2>1, <3>1, <3>2, <3>3, SemUpdate
  <2> QED BY <2>2, <2>3
<1>3. AccessTypeOK'
  BY <1>1, <1>2, <1>a DEF AccessTypeOK
<1>4. Queues'
  BY <1>1, <1>a DEF Queues
<1>5. VerdictUnderWay'
  BY <1>1, <1>2, <1>a DEF VerdictUnderWay
<1>6. WireOK' /\ Resyncing' /\ Landing'
  BY <1>1, KeepRx
<1>7. Timely'
  BY <1>1, KeepTimely
<1>8. Granted'
  BY <1>1, KeepGranted
<1> QED BY <1>3, <1>4, <1>5, <1>6, <1>7, <1>8 DEF AccessIInv

LEMMA ReadStatusStep == AccessIInv /\ ReadStatus => AccessIInv'
<1> SUFFICES ASSUME AccessTypeOK, Queues, VerdictUnderWay, WireOK, Resyncing, Landing,
                    Timely, Granted, ReadStatus
             PROVE  AccessIInv'
  BY DEF AccessIInv
<1>1. /\ RxState' = RxState /\ pRxPacket' = pRxPacket
      /\ Serial_RxFlag' = Serial_RxFlag /\ code' = code
      /\ wire' = wire /\ answered' = answered /\ matched' = matched /\ lost' = lost
      /\ good' = good /\ landed' = landed /\ AS_status' = AS_status
      /\ Pass_status' = Pass_status
      /\ sent' = sent /\ as' = as /\ touch' = touch /\ taken' = taken
      /\ inTime' = inTime /\ sem' = sem /\ face' = face
  BY DEF ReadStatus, Return, rxVars, readerVars, passVars, askVars, threadVars
<1>2. oled = "go" /\ oled' = "pass" /\ status' = AS_status
  BY DEF ReadStatus
<1>3. AccessTypeOK'
  BY <1>1, <1>2 DEF AccessTypeOK
<1>4. Queues'
  BY <1>1, <1>2, KeepQueues
<1>5. VerdictUnderWay'
  BY <1>1, <1>2 DEF VerdictUnderWay
<1>6. WireOK' /\ Resyncing' /\ Landing'
  BY <1>1, KeepRx
<1>7. Timely'
  BY <1>1, KeepTimely
<1>8. Granted'
  BY <1>1, <1>2, KeepGranted
<1> QED BY <1>3, <1>4, <1>5, <1>6, <1>7, <1>8 DEF AccessIInv

LEMMA SetPassStep == AccessIInv /\ SetPass => AccessIInv'
<1> SUFFICES ASSUME AccessTypeOK, Queues, VerdictUnderWay, WireOK, Resyncing, Landing,
                    Timely, Granted, SetPass
             PROVE  AccessIInv'
  BY DEF AccessIInv
<1>1. /\ RxState' = RxState /\ pRxPacket' = pRxPacket
      /\ Serial_RxFlag' = Serial_RxFlag /\ code' = code
      /\ wire' = wire /\ answered' = answered /\ matched' = matched /\ lost' = lost
      /\ good' = good /\ landed' = landed /\ AS_status' = AS_status /\ status' = status
      /\ sent' = sent /\ as' = as /\ touch' = touch /\ taken' = taken
      /\ inTime' = inTime /\ sem' = sem /\ face' = face
  BY DEF SetPass, Return, rxVars, readerVars, passVars, askVars, threadVars
<1>2. oled = "pass" /\ oled' = "ready" /\ Pass_status' = status
  <2>1. status \in {0, 1}
    BY DEF AccessTypeOK
  <2> QED BY <2>1 DEF SetPass
<1>3. AccessTypeOK'
  BY <1>1, <1>2 DEF AccessTypeOK
<1>4. Queues'
  BY <1>1, <1>2, KeepQueues
<1>5. VerdictUnderWay'
  BY <1>1, <1>2 DEF VerdictUnderWay
<1>6. WireOK' /\ Resyncing' /\ Landing'
  BY <1>1, KeepRx
<1>7. Timely'
  BY <1>1, KeepTimely
<1>8. Granted'
  BY <1>1, <1>2, KeepGranted
<1> QED BY <1>3, <1>4, <1>5, <1>6, <1>7, <1>8 DEF AccessIInv

LEMMA SendStep == AccessIInv /\ Send => AccessIInv'
<1> SUFFICES ASSUME AccessTypeOK, Queues, VerdictUnderWay, WireOK, Resyncing, Landing,
                    Timely, Granted, Send
             PROVE  AccessIInv'
  BY DEF AccessIInv
<1>1. /\ RxState' = RxState /\ pRxPacket' = pRxPacket
      /\ Serial_RxFlag' = Serial_RxFlag /\ code' = code
      /\ wire' = wire /\ answered' = answered /\ matched' = matched /\ lost' = lost
      /\ good' = good /\ landed' = landed /\ AS_status' = AS_status
      /\ Pass_status' = Pass_status
      /\ status' = status /\ as' = as /\ touch' = touch /\ taken' = taken
      /\ inTime' = inTime /\ sem' = sem /\ face' = face /\ oled' = oled
  BY DEF Send, Return, rxVars, readerVars, passVars, askVars, threadVars
<1>2. sent' = Pass_status
  BY DEF Send
<1>3. AccessTypeOK'
  BY <1>1, <1>2 DEF AccessTypeOK
<1>4. Queues'
  BY <1>1, KeepQueues
<1>5. VerdictUnderWay'
  BY <1>1, KeepVerdict
<1>6. WireOK' /\ Resyncing' /\ Landing'
  BY <1>1, KeepRx
<1>7. Timely'
  BY <1>1, KeepTimely
<1>8. Granted'
  BY <1>1, <1>2, KeepGranted
<1> QED BY <1>3, <1>4, <1>5, <1>6, <1>7, <1>8 DEF AccessIInv

LEMMA FaceDueStep == AccessIInv /\ FaceDue => AccessIInv'
<1> SUFFICES ASSUME AccessTypeOK, Queues, VerdictUnderWay, WireOK, Resyncing, Landing,
                    Timely, Granted, FaceDue
             PROVE  AccessIInv'
  BY DEF AccessIInv
<1>1. /\ RxState' = RxState /\ pRxPacket' = pRxPacket
      /\ Serial_RxFlag' = Serial_RxFlag /\ code' = code
      /\ wire' = wire /\ answered' = answered /\ matched' = matched /\ lost' = lost
      /\ good' = good /\ landed' = landed /\ AS_status' = AS_status
      /\ Pass_status' = Pass_status
      /\ status' = status /\ sent' = sent /\ as' = as /\ touch' = touch
      /\ taken' = taken /\ inTime' = inTime /\ oled' = oled
  BY DEF FaceDue, Return, rxVars, readerVars, passVars, askVars, threadVars
<1>2. /\ face \in {"wait", "answer", "bounce"} /\ face' = Wake("face", face)
      /\ sem' = [sem EXCEPT !["face"] = Released(sem["face"])]
  BY DEF FaceDue, FaceRuns
<1>a. /\ Released(sem["face"]) \in Semaphores(Threads)
      /\ Released(sem["face"]).suspended = <<>>
      /\ face' = IF face = "wait" THEN "go" ELSE face
  BY <1>2, ReleaseStep DEF QueueInv, Queues, Threads
<1>b. /\ sem' \in [Threads -> Semaphores(Threads)]
      /\ sem'["oled"] = sem["oled"] /\ sem'["face"] = Released(sem["face"])
  BY <1>2, <1>a, SemUpdate DEF AccessTypeOK, Threads
<1>3. AccessTypeOK'
  BY <1>1, <1>2, <1>a, <1>b DEF AccessTypeOK
<1>4. Queues'
  BY <1>1, <1>2, <1>a, <1>b DEF Queues
<1>5. VerdictUnderWay'
  BY <1>1, <1>a, <1>b, KeepVerdict
<1>6. WireOK' /\ Resyncing' /\ Landing'
  BY <1>1, KeepRx
<1>7. Timely'
  BY <1>1, <1>2, <1>a, KeepTimely
<1>8. Granted'
  BY <1>1, <1>2, <1>a, KeepGranted
<1> QED BY <1>3, <1>4, <1>5, <1>6, <1>7, <1>8 DEF AccessIInv

-------------------------------------------------------------------------------
(* The first byte of what is left of an answer, and what is left after it. *)
LEMMA HeadByte ==
    ASSUME AccessTypeOK, WireOK, wire # <<>>, wire' = Tail(wire),
           answered' = answered, matched' = matched,
           "plain" \in good' => "plain" \in good
    PROVE  /\ Head(wire) \in Bytes /\ wire' \in Seq(Bytes)
           /\ Len(wire) \in 1..(PACKET + 1) /\ Len(wire') = Len(wire) - 1
           /\ Len(wire) = PACKET + 1 => Head(wire) = "EF"
           /\ "plain" \in good /\ Len(wire) <= PACKET => Head(wire) # "EF"
           /\ Len(wire) = PACKET - CODE /\ Head(wire) = "00" => answered \in matched
           /\ WireOK'
<1>1. wire \in Seq(Bytes) /\ PACKET \in Nat /\ CODE \in Nat
  BY Constants DEF AccessTypeOK
<1>2. /\ Head(wire) = wire[1] /\ Head(wire) \in Bytes /\ wire' \in Seq(Bytes)
      /\ Len(wire) \in Nat \ {0} /\ Len(wire') = Len(wire) - 1
      /\ \A i \in 1..Len(wire') : wire'[i] = wire[i + 1]
  BY <1>1, EmptySeq, HeadTailProperties
<1>3. Len(wire) \in 1..(PACKET + 1)
  BY <1>1, <1>2 DEF WireOK
<1>4. 1 \in 1..Len(wire) /\ Place(1) = PACKET + 2 - Len(wire)
  BY <1>1, <1>2 DEF Place
<1>5. /\ Place(1) = 1 => wire[1] = "EF"
      /\ 1 < Place(1) /\ "plain" \in good => wire[1] # "EF"
      /\ Place(1) = CODE + 2 /\ wire[1] = "00" => answered \in matched
  BY <1>4 DEF WireOK
<1>6. /\ Len(wire) = PACKET + 1 => Place(1) = 1
      /\ Len(wire) <= PACKET => 1 < Place(1)
      /\ Len(wire) = PACKET - CODE => Place(1) = CODE + 2
  <2> DEFINE n == Len(wire)
             q == Place(1)
  <2>1. n \in Nat /\ q = PACKET + 2 - n /\ PACKET \in Nat /\ CODE \in Nat
    BY <1>1, <1>2, <1>4
  <2> HIDE DEF n, q
  <2>2. /\ n = PACKET + 1 => q = 1
        /\ n <= PACKET => 1 < q
        /\ n = PACKET - CODE => q = CODE + 2
    BY <2>1
  <2> QED BY <2>2 DEF n, q
<1>7. WireOK'
  <2>1. Len(wire') \in 0..(PACKET + 1)
    BY <1>1, <1>2, <1>3
  <2>2. ASSUME NEW i \in 1..Len(wire')
        PROVE  /\ i + 1 \in 1..Len(wire) /\ wire'[i] = wire[i + 1]
               /\ PACKET + 1 - Len(wire') + i = Place(i + 1)
    BY <1>1, <1>2 DEF Place
  <2>3. ASSUME NEW i \in 1..Len(wire')
        PROVE  LET p == PACKET + 1 - Len(wire') + i IN
               /\ p = 1 => wire'[i] = "EF"
               /\ 1 < p /\ (p <= PACKET \/ "plain" \in good') => wire'[i] # "EF"
               /\ p = CODE + 2 /\ wire'[i] = "00" => answered' \in matched'
    BY <2>2 DEF WireOK
  <2> QED BY <2>1, <2>3 DEF WireOK, Place
<1> QED BY <1>2, <1>3, <1>5, <1>6, <1>7

(* The handler: it starts, skips, stores or ends. *)
LEMMA HandleByte ==
    ASSUME AccessTypeOK, NEW b, Handle(b)
    PROVE  \/ /\ RxState = 0 /\ b = "EF" /\ RxState' = 1 /\ pRxPacket' = 0
              /\ code' = code /\ Serial_RxFlag' = Serial_RxFlag
           \/ /\ RxState = 0 /\ b # "EF" /\ RxState' = 0 /\ pRxPacket' = pRxPacket
              /\ code' = code /\ Serial_RxFlag' = Serial_RxFlag
           \/ /\ RxState = 1 /\ pRxPacket + 1 < PACKET
              /\ RxState' = 1 /\ pRxPacket' = pRxPacket + 1
              /\ code' = IF pRxPacket = CODE THEN [byte |-> b, of |-> answered] ELSE code
              /\ Serial_RxFlag' = Serial_RxFlag
           \/ /\ RxState = 1 /\ pRxPacket + 1 = PACKET
              /\ RxState' = 0 /\ pRxPacket' = pRxPacket + 1
              /\ code' = code /\ Serial_RxFlag' = 1
<1>1. /\ RxState \in {0, 1} /\ pRxPacket \in 0..PACKET
      /\ RxState = 1 => pRxPacket < PACKET
      /\ PACKET \in Nat /\ CODE \in Nat /\ CODE + 2 < PACKET
  BY Constants DEF AccessTypeOK
<1>2. CASE RxState = 0
  BY <1>2 DEF Handle, Starts, Stores, Ends, Code
<1>3. CASE RxState = 1 /\ pRxPacket + 1 < PACKET
  BY <1>1, <1>3 DEF Handle, Starts, Stores, Ends, Code
<1>4. CASE RxState = 1 /\ pRxPacket + 1 = PACKET
  BY <1>1, <1>4 DEF Handle, Starts, Stores, Ends, Code
<1> QED BY <1>1, <1>2, <1>3, <1>4

LEMMA ReceiveByteStep == AccessIInv /\ ReceiveByte => AccessIInv'
<1> SUFFICES ASSUME AccessTypeOK, Queues, VerdictUnderWay, WireOK, Resyncing, Landing,
                    Timely, Granted, ReceiveByte
             PROVE  AccessIInv'
  BY DEF AccessIInv
<1> DEFINE n == Len(wire)
           b == Head(wire)
<1>1. /\ answered' = answered /\ matched' = matched /\ lost' = lost /\ good' = good
      /\ AS_status' = AS_status /\ Pass_status' = Pass_status /\ status' = status
      /\ sent' = sent /\ as' = as /\ touch' = touch /\ taken' = taken /\ inTime' = inTime
      /\ sem' = sem /\ face' = face /\ oled' = oled
  BY DEF ReceiveByte, passVars, askVars, threadVars
<1>2. /\ wire # <<>> /\ wire' = Tail(wire) /\ Handle(b)
      /\ landed' = IF {"whole", "at rest"} \subseteq good /\ n = 1 THEN answered ELSE landed
  BY DEF ReceiveByte
<1>3. /\ b \in Bytes /\ wire' \in Seq(Bytes)
      /\ n \in 1..(PACKET + 1) /\ Len(wire') = n - 1
      /\ n = PACKET + 1 => b = "EF"
      /\ "plain" \in good /\ n <= PACKET => b # "EF"
      /\ n = PACKET - CODE /\ b = "00" => answered \in matched
      /\ WireOK'
  BY <1>1, <1>2, HeadByte
<1>4. \/ /\ RxState = 0 /\ b = "EF" /\ RxState' = 1 /\ pRxPacket' = 0
         /\ code' = code /\ Serial_RxFlag' = Serial_RxFlag
      \/ /\ RxState = 0 /\ b # "EF" /\ RxState' = 0 /\ pRxPacket' = pRxPacket
         /\ code' = code /\ Serial_RxFlag' = Serial_RxFlag
      \/ /\ RxState = 1 /\ pRxPacket + 1 < PACKET
         /\ RxState' = 1 /\ pRxPacket' = pRxPacket + 1
         /\ code' = IF pRxPacket = CODE THEN [byte |-> b, of |-> answered] ELSE code
         /\ Serial_RxFlag' = Serial_RxFlag
      \/ /\ RxState = 1 /\ pRxPacket + 1 = PACKET
         /\ RxState' = 0 /\ pRxPacket' = pRxPacket + 1
         /\ code' = code /\ Serial_RxFlag' = 1
  BY <1>2, HandleByte
<1> HIDE DEF n, b
<1>5. /\ RxState \in {0, 1} /\ pRxPacket \in 0..PACKET
      /\ RxState = 1 => pRxPacket < PACKET
      /\ PACKET \in Nat /\ CODE \in Nat /\ CODE + 2 < PACKET
      /\ answered \in Touches /\ landed \in Touches /\ code \in [byte : Bytes, of : Touches]
      /\ Serial_RxFlag \in {0, 1}
  BY Constants DEF AccessTypeOK
<1>6. AccessTypeOK'
  <2>1. RxState' \in {0, 1} /\ pRxPacket' \in 0..PACKET /\ (RxState' = 1 => pRxPacket' < PACKET)
    BY <1>4, <1>5
  <2>2. code' \in [byte : Bytes, of : Touches] /\ Serial_RxFlag' \in {0, 1}
    BY <1>3, <1>4, <1>5
  <2>3. landed' \in Touches
    BY <1>2, <1>5
  <2> QED BY <1>1, <1>3, <2>1, <2>2, <2>3 DEF AccessTypeOK
<1>7. Queues'
  BY <1>1, KeepQueues
<1>8. VerdictUnderWay'
  BY <1>1, KeepVerdict
<1>9. Resyncing'
  <2> SUFFICES ASSUME "whole" \in good, "plain" \in good, n - 1 <= PACKET, RxState' = 1
               PROVE  pRxPacket' >= PACKET - (n - 1)
    BY <1>1, <1>3 DEF Resyncing
  <2>1. CASE n = PACKET + 1
    BY <1>4, <1>5, <2>1
  <2>2. CASE n <= PACKET
    <3>1. RxState = 1 => pRxPacket >= PACKET - n
      BY <2>2 DEF Resyncing, n
    <3>2. b # "EF"
      BY <1>3, <2>2
    <3> QED BY <1>3, <1>4, <1>5, <2>2, <3>1, <3>2
  <2> QED BY <1>3, <1>5, <2>1, <2>2
<1>10. ASSUME "whole" \in good, "at rest" \in good
       PROVE  /\ n = PACKET + 1 => RxState' = 1 /\ pRxPacket' = 0 /\ Serial_RxFlag' = Serial_RxFlag
              /\ n \in 2..PACKET => /\ RxState' = 1 /\ pRxPacket' = PACKET - (n - 1)
                                     /\ Serial_RxFlag' = Serial_RxFlag
              /\ n = 1 => RxState' = 0 /\ Serial_RxFlag' = 1
              /\ n <= PACKET - CODE => code'.of = answered
  <2>1. /\ n = PACKET + 1 => RxState = 0
        /\ n \in 1..PACKET => RxState = 1 /\ pRxPacket = PACKET - n
        /\ n < PACKET - CODE => code.of = answered
    BY <1>5, <1>10 DEF Landing, n
  <2>2. CASE n = PACKET + 1
    BY <1>3, <1>4, <1>5, <2>1, <2>2
  <2>3. CASE n \in 2..PACKET
    <3>1. RxState = 1 /\ pRxPacket = PACKET - n /\ pRxPacket + 1 < PACKET
      BY <1>5, <2>1, <2>3
    <3>2. /\ RxState' = 1 /\ pRxPacket' = pRxPacket + 1
          /\ code' = IF pRxPacket = CODE THEN [byte |-> b, of |-> answered] ELSE code
          /\ Serial_RxFlag' = Serial_RxFlag
      BY <1>4, <1>5, <3>1
    <3>3. n <= PACKET - CODE => code'.of = answered
      <4>1. CASE n = PACKET - CODE
        BY <1>5, <2>3, <3>1, <3>2, <4>1
      <4>2. CASE n < PACKET - CODE
        <5>1. pRxPacket # CODE
          BY <1>5, <2>3, <3>1, <4>2
        <5> QED BY <2>1, <3>2, <4>2, <5>1
      <4> QED BY <1>5, <2>3, <4>1, <4>2
    <3> QED BY <1>5, <2>3, <3>1, <3>2, <3>3
  <2>4. CASE n = 1
    <3>1. RxState = 1 /\ pRxPacket + 1 = PACKET /\ code.of = answered
      BY <1>5, <2>1, <2>4
    <3> QED BY <1>4, <1>5, <2>4, <3>1
  <2> QED BY <1>3, <1>5, <2>2, <2>3, <2>4
<1>11. Landing'
  <2>1. ASSUME "whole" \in good, "at rest" \in good
        PROVE  /\ n - 1 \in {0, PACKET + 1} => RxState' = 0
               /\ n - 1 \in 1..PACKET => RxState' = 1 /\ pRxPacket' = PACKET - (n - 1)
               /\ n - 1 < PACKET - CODE => code'.of = answered
    <3>1. /\ n = PACKET + 1 => RxState' = 1 /\ pRxPacket' = 0 /\ Serial_RxFlag' = Serial_RxFlag
          /\ n \in 2..PACKET => /\ RxState' = 1 /\ pRxPacket' = PACKET - (n - 1)
                                 /\ Serial_RxFlag' = Serial_RxFlag
          /\ n = 1 => RxState' = 0 /\ Serial_RxFlag' = 1
          /\ n <= PACKET - CODE => code'.of = answered
      BY <1>10, <2>1
    <3> QED BY <1>3, <1>5, <3>1
  <2> QED BY <1>1, <1>3, <2>1 DEF Landing
<1>12. landed # touch /\ ~(face = "judge" /\ inTime = 1)
  BY <1>2 DEF Timely
<1>13. Timely'
  <2>1. CASE "whole" \in good /\ "at rest" \in good /\ n = 1
    <3>0. n = 1
      BY <2>1
    <3>1. landed' = answered
      BY <1>2, <2>1
    <3>2. wire' = <<>>
      <4>1. Len(wire') = 0
        BY <1>3, <3>0
      <4> QED BY <1>3, <4>1, EmptySeq
    <3>3. code'.of = answered /\ Serial_RxFlag' = 1
      <4>1. /\ n = 1 => RxState' = 0 /\ Serial_RxFlag' = 1
            /\ n <= PACKET - CODE => code'.of = answered
        BY <1>10, <2>1
      <4> QED BY <1>5, <3>0, <4>1
    <3>4. answered <= touch
      BY DEF Timely
    <3>5. face \notin {"answer", "judge"} /\ inTime = 1 => taken = touch
      BY DEF Timely
    <3>6. answered <= answered
      BY <1>5, Constants
    <3> QED BY <1>1, <1>12, <3>1, <3>2, <3>3, <3>4, <3>5, <3>6 DEF Timely
  <2>2. CASE ~("whole" \in good /\ "at rest" \in good /\ n = 1)
    <3>1. landed' = landed
      BY <1>2, <2>2
    <3>2. /\ landed <= answered /\ answered <= touch
          /\ face \notin {"answer", "judge"} /\ inTime = 1 => taken = touch
      BY DEF Timely
    <3> QED BY <1>1, <1>12, <3>1, <3>2 DEF Timely
  <2> QED BY <2>1, <2>2
<1>14. Granted'
  <2> SUFFICES ASSUME lost = 0
               PROVE  Granted'
    BY <1>1 DEF Granted
  <2>1. answered # 0 /\ "whole" \in good /\ "at rest" \in good
    BY <1>2 DEF Granted
  <2>0. /\ n = PACKET + 1 => RxState' = 1 /\ pRxPacket' = 0 /\ Serial_RxFlag' = Serial_RxFlag
        /\ n \in 2..PACKET => /\ RxState' = 1 /\ pRxPacket' = PACKET - (n - 1)
                               /\ Serial_RxFlag' = Serial_RxFlag
        /\ n = 1 => RxState' = 0 /\ Serial_RxFlag' = 1
        /\ n <= PACKET - CODE => code'.of = answered
    BY <1>10, <2>1
  <2>2. /\ code.of # 0 /\ code.byte = "00" => code.of \in matched
        /\ Serial_RxFlag = 1 \/ face = "judge" => code.of # 0
        /\ as = 1 => taken \in matched
        /\ 1 \in {AS_status, status, Pass_status, sent} => matched # {}
    BY DEF Granted
  <2>3. CASE code' = code
    <3>1. Serial_RxFlag' = 1 => code.of # 0
      <4>1. CASE n = 1
        <5>1. code'.of = answered
          BY <1>5, <2>0, <4>1
        <5> QED BY <2>1, <2>3, <5>1
      <4>2. CASE n # 1
        <5>1. Serial_RxFlag' = Serial_RxFlag
          BY <1>3, <1>5, <2>0, <4>2
        <5> QED BY <2>2, <5>1
      <4> QED BY <4>1, <4>2
    <3> QED BY <1>1, <2>1, <2>2, <2>3, <3>1 DEF Granted
  <2>4. CASE code' # code
    <3>1. /\ RxState = 1 /\ pRxPacket = CODE
          /\ code' = [byte |-> b, of |-> answered]
      BY <1>4, <2>4
    <3>2. n = PACKET - CODE
      <4>1. /\ n = PACKET + 1 => RxState = 0
            /\ n \in 1..PACKET => pRxPacket = PACKET - n
        BY <1>5, <2>1 DEF Landing, n
      <4> QED BY <1>3, <1>5, <3>1, <4>1
    <3>3. code'.of = answered /\ (code'.byte = "00" => answered \in matched)
      BY <1>3, <3>1, <3>2
    <3> QED BY <1>1, <2>1, <2>2, <3>3 DEF Granted
  <2> QED BY <2>3, <2>4
<1> QED BY <1>3, <1>6, <1>7, <1>8, <1>9, <1>11, <1>13, <1>14 DEF AccessIInv

LEMMA AnswerShape ==
    ASSUME NEW b \in {"00", "other"}, NEW last \in {"EF", "other"}
    PROVE  LET w == AnswerBytes(b, last) IN
           /\ w \in Seq(Bytes) /\ Len(w) = PACKET + 1
           /\ \A i \in 1..(PACKET + 1) :
                /\ i = 1 => w[i] = "EF"
                /\ 1 < i /\ (i <= PACKET \/ last # "EF") => w[i] # "EF"
                /\ i = CODE + 2 => w[i] = b
<1> DEFINE w == AnswerBytes(b, last)
<1>1. CODE \in Nat /\ PACKET \in Nat /\ CODE + 2 < PACKET
  BY Constants
<1>2. ASSUME NEW i \in 1..(PACKET + 1)
      PROVE  /\ w[i] \in Bytes
             /\ i = 1 => w[i] = "EF"
             /\ 1 < i /\ (i <= PACKET \/ last # "EF") => w[i] # "EF"
             /\ i = CODE + 2 => w[i] = b
  <2>1. w[i] = CASE i = 1 -> "EF"
                 [] i = CODE + 2 -> b
                 [] i = CODE + 3 -> "00"
                 [] i = PACKET + 1 -> last
                 [] OTHER -> "other"
    BY DEF AnswerBytes
  <2> HIDE DEF w
  <2>2. CASE i = 1
    BY <1>1, <2>1, <2>2 DEF Bytes
  <2>3. CASE i = CODE + 2
    BY <1>1, <2>1, <2>3 DEF Bytes
  <2>4. CASE i = CODE + 3
    BY <1>1, <2>1, <2>4 DEF Bytes
  <2>5. CASE i = PACKET + 1
    BY <1>1, <2>1, <2>5 DEF Bytes
  <2>6. CASE i \notin {1, CODE + 2, CODE + 3, PACKET + 1}
    <3>1. w[i] = "other"
      BY <2>1, <2>6
    <3> QED BY <2>6, <3>1 DEF Bytes
  <2> QED BY <2>2, <2>3, <2>4, <2>5, <2>6
<1>3. w \in Seq(Bytes) /\ Len(w) = PACKET + 1
  <2>1. w = [i \in 1..(PACKET + 1) |-> w[i]]
    BY DEF AnswerBytes
  <2> HIDE DEF w
  <2>2. w \in [1..(PACKET + 1) -> Bytes]
    BY <1>2, <2>1
  <2>3. PACKET + 1 \in Nat
    BY <1>1
  <2>4. w \in Seq(Bytes)
    BY <2>2, <2>3, SeqDef
  <2>5. DOMAIN w = 1..(PACKET + 1)
    BY <2>2
  <2> QED BY <2>3, <2>4, <2>5, LenProperties
<1> QED BY <1>2, <1>3

LEMMA AnswerStep == AccessIInv /\ Answer => AccessIInv'
<1> SUFFICES ASSUME AccessTypeOK, Queues, VerdictUnderWay, WireOK, Resyncing, Landing,
                    Timely, Granted, Answer
             PROVE  AccessIInv'
  BY DEF AccessIInv
<1>1. /\ RxState' = RxState /\ pRxPacket' = pRxPacket
      /\ Serial_RxFlag' = Serial_RxFlag /\ code' = code
      /\ lost' = lost /\ landed' = landed
      /\ AS_status' = AS_status /\ Pass_status' = Pass_status /\ status' = status
      /\ sent' = sent /\ as' = as /\ touch' = touch /\ taken' = taken /\ inTime' = inTime
      /\ sem' = sem /\ face' = face /\ oled' = oled
  BY DEF Answer, rxVars, passVars, askVars, threadVars
<1>2. PICK t \in (answered + 1)..touch, b \in {"00", "other"}, last \in {"EF", "other"} :
        /\ wire' = AnswerBytes(b, last)
        /\ answered' = t
        /\ matched' = IF b = "00" THEN matched \union {t} ELSE matched
        /\ good' = {"whole"} \union (IF RxState = 0 THEN {"at rest"} ELSE {})
                             \union (IF last = "EF" THEN {} ELSE {"plain"})
  BY DEF Answer
<1>3. wire = <<>>
  BY DEF Answer
<1>4. /\ answered \in Nat /\ touch \in Touches /\ landed \in Nat
      /\ t \in Touches /\ t # 0 /\ t <= touch /\ answered < t
      /\ CODE \in Nat /\ PACKET \in Nat /\ CODE + 2 < PACKET
  <2>1. answered \in Touches /\ touch \in Touches /\ landed \in Touches
    BY DEF AccessTypeOK
  <2> QED BY <2>1, Constants
<1>5. /\ wire' \in Seq(Bytes) /\ Len(wire') = PACKET + 1
      /\ \A i \in 1..(PACKET + 1) :
           /\ i = 1 => wire'[i] = "EF"
           /\ 1 < i /\ (i <= PACKET \/ last # "EF") => wire'[i] # "EF"
           /\ i = CODE + 2 => wire'[i] = b
  <2>1. wire' = AnswerBytes(b, last)
    BY <1>2
  <2> QED BY <2>1, AnswerShape
<1>6. /\ matched \subseteq matched' /\ (b = "00" => t \in matched')
      /\ matched' \subseteq Touches
  <2>1. matched \subseteq Touches
    BY DEF AccessTypeOK
  <2>2. matched' = IF b = "00" THEN matched \union {t} ELSE matched
    BY <1>2
  <2> QED BY <1>4, <2>1, <2>2
<1>7. /\ good' \subseteq {"whole", "at rest", "plain"}
      /\ "whole" \in good'
      /\ "at rest" \in good' <=> RxState = 0
      /\ "plain" \in good' <=> last # "EF"
  <2>1. good' = {"whole"} \union (IF RxState = 0 THEN {"at rest"} ELSE {})
                         \union (IF last = "EF" THEN {} ELSE {"plain"})
    BY <1>2
  <2> QED BY <2>1
<1>8. AccessTypeOK'
  BY <1>1, <1>2, <1>4, <1>5, <1>6, <1>7 DEF AccessTypeOK
<1>9. Queues'
  BY <1>1, KeepQueues
<1>10. VerdictUnderWay'
  BY <1>1, KeepVerdict
<1>11. WireOK'
  <2>1. Len(wire') \in 0..(PACKET + 1)
    BY <1>4, <1>5
  <2>2. ASSUME NEW i \in 1..Len(wire')
        PROVE  /\ PACKET + 1 - Len(wire') + i = i /\ i \in 1..(PACKET + 1)
    BY <1>4, <1>5
  <2>3. ASSUME NEW i \in 1..(PACKET + 1)
        PROVE  /\ i = 1 => wire'[i] = "EF"
               /\ 1 < i /\ (i <= PACKET \/ "plain" \in good') => wire'[i] # "EF"
               /\ i = CODE + 2 /\ wire'[i] = "00" => answered' \in matched'
    <3>1. answered' = t
      BY <1>2
    <3> QED BY <1>5, <1>6, <1>7, <3>1
  <2>4. ASSUME NEW i \in 1..Len(wire')
        PROVE  LET p == PACKET + 1 - Len(wire') + i IN
               /\ p = 1 => wire'[i] = "EF"
               /\ 1 < p /\ (p <= PACKET \/ "plain" \in good') => wire'[i] # "EF"
               /\ p = CODE + 2 /\ wire'[i] = "00" => answered' \in matched'
    BY <2>2, <2>3
  <2> QED BY <2>1, <2>4 DEF WireOK, Place
<1>12. Resyncing'
  <2>1. ~(Len(wire') <= PACKET)
    BY <1>4, <1>5
  <2> QED BY <2>1 DEF Resyncing
<1>13. Landing'
  <2>1. Len(wire') \notin 1..PACKET /\ ~(Len(wire') < PACKET - CODE)
    BY <1>4, <1>5
  <2>2. "at rest" \in good' => RxState' = 0
    BY <1>1, <1>7
  <2> QED BY <2>1, <2>2 DEF Landing
<1>14. Timely'
  <2>1. landed <= answered /\ (face = "judge" /\ inTime = 1 => landed = touch)
        /\ (face \notin {"answer", "judge"} /\ inTime = 1 => taken = touch)
    BY DEF Timely
  <2>2. landed <= t /\ landed # touch
    <3>1. touch \in Nat /\ t \in Nat
      BY <1>4, Constants
    <3>2. landed <= answered
      BY <2>1
    <3> QED BY <1>4, <3>1, <3>2
  <2>3. answered' = t /\ t <= touch
    BY <1>2, <1>4
  <2> QED BY <1>1, <2>1, <2>2, <2>3 DEF Timely
<1>15. Granted'
  <2> SUFFICES ASSUME lost = 0
               PROVE  Granted'
    BY <1>1 DEF Granted
  <2>1. IF answered = 0 THEN wire = <<>> /\ RxState = 0
                        ELSE "whole" \in good /\ "at rest" \in good
    BY DEF Granted
  <2>2. RxState = 0
    <3>1. CASE answered = 0
      BY <2>1, <3>1
    <3>2. CASE answered # 0
      <4>1. Len(wire) = 0
        BY <1>3
      <4>2. Len(wire) \in {0, PACKET + 1}
        BY <4>1
      <4> QED BY <2>1, <3>2, <4>2 DEF Landing
    <3> QED BY <3>1, <3>2
  <2>3. answered' # 0 /\ "whole" \in good' /\ "at rest" \in good'
    BY <1>2, <1>4, <1>7, <2>2
  <2>4. /\ code.of # 0 /\ code.byte = "00" => code.of \in matched
        /\ Serial_RxFlag = 1 \/ face = "judge" => code.of # 0
        /\ as = 1 => taken \in matched
        /\ 1 \in {AS_status, status, Pass_status, sent} => matched # {}
    BY DEF Granted
  <2>5. /\ code.of \in matched => code.of \in matched'
        /\ taken \in matched => taken \in matched'
        /\ matched # {} => matched' # {}
    BY <1>6
  <2> QED BY <1>1, <2>3, <2>4, <2>5 DEF Granted
<1> QED BY <1>8, <1>9, <1>10, <1>11, <1>12, <1>13, <1>14, <1>15 DEF AccessIInv

LEMMA LoseByteStep == AccessIInv /\ LoseByte => AccessIInv'
<1> SUFFICES ASSUME AccessTypeOK, Queues, VerdictUnderWay, WireOK, Resyncing, Landing,
                    Timely, Granted, LoseByte
             PROVE  AccessIInv'
  BY DEF AccessIInv
<1>1. /\ RxState' = RxState /\ pRxPacket' = pRxPacket
      /\ Serial_RxFlag' = Serial_RxFlag /\ code' = code
      /\ answered' = answered /\ matched' = matched /\ landed' = landed
      /\ AS_status' = AS_status /\ Pass_status' = Pass_status /\ status' = status
      /\ sent' = sent /\ as' = as /\ touch' = touch /\ taken' = taken /\ inTime' = inTime
      /\ sem' = sem /\ face' = face /\ oled' = oled
  BY DEF LoseByte, rxVars, passVars, askVars, threadVars
<1>2. /\ wire # <<>> /\ wire' = Tail(wire)
      /\ good' = good \ {"whole"} /\ lost' = 1
  BY DEF LoseByte
<1>3. /\ "plain" \in good' => "plain" \in good
      /\ "whole" \notin good'
      /\ good' \subseteq good
  BY <1>2
<1>4. wire' \in Seq(Bytes) /\ WireOK'
  BY <1>1, <1>2, <1>3, HeadByte
<1>5. AccessTypeOK'
  BY <1>1, <1>2, <1>3, <1>4 DEF AccessTypeOK
<1>6. Queues'
  BY <1>1, KeepQueues
<1>7. VerdictUnderWay'
  BY <1>1, KeepVerdict
<1>8. Resyncing' /\ Landing'
  BY <1>3 DEF Resyncing, Landing
<1>9. Timely'
  <2>1. landed # touch
    BY <1>2 DEF Timely
  <2> QED BY <1>1, <2>1 DEF Timely
<1>10. Granted'
  <2>1. lost' # 0
    BY <1>2
  <2> QED BY <2>1 DEF Granted
<1> QED BY <1>4, <1>5, <1>6, <1>7, <1>8, <1>9, <1>10 DEF AccessIInv

LEMMA AccessStutter == AccessIInv /\ UNCHANGED accessVars => AccessIInv'
<1> SUFFICES ASSUME AccessTypeOK, Queues, VerdictUnderWay, WireOK, Resyncing, Landing,
                    Timely, Granted, UNCHANGED accessVars
             PROVE  AccessIInv'
  BY DEF AccessIInv
<1>1. /\ RxState' = RxState /\ pRxPacket' = pRxPacket
      /\ Serial_RxFlag' = Serial_RxFlag /\ code' = code
      /\ wire' = wire /\ answered' = answered /\ matched' = matched /\ lost' = lost
      /\ good' = good /\ landed' = landed
      /\ AS_status' = AS_status /\ Pass_status' = Pass_status /\ status' = status
      /\ sent' = sent /\ as' = as /\ touch' = touch /\ taken' = taken /\ inTime' = inTime
      /\ sem' = sem /\ face' = face /\ oled' = oled
  BY DEF accessVars, rxVars, readerVars, passVars, askVars, threadVars
<1>2. AccessTypeOK'
  BY <1>1 DEF AccessTypeOK
<1>3. Queues' /\ VerdictUnderWay'
  BY <1>1, KeepQueues, KeepVerdict
<1>4. WireOK' /\ Resyncing' /\ Landing'
  BY <1>1, KeepRx
<1>5. Timely' /\ Granted'
  BY <1>1, KeepTimely, KeepGranted
<1> QED BY <1>2, <1>3, <1>4, <1>5 DEF AccessIInv

-------------------------------------------------------------------------------
LEMMA AccessInductive == AccessIInv /\ [AccessNext]_accessVars => AccessIInv'
  BY FaceTakeStep, AskStep, NoFingerStep, LookStep, JudgeStep, ClearFlagStep, GateStep,
     TellStep, OledTakeStep, ReadStatusStep, SetPassStep, SendStep, FaceDueStep,
     ReceiveByteStep, AnswerStep, LoseByteStep, AccessStutter
  DEF AccessNext, FaceStep, OledStep

LEMMA AccessInvariant == AccessSpec => []AccessIInv
  BY AccessInitial, AccessInductive, PTL DEF AccessSpec

(* The variables of the access node keep their types: the byte counter never
   passes the last of the bytes it counts, and the semaphores never overflow
   (main.c:216-230). *)
THEOREM AccessTypes == AccessSpec => []AccessTypeOK
<1>1. AccessIInv => AccessTypeOK
  BY DEF AccessIInv
<1> QED BY <1>1, AccessInvariant, PTL

(* For every length of an answer and number of touches: without a lost byte a
   pass goes back to a finger the reader has accepted, because every answer finds
   the handler at rest and so puts its own code where the verdict is taken from
   (main.c:163-182, 222-230). *)
THEOREM GrantsAreReal == AccessSpec => []GrantIsReal
<1>1. AccessIInv => GrantIsReal
  BY DEF AccessIInv, Granted, GrantIsReal
<1> QED BY <1>1, AccessInvariant, PTL

(* For every number of late answers before it: an answer that came whole before
   the delay was over is the one the verdict is taken from (main.c:166-179). *)
THEOREM AnswersInTimeAreUsed == AccessSpec => []InTimeIsUsed
<1>1. AccessIInv => InTimeIsUsed
  BY DEF AccessIInv, Timely, InTimeIsUsed
<1> QED BY <1>1, AccessInvariant, PTL

(* Wherever lost bytes have left the handler, one whole answer without another
   0xEF brings it back to rest (main.c:216-230). *)
THEOREM AnswersResynchronise == AccessSpec => []AnswersResync
<1>1. AccessIInv => AnswersResync
  <2> SUFFICES ASSUME AccessIInv, wire = <<>>, "whole" \in good, "plain" \in good
               PROVE  RxState = 0
    BY DEF AnswersResync
  <2>1. PACKET \in Nat /\ pRxPacket \in 0..PACKET /\ RxState \in {0, 1}
        /\ (RxState = 1 => pRxPacket < PACKET)
    BY Constants DEF AccessIInv, AccessTypeOK
  <2>2. Len(wire) = 0
    OBVIOUS
  <2>3. RxState = 1 => pRxPacket >= PACKET
    <3>1. Len(wire) <= PACKET /\ PACKET - Len(wire) = PACKET
      BY <2>1, <2>2
    <3>2. RxState = 1 => pRxPacket >= PACKET - Len(wire)
      BY <3>1 DEF AccessIInv, Resyncing
    <3> QED BY <3>1, <3>2
  <2> QED BY <2>1, <2>3
<1> QED BY <1>1, AccessInvariant, PTL

(* Whatever the interleaving of the two threads: the display thread never sleeps
   over a verdict it has not turned into Pass_status (main.c:117-119, 128-142). *)
THEOREM NoVerdictMissed == AccessSpec => []NoMissedVerdict
<1>1. AccessIInv => NoMissedVerdict
  <2> SUFFICES ASSUME AccessIInv, oled = "wait"
               PROVE  Pass_status = AS_status \/ face \in {"gate", "bounce", "tell"}
    BY DEF NoMissedVerdict
  <2>1. sem["oled"].value = 0
    BY DEF AccessIInv, Queues
  <2>2. ~(sem["oled"].value > 0)
    BY <2>1
  <2> QED BY <2>2 DEF AccessIInv, VerdictUnderWay
<1> QED BY <1>1, AccessInvariant, PTL
-------------------------------------------------------------------------------
(* What a verdict rests on once it does not change any more *)

(* Only between its two assignments has AS_status another verdict than `as`. *)
Stored == face # "clear" => AS_status = as

(* Pass_status shows v, and the display thread is not about to change it. *)
Shown(v) == Pass_status = v /\ (oled = "pass" => status = v)

AtRest(v) == AS_status = v /\ Shown(v)

LEMMA StoredStep == Stored /\ [AccessNext]_accessVars => Stored'
<1> SUFFICES ASSUME Stored, [AccessNext]_accessVars PROVE Stored'
  OBVIOUS
<1>1. CASE FaceTake \/ Ask \/ Gate \/ Tell
  BY <1>1 DEF Stored, FaceTake, Ask, Gate, Tell, askVars, passVars
<1>2. CASE NoFinger \/ Look \/ Judge \/ ClearFlag
  BY <1>2 DEF Stored, NoFinger, Look, Judge, ClearFlag, Return, askVars, passVars
<1>3. CASE OledStep \/ Send
  BY <1>3 DEF Stored, OledStep, OledTake, ReadStatus, SetPass, Send, askVars, passVars
<1>4. CASE FaceDue
  BY <1>4 DEF Stored, FaceDue, FaceRuns, Wake, askVars, passVars
<1>5. CASE ReceiveByte \/ Answer \/ LoseByte \/ UNCHANGED accessVars
  BY <1>5 DEF Stored, ReceiveByte, Answer, LoseByte, accessVars, threadVars, askVars, passVars
<1> QED BY <1>1, <1>2, <1>3, <1>4, <1>5 DEF AccessNext, FaceStep

(* As long as `as` keeps the verdict, no step of any thread or interrupt takes
   AS_status or Pass_status away from it. *)
LEMMA RestStep ==
    ASSUME NEW v \in {0, 1}, AccessTypeOK, Stored, [AccessNext]_accessVars,
           as = v, as' = v, AtRest(v)
    PROVE  AtRest(v)' /\ (Send \/ sent = v => sent' = v)
<1>1. CASE FaceTake \/ Ask \/ Gate
  BY <1>1 DEF AtRest, Shown, FaceTake, Ask, Gate, Send, askVars, passVars
<1>2. CASE NoFinger \/ Look \/ Judge \/ ClearFlag
  BY <1>2 DEF AtRest, Shown, NoFinger, Look, Judge, ClearFlag, Return, Send, askVars, passVars
<1>3. CASE OledStep
  BY <1>3 DEF AtRest, Shown, OledStep, OledTake, ReadStatus, SetPass, Send, askVars, passVars
<1>4. CASE Send
  BY <1>4 DEF AtRest, Shown, Send
<1>5. CASE FaceDue
  BY <1>5 DEF AtRest, Shown, FaceDue, Send, askVars, passVars
<1>6. CASE Tell
  BY <1>6 DEF AtRest, Shown, Tell, Wake, Send, askVars, passVars
<1>7. CASE ReceiveByte \/ Answer \/ LoseByte \/ UNCHANGED accessVars
  BY <1>7 DEF AtRest, Shown, ReceiveByte, Answer, LoseByte, Send, accessVars, threadVars,
              askVars, passVars
<1> QED BY <1>1, <1>2, <1>3, <1>4, <1>5, <1>6, <1>7 DEF AccessNext, FaceStep

(* A verdict that AS_status has and Pass_status does not show for good yet is
   still on its way: a thread is before the release, or the token is there, or
   the display thread is about to read or has read it. *)
LEMMA RestOrUnderWay ==
    ASSUME NEW v \in {0, 1}, AccessIInv, AS_status = v, ~Shown(v)
    PROVE  \/ face \in {"gate", "bounce", "tell"}
           \/ sem["oled"].value > 0 /\ oled # "wait"
           \/ oled = "go"
           \/ oled = "pass" /\ status = v
<1>1. oled = "wait" => ~(sem["oled"].value > 0)
  BY DEF AccessIInv, Queues
<1> QED BY <1>1 DEF AccessIInv, VerdictUnderWay, Shown

(* The path of a verdict to the gateway, in the part that does not need
   fairness (VerdictSent).  A verdict is stored in AS_status by the next
   assignment of the face thread; as long as Pass_status does not show it, one of
   the two threads is due to bring it there; and once it is there, nothing but
   another verdict takes it away again, from Pass_status or, after the next
   frame, from what was sent, however many tokens have piled up and however old
   the verdict is that the display thread still holds
   (main.c:104-105, 115-119, 128-142, 174-182). *)
THEOREM VerdictComesToRest ==
    ASSUME NEW v \in {0, 1}
    PROVE  AccessSpec =>
             /\ [](as = v => AS_status = v \/ face = "clear")
             /\ [](AS_status = v =>
                     \/ Shown(v)
                     \/ face \in {"gate", "bounce", "tell"}
                     \/ sem["oled"].value > 0 /\ oled # "wait"
                     \/ oled = "go"
                     \/ oled = "pass" /\ status = v)
             /\ [][as = v /\ as' = v /\ AtRest(v) =>
                     AtRest(v)' /\ (Send \/ sent = v => sent' = v)]_accessVars
<1>1. AccessInit => Stored
  BY DEF AccessInit, Stored
<1>2. Stored => (as = v => AS_status = v \/ face = "clear")
  BY DEF Stored
<1>3. AccessIInv => (AS_status = v =>
                     \/ Shown(v)
                     \/ face \in {"gate", "bounce", "tell"}
                     \/ sem["oled"].value > 0 /\ oled # "wait"
                     \/ oled = "go"
                     \/ oled = "pass" /\ status = v)
  BY RestOrUnderWay
<1>4. AccessIInv /\ Stored /\ [AccessNext]_accessVars
      => [as = v /\ as' = v /\ AtRest(v) =>
                     AtRest(v)' /\ (Send \/ sent = v => sent' = v)]_accessVars
  BY RestStep DEF AccessIInv
<1> QED
  BY <1>1, <1>2, <1>3, <1>4, StoredStep, AccessInvariant, PTL DEF AccessSpec
===============================================================================
