------------------------------ MODULE AccessNode ------------------------------
(***************************************************************************)
(* The access node: how a finger on the reader becomes the pass that is    *)
(* sent to the gateway.  face_tracking_thread asks the fingerprint reader  *)
(* and sleeps 800 ms, USART1_IRQHandler collects the answer meanwhile,     *)
(* oled_display_thread turns the verdict into Pass_status, and             *)
(* sensor_send_thread, the highest, sends it.                              *)
(*                                                                         *)
(* A byte is the start 0xEF, 0x00 (a match, as the code of an answer) or   *)
(* another.  Of Serial_RxPacket only the byte the code looks at is kept.   *)
(* Touches are numbered; the number says whose answer a byte belongs to.   *)
(***************************************************************************)
EXTENDS RtSemaphore

CONSTANTS
    PACKET,             \* bytes counted after 0xEF: 15
    CODE,               \* index of the code among them: 8
    MaxTouches          \* bound: touches in a behaviour

ASSUME AccessAssumption ==
    /\ CODE \in Nat /\ PACKET \in Nat /\ CODE + 2 < PACKET
    /\ MaxTouches \in Nat \ {0}

Threads == {"face", "oled"}
Bytes == {"EF", "00", "other"}
Touches == 0..MaxTouches

VARIABLES
    sem,                \* sem_face_tracking, sem_oled_display
    face, oled,         \* where the two threads are
    RxState, pRxPacket, Serial_RxFlag,
    code,               \* Serial_RxPacket[8], and the touch it was an answer to
    as, AS_status, Pass_status,
    status,             \* AS_status as the display thread has read it
    sent,               \* the pass in the last frame sent to the gateway
    touch,              \* the last touch the reader was asked about
    wire, answered,     \* bytes the reader still has to send, and for which touch
    matched, lost,      \* history: touches whose finger matched; a byte was lost
    good,               \* history: what is known of the answer on the wire
    landed,             \* history: the last answer whole and to a parser at rest
    taken, inTime       \* history: the touch `as` was taken from; whether the answer
                        \* waited for had landed when the flag was looked at

rxVars == <<RxState, pRxPacket, Serial_RxFlag, code>>
passVars == <<AS_status, Pass_status, status, sent>>
askVars == <<as, touch, taken, inTime>>
readerVars == <<wire, answered, matched, lost, good, landed>>
threadVars == <<sem, face, oled, passVars, askVars>>
accessVars == <<threadVars, rxVars, readerVars>>

AccessInit ==
    /\ sem = [t \in Threads |-> NewSem(0)]
    /\ face = "ready" /\ oled = "ready"
    /\ RxState = 0 /\ pRxPacket = 0 /\ Serial_RxFlag = 0
    /\ code = [byte |-> "00", of |-> 0]
    /\ as = 0 /\ AS_status = 0 /\ Pass_status = 0 /\ status = 0
    /\ sent = 0
    /\ touch = 0 /\ wire = <<>> /\ answered = 0 /\ matched = {} /\ lost = 0
    /\ good = {} /\ landed = 0 /\ taken = 0 /\ inTime = 0

-------------------------------------------------------------------------------
(* USART1_IRQHandler, one byte *)

Starts(b) == RxState = 0 /\ b = "EF"
Stores == RxState = 1

(* Mutant: one byte too many. *)
Ends_Late == Stores /\ pRxPacket >= PACKET

Ends == Stores /\ pRxPacket + 1 >= PACKET

(* Mutant: an answer that was not read yet is kept. *)
Code_KeepsUnread(b) ==
    IF Stores /\ pRxPacket = CODE /\ Serial_RxFlag = 0 THEN [byte |-> b, of |-> answered]
    ELSE code

(* Mutant: the byte after the code. *)
Code_NextByte(b) ==
    IF Stores /\ pRxPacket = CODE + 1 THEN [byte |-> b, of |-> answered] ELSE code

Code(b) ==
    IF Stores /\ pRxPacket = CODE THEN [byte |-> b, of |-> answered] ELSE code

Handle(b) ==
    /\ RxState' = IF Starts(b) THEN 1 ELSE IF Ends THEN 0 ELSE RxState
    /\ pRxPacket' = IF Starts(b) THEN 0 ELSE IF Stores THEN pRxPacket + 1 ELSE pRxPacket
    /\ code' = Code(b)
    /\ Serial_RxFlag' = IF Ends THEN 1 ELSE Serial_RxFlag

ReceiveByte ==
    /\ wire # <<>>
    /\ Handle(Head(wire))
    /\ wire' = Tail(wire)
    /\ landed' = IF {"whole", "at rest"} \subseteq good /\ Len(wire) = 1
                   THEN answered ELSE landed
    /\ UNCHANGED <<threadVars, answered, matched, lost, good>>

-------------------------------------------------------------------------------
(* The reader (external).  It answers touches in order, each within 800 ms,
   later, or never, with a match or with another code; the last byte, of the
   checksum, may be any. *)
AnswerBytes(b, last) ==
    [i \in 1..(PACKET + 1) |->
        CASE i = 1 -> "EF"
          [] i = CODE + 2 -> b
          [] i = CODE + 3 -> "00"               \* high byte of the page number
          [] i = PACKET + 1 -> last
          [] OTHER -> "other"]

Answer ==
    /\ wire = <<>>
    /\ \E t \in (answered + 1)..touch, b \in {"00", "other"}, last \in {"EF", "other"} :
        /\ wire' = AnswerBytes(b, last)
        /\ answered' = t
        /\ matched' = IF b = "00" THEN matched \union {t} ELSE matched
        /\ good' = {"whole"} \union (IF RxState = 0 THEN {"at rest"} ELSE {})
                             \union (IF last = "EF" THEN {} ELSE {"plain"})
    /\ UNCHANGED <<threadVars, rxVars, lost, landed>>

LoseByte ==
    /\ wire # <<>>
    /\ wire' = Tail(wire)
    /\ good' = good \ {"whole"} /\ lost' = 1
    /\ UNCHANGED <<threadVars, rxVars, answered, matched, landed>>

-------------------------------------------------------------------------------
(* face_tracking_thread.  "answer" and "bounce" are its two delays. *)
FaceRuns == face \notin {"wait", "answer", "bounce"}

FaceTake ==
    /\ face = "ready"
    /\ IF CanTake(sem["face"])
         THEN sem' = [sem EXCEPT !["face"] = Taken(@)] /\ face' = "go"
         ELSE sem' = [sem EXCEPT !["face"] = Suspended(@, "face")] /\ face' = "wait"
    /\ UNCHANGED <<rxVars, readerVars, oled, passVars, askVars>>

(* AS608_read with a finger on the reader: ask, and sleep. *)
Ask ==
    /\ face = "go" /\ touch < MaxTouches
    /\ touch' = touch + 1
    /\ face' = "answer"
    /\ UNCHANGED <<rxVars, readerVars, sem, oled, passVars, as, taken, inTime>>

(* AS608_read returns. *)
Return ==
    /\ AS_status' = as'
    /\ face' = "gate"

NoFinger ==
    /\ face = "go"
    /\ UNCHANGED as /\ Return
    /\ UNCHANGED <<rxVars, readerVars, sem, oled, Pass_status, status, sent, touch,
                   taken, inTime>>

(* A delay ends; the flag is looked at. *)
Look ==
    /\ face = "answer"
    /\ inTime' = IF landed = touch THEN 1 ELSE 0
    /\ UNCHANGED as
    /\ IF Serial_RxFlag = 1 THEN face' = "judge" /\ UNCHANGED AS_status ELSE Return
    /\ UNCHANGED <<rxVars, readerVars, sem, oled, Pass_status, status, sent, touch, taken>>

Judge ==
    /\ face = "judge"
    /\ as' = IF code.byte = "00" THEN 1 ELSE 0
    /\ taken' = code.of
    /\ face' = "clear"
    /\ UNCHANGED <<rxVars, readerVars, sem, oled, passVars, touch, inTime>>

ClearFlag ==
    /\ face = "clear"
    /\ Serial_RxFlag' = 0
    /\ UNCHANGED as /\ Return
    /\ UNCHANGED <<RxState, pRxPacket, code, readerVars, sem, oled, Pass_status, status,
                   sent, touch, taken, inTime>>

(* GATE_GetData: an open gate is looked at again after 10 ms.  GT is passed on to
   the frame and the display and decides nothing. *)
Gate ==
    /\ face \in {"gate", "bounce"}
    /\ face' \in {"tell", "bounce"} \ {face}
    /\ UNCHANGED <<rxVars, readerVars, sem, oled, passVars, askVars>>

Wake(t, pc) == IF t \in Resumed(sem[t]) THEN "go" ELSE pc

(* Mutant: the display thread is told only when it waits. *)
Tell_OnlyIfWaiting ==
    /\ face = "tell"
    /\ sem' = IF oled = "wait" THEN [sem EXCEPT !["oled"] = Released(@)] ELSE sem
    /\ oled' = Wake("oled", oled)
    /\ face' = "ready"
    /\ UNCHANGED <<rxVars, readerVars, passVars, askVars>>

Tell ==
    /\ face = "tell"
    /\ sem' = [sem EXCEPT !["oled"] = Released(@)]
    /\ oled' = Wake("oled", oled)
    /\ face' = "ready"
    /\ UNCHANGED <<rxVars, readerVars, passVars, askVars>>

-------------------------------------------------------------------------------
(* oled_display_thread *)
OledTake ==
    /\ oled = "ready" /\ ~FaceRuns
    /\ IF CanTake(sem["oled"])
         THEN sem' = [sem EXCEPT !["oled"] = Taken(@)] /\ oled' = "go"
         ELSE sem' = [sem EXCEPT !["oled"] = Suspended(@, "oled")] /\ oled' = "wait"
    /\ UNCHANGED <<rxVars, readerVars, face, passVars, askVars>>

ReadStatus ==
    /\ oled = "go" /\ ~FaceRuns
    /\ status' = AS_status
    /\ oled' = "pass"
    /\ UNCHANGED <<rxVars, readerVars, sem, face, askVars, AS_status, Pass_status, sent>>

(* Mutant: a refusal does not reset the pass. *)
SetPass_Latches ==
    /\ oled = "pass" /\ ~FaceRuns
    /\ Pass_status' = IF status = 1 THEN 1 ELSE Pass_status
    /\ oled' = "ready"
    /\ UNCHANGED <<rxVars, readerVars, sem, face, askVars, AS_status, status, sent>>

SetPass ==
    /\ oled = "pass" /\ ~FaceRuns
    /\ Pass_status' = IF status = 1 THEN 1 ELSE 0
    /\ oled' = "ready"
    /\ UNCHANGED <<rxVars, readerVars, sem, face, askVars, AS_status, status, sent>>

OledStep == OledTake \/ ReadStatus \/ SetPass

(* TIM4_IRQHandler.  sensor_send_thread runs as soon as it is released.  A loop
   of the face thread without its delays takes less than the interval. *)
Send ==
    /\ sent' = Pass_status
    /\ UNCHANGED <<rxVars, readerVars, sem, face, oled, askVars, AS_status, Pass_status, status>>

FaceDue ==
    /\ ~FaceRuns
    /\ sem' = [sem EXCEPT !["face"] = Released(@)]
    /\ face' = Wake("face", face)
    /\ UNCHANGED <<rxVars, readerVars, oled, passVars, askVars>>

FaceStep ==
    FaceTake \/ Ask \/ NoFinger \/ Look \/ Judge \/ ClearFlag \/ Gate \/ Tell

AccessNext ==
    \/ FaceStep \/ OledStep \/ Send \/ FaceDue
    \/ ReceiveByte \/ Answer \/ LoseByte

AccessSpec == AccessInit /\ [][AccessNext]_accessVars

(* The face thread runs and its delays end; the display thread gets what the
   face thread leaves of each interval; the timer runs. *)
FairAccessSpec ==
    /\ AccessSpec
    /\ WF_accessVars(FaceStep) /\ SF_accessVars(OledStep)
    /\ WF_accessVars(Send) /\ WF_accessVars(FaceDue)

-------------------------------------------------------------------------------
(* Properties *)

AccessTypeOK ==
    /\ sem \in [Threads -> Semaphores(Threads)]
    /\ face \in {"ready", "wait", "go", "answer", "judge", "clear", "gate", "bounce", "tell"}
    /\ oled \in {"ready", "wait", "go", "pass"}
    /\ RxState \in {0, 1} /\ pRxPacket \in 0..PACKET /\ Serial_RxFlag \in {0, 1}
    /\ RxState = 1 => pRxPacket < PACKET
    /\ code \in [byte : Bytes, of : Touches]
    /\ {as, AS_status, Pass_status, status, sent} \subseteq {0, 1}
    /\ {touch, answered, taken, landed} \subseteq Touches /\ matched \subseteq Touches
    /\ wire \in Seq(Bytes) /\ lost \in {0, 1} /\ inTime \in {0, 1}
    /\ good \subseteq {"whole", "at rest", "plain"}

(* Without a lost byte a pass is granted, and sent, only if the reader has
   accepted a finger, however late and over whatever other answer its answer
   came in (main.c:163-182, 222-230, 133-142, 105). *)
GrantIsReal ==
    lost = 0 =>
        /\ as = 1 => taken \in matched
        /\ 1 \in {AS_status, status, Pass_status, sent} => matched # {}

(* An answer that came whole, to a parser at rest, before the delay was over is
   the one the verdict is taken from, even if late answers to earlier touches
   came before it (main.c:166-179, 222-230). *)
InTimeIsUsed ==
    face \in {"clear", "gate"} /\ inTime = 1 => taken = touch

(* One whole answer without another 0xEF in it brings the handler back to rest
   wherever a lost byte has left it (main.c:216-230). *)
AnswersResync ==
    wire = <<>> /\ {"whole", "plain"} \subseteq good => RxState = 0

(* The display thread sleeps only over a Pass_status that is up to date, or the
   face thread is about to tell it otherwise: no verdict is missed although it
   can change while the display thread works (main.c:117-119, 128-142). *)
NoMissedVerdict ==
    oled = "wait" => Pass_status = AS_status \/ face \in {"gate", "bounce", "tell"}

(* What the verdict comes to rest on is sent in the end, also while tokens have
   piled up during a delay (main.c:104-105, 115-119, 128-142). *)
VerdictSent == \A v \in {0, 1} : <>[](as = v) => <>[](sent = v)
===============================================================================
