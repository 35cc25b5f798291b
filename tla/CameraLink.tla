------------------------------ MODULE CameraLink ------------------------------
(***************************************************************************)
(* From the camera to the servos of the access node: the script chooses a  *)
(* face and sends its centre in a frame of five bytes, USART2_IRQHandler   *)
(* collects the frame, Openmv_read takes the point over.                   *)
(*                                                                         *)
(* A byte is 0xF3, 0xF4 or a datum, which stands for its place in its      *)
(* frame: x < 240, y < 160 and the match flag are never 0xF3 or 0xF4.      *)
(* The frames are numbered.                                                *)
(***************************************************************************)
EXTENDS Integers, Sequences, SequencesExt

CONSTANTS
    Scenes,             \* what find_features may return: sequences of faces [w, h]
    MaxFrames           \* bound: frames the camera sends

ASSUME CameraAssumption ==
    /\ Scenes \subseteq Seq([w : Nat \ {0}, h : Nat \ {0}])
    /\ MaxFrames \in Nat

Frames == 0..MaxFrames
Bytes == [kind : {"F3", "x", "y", "z", "F4"}, of : Frames]
NoByte == [kind |-> "none", of |-> 0]           \* cell of an array nobody wrote

VARIABLES
    scene,              \* what the camera saw last
    wire, sends,        \* bytes of the frame on its way, and the frame's number
    RxState, pRxPacket, Seria2_RxPacket, Seria2_RxFlag,
    pc, x, y, Face_status,      \* Openmv_read
    tracked,            \* the point it handled last
    lost, good, landed, \* history: a byte was lost; what is known of the frame on the
                        \* wire; the last frame that came whole to a parser at rest
    due,                \* history: landed when the flag was cleared
    begun               \* history: frames begun between the copies of x and y

cameraVars == <<scene, wire, sends, lost, good, begun>>
rxVars == <<RxState, pRxPacket, Seria2_RxPacket>>
readVars == <<pc, x, y, Face_status, tracked, due>>
linkVars == <<cameraVars, rxVars, readVars, Seria2_RxFlag, landed>>

CameraInit ==
    /\ scene = <<>> /\ wire = <<>> /\ sends = 0
    /\ RxState = 0 /\ pRxPacket = 0 /\ Seria2_RxFlag = 0
    /\ Seria2_RxPacket = [i \in 0..3 |-> NoByte]
    /\ pc = "look" /\ x = NoByte /\ y = NoByte /\ Face_status = NoByte
    /\ tracked = <<NoByte, NoByte>>
    /\ lost = 0 /\ good = {} /\ landed = 0 /\ due = 0 /\ begun = 0

-------------------------------------------------------------------------------
(* detector: index is counted up at each face larger than the one before that
   was counted. *)
Index(faces) ==
    LET Compare(old, r) ==
            IF r.w > old.w /\ r.h > old.h
              THEN [w |-> r.w, h |-> r.h, index |-> old.index + 1] ELSE old
    IN  FoldLeft(Compare, [w |-> 0, h |-> 0, index |-> 0], faces).index - 1

FrameBytes(n) == [i \in 1..5 |-> [kind |-> <<"F3", "x", "y", "z", "F4">>[i], of |-> n]]

(* One turn of the script: the point of faces[Index(faces)] or, without a face,
   (0, 0). *)
Detect ==
    /\ wire = <<>> /\ sends < MaxFrames
    /\ scene' \in Scenes
    /\ sends' = sends + 1
    /\ wire' = FrameBytes(sends')
    /\ good' = {"whole"} \union (IF RxState = 0 THEN {"at rest"} ELSE {})
    /\ begun' = IF pc = "y" THEN begun + 1 ELSE begun
    /\ UNCHANGED <<rxVars, readVars, Seria2_RxFlag, landed, lost>>

LoseByte ==
    /\ wire # <<>>
    /\ wire' = Tail(wire)
    /\ good' = good \ {"whole"} /\ lost' = 1
    /\ UNCHANGED <<rxVars, readVars, Seria2_RxFlag, landed, scene, sends, begun>>

-------------------------------------------------------------------------------
(* USART2_IRQHandler, one byte *)
Starts(b) == RxState = 0 /\ b.kind = "F3"
Stores == RxState = 1
Closes(b) == RxState = 2 /\ b.kind = "F4"

(* Mutant: a fourth byte is waited for, as Openmv_read does. *)
NextState_Four(b) ==
    CASE Starts(b) -> 1
      [] Stores /\ pRxPacket + 1 = 4 -> 2
      [] Closes(b) -> 0
      [] OTHER -> RxState

NextState(b) ==
    CASE Starts(b) -> 1
      [] Stores /\ pRxPacket + 1 = 3 -> 2
      [] Closes(b) -> 0
      [] OTHER -> RxState

(* Mutant: the index is advanced before the store. *)
Stored_AfterIndex(b) ==
    IF Stores THEN [Seria2_RxPacket EXCEPT ![pRxPacket + 1] = b] ELSE Seria2_RxPacket

Stored(b) ==
    IF Stores THEN [Seria2_RxPacket EXCEPT ![pRxPacket] = b] ELSE Seria2_RxPacket

ReceiveByte ==
    /\ wire # <<>>
    /\ LET b == Head(wire) IN
        /\ RxState' = NextState(b)
        /\ pRxPacket' = IF Starts(b) THEN 0 ELSE IF Stores THEN pRxPacket + 1 ELSE pRxPacket
        /\ Seria2_RxPacket' = Stored(b)
        /\ Seria2_RxFlag' = IF Closes(b) THEN 1 ELSE Seria2_RxFlag
    /\ wire' = Tail(wire)
    /\ landed' = IF {"whole", "at rest"} \subseteq good /\ Len(wire) = 1 THEN sends ELSE landed
    /\ UNCHANGED <<readVars, scene, sends, lost, good, begun>>

-------------------------------------------------------------------------------
(* Openmv_read: the flag, then one byte after the other; then the point goes to
   the servo controllers and is cleared. *)
Look ==
    /\ pc = "look" /\ Seria2_RxFlag = 1
    /\ pc' = "clear"
    /\ UNCHANGED <<cameraVars, rxVars, Seria2_RxFlag, landed, x, y, Face_status, tracked, due>>

ClearFlag ==
    /\ pc = "clear"
    /\ Seria2_RxFlag' = 0
    /\ due' = landed
    /\ pc' = "x"
    /\ UNCHANGED <<cameraVars, rxVars, landed, x, y, Face_status, tracked>>

CopyX ==
    /\ pc = "x"
    /\ x' = Seria2_RxPacket[0]
    /\ pc' = "y"
    /\ begun' = 0
    /\ UNCHANGED <<scene, wire, sends, lost, good, rxVars, Seria2_RxFlag, landed,
                   y, Face_status, tracked, due>>

(* Mutant: the first byte again. *)
CopyY_First ==
    /\ pc = "y"
    /\ y' = Seria2_RxPacket[0]
    /\ pc' = "status"
    /\ UNCHANGED <<cameraVars, rxVars, Seria2_RxFlag, landed, x, Face_status, tracked, due>>

CopyY ==
    /\ pc = "y"
    /\ y' = Seria2_RxPacket[1]
    /\ pc' = "status"
    /\ UNCHANGED <<cameraVars, rxVars, Seria2_RxFlag, landed, x, Face_status, tracked, due>>

CopyStatus ==
    /\ pc = "status"
    /\ Face_status' = Seria2_RxPacket[3]
    /\ pc' = "track"
    /\ UNCHANGED <<cameraVars, rxVars, Seria2_RxFlag, landed, x, y, tracked, due>>

(* Mutant: the flag is cleared when the packet has been used. *)
Track_Clears ==
    /\ pc = "track"
    /\ tracked' = <<x, y>>
    /\ x' = NoByte /\ y' = NoByte /\ Seria2_RxFlag' = 0
    /\ pc' = "look"
    /\ UNCHANGED <<cameraVars, rxVars, landed, Face_status, due>>

Track ==
    /\ pc = "track"
    /\ tracked' = <<x, y>>
    /\ x' = NoByte /\ y' = NoByte
    /\ pc' = "look"
    /\ UNCHANGED <<cameraVars, rxVars, Seria2_RxFlag, landed, Face_status, due>>

Openmv_read == Look \/ ClearFlag \/ CopyX \/ CopyY \/ CopyStatus \/ Track

CameraNext == Detect \/ LoseByte \/ ReceiveByte \/ Openmv_read

CameraSpec == CameraInit /\ [][CameraNext]_linkVars

(* The face thread comes back to Openmv_read; nothing is assumed of the camera. *)
FairCameraSpec == CameraSpec /\ WF_linkVars(Openmv_read)

-------------------------------------------------------------------------------
(* Properties *)

Cells == Bytes \union {NoByte}

(* The handler stores inside the packet, and never in the cell that Face_status is
   copied from: that never holds a byte of the camera's (main.c:192, 249-256). *)
CameraTypeOK ==
    /\ scene \in Scenes \union {<<>>}
    /\ wire \in Seq(Bytes) /\ sends \in Frames
    /\ RxState \in 0..2 /\ pRxPacket \in 0..3
    /\ RxState = 1 => pRxPacket < 3
    /\ Seria2_RxPacket \in [0..3 -> Cells] /\ Seria2_RxFlag \in {0, 1}
    /\ Seria2_RxPacket[3] = NoByte /\ Face_status = NoByte
    /\ pc \in {"look", "clear", "x", "y", "status", "track"}
    /\ {x, y} \subseteq Cells /\ tracked \in Cells \X Cells
    /\ lost \in {0, 1} /\ good \subseteq {"whole", "at rest"}
    /\ landed \in Frames /\ due \in Frames /\ begun \in Nat

(* A frame that comes whole to a parser at rest stands in the packet, and any
   whole frame brings the parser to rest: a lost byte costs the frame it is
   lost from and at most the next (main.c:244-262). *)
FrameInPacket ==
    wire = <<>> /\ "whole" \in good =>
        /\ RxState = 0
        /\ "at rest" \in good =>
            \A i \in 0..2 : Seria2_RxPacket[i] = [kind |-> <<"x", "y", "z">>[i + 1], of |-> sends]

(* Without a lost byte the point handed to the servos is an x and a y no older than
   the frame that was flagged, and x is at most one frame ahead of y.  y is ahead
   of x by at most one frame and those the camera begins between the two copies:
   nothing in the code holds the camera back while a higher thread or an interrupt
   holds up the copy (main.c:187-192, 249-256). *)
PointIsCurrent ==
    pc = "track" /\ lost = 0 =>
        /\ x.kind = "x" /\ y.kind = "y"
        /\ x.of >= due /\ y.of >= due
        /\ x.of <= y.of + 1 /\ y.of <= x.of + 1 + begun

(* A frame that landed is never forgotten: it or a later one has been handled, or
   is in the copy, or its flag still stands.  A flag cleared after the copy
   instead of before would lose the frame that lands in between (main.c:187-192,
   261). *)
NoFrameForgotten ==
    \/ tracked[1].of >= landed
    \/ Seria2_RxFlag = 1 \/ pc = "x"
    \/ pc \in {"y", "status", "track"} /\ x.of >= landed

(* Each frame that landed, or a later one, is handled: the flag is cleared before
   the packet is copied, so one that lands meanwhile is flagged again
   (main.c:187-191, 261). *)
FrameFollowed == \A n \in Frames : landed = n ~> tracked[1].of >= n

(* What Face_Reconition_RC1.py:58 says: the largest face is chosen. *)
LargestFaceSent ==
    \A i \in DOMAIN scene :
        LET face == scene[Index(scene) + 1] IN ~(scene[i].w > face.w /\ scene[i].h > face.h)
===============================================================================
