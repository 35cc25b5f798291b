--------------------------- MODULE CameraLinkProofs ---------------------------
(***************************************************************************)
(* The camera's frames, for all scenes and any number of frames: how the   *)
(* handler recovers from a lost byte, and which frames a point can mix.    *)
(***************************************************************************)
EXTENDS CameraLink, SequenceTheorems, TLAPS

(* What is on the wire is the rest of frame number sends. *)
WireOK ==
    /\ Len(wire) \in 0..5
    /\ \A i \in 1..Len(wire) : wire[i] = FrameBytes(sends)[5 - Len(wire) + i]

(* Where a whole frame has brought the parser, byte by byte ... *)
Resyncing ==
    "whole" \in good =>
        /\ Len(wire) = 4 => RxState # 0
        /\ Len(wire) = 3 => RxState = 2 \/ (RxState = 1 /\ pRxPacket >= 1)
        /\ Len(wire) = 2 => RxState = 2 \/ (RxState = 1 /\ pRxPacket = 2)
        /\ Len(wire) = 1 => RxState = 2
        /\ Len(wire) = 0 => RxState = 0

(* ... and where, if it was at rest before. *)
Landing ==
    {"whole", "at rest"} \subseteq good =>
        /\ Len(wire) = 5 => RxState = 0
        /\ Len(wire) \in 2..4 => RxState = 1 /\ pRxPacket = 4 - Len(wire)
        /\ Len(wire) <= 3 => Seria2_RxPacket[0] = FrameBytes(sends)[2]
        /\ Len(wire) <= 2 => Seria2_RxPacket[1] = FrameBytes(sends)[3]
        /\ Len(wire) <= 1 => Seria2_RxPacket[2] = FrameBytes(sends)[4]

(* Without a lost byte every frame is whole and finds the parser at rest, and
   the first two cells of the packet follow the frames. *)
Lossless ==
    lost = 0 =>
        /\ IF sends = 0 THEN wire = <<>> /\ RxState = 0
                        ELSE good = {"whole", "at rest"}
        /\ landed = IF wire = <<>> THEN sends ELSE sends - 1
        /\ Seria2_RxFlag = 1 \/ pc # "look" => landed > 0
        /\ landed > 0 => /\ Seria2_RxPacket[0].kind = "x" /\ Seria2_RxPacket[1].kind = "y"
                         /\ Seria2_RxPacket[0].of = IF Len(wire) <= 3 THEN sends ELSE sends - 1
                         /\ Seria2_RxPacket[1].of = IF Len(wire) <= 2 THEN sends ELSE sends - 1
        /\ due <= landed

(* How far the copy has come: before y is copied, x is behind the camera by at most
   the frame that was on its way and those begun since. *)
Copying ==
    lost = 0 =>
        /\ pc \in {"y", "status", "track"} =>
             /\ x.kind = "x" /\ x.of >= due
             /\ pc = "y" => /\ x.of <= Seria2_RxPacket[1].of + 1
                            /\ sends <= x.of + 1 + begun
        /\ pc \in {"status", "track"} =>
             /\ y.kind = "y" /\ y.of >= due
             /\ x.of <= y.of + 1 /\ y.of <= x.of + 1 + begun

CameraIInv == CameraTypeOK /\ WireOK /\ Resyncing /\ Landing /\ Lossless /\ Copying

-------------------------------------------------------------------------------
LEMMA FrameShape ==
    ASSUME NEW n \in Frames
    PROVE  /\ FrameBytes(n) \in Seq(Bytes) /\ Len(FrameBytes(n)) = 5
           /\ FrameBytes(n)[1] = [kind |-> "F3", of |-> n]
           /\ FrameBytes(n)[2] = [kind |-> "x", of |-> n]
           /\ FrameBytes(n)[3] = [kind |-> "y", of |-> n]
           /\ FrameBytes(n)[4] = [kind |-> "z", of |-> n]
           /\ FrameBytes(n)[5] = [kind |-> "F4", of |-> n]
           /\ FrameBytes(n)[1].kind = "F3"
           /\ FrameBytes(n)[2].kind = "x" /\ FrameBytes(n)[2].of = n
           /\ FrameBytes(n)[3].kind = "y" /\ FrameBytes(n)[3].of = n
           /\ FrameBytes(n)[4].kind = "z"
           /\ FrameBytes(n)[5].kind = "F4"
<1> DEFINE K == <<"F3", "x", "y", "z", "F4">>
<1>1. /\ K[1] = "F3" /\ K[2] = "x" /\ K[3] = "y" /\ K[4] = "z" /\ K[5] = "F4"
  OBVIOUS
<1>2. \A i \in 1..5 : K[i] \in {"F3", "x", "y", "z", "F4"}
  BY <1>1
<1> HIDE DEF K
<1>3. FrameBytes(n) = [i \in 1..5 |-> [kind |-> K[i], of |-> n]]
  BY DEF FrameBytes, K
<1>4. FrameBytes(n) \in [1..5 -> Bytes]
  BY <1>2, <1>3 DEF Bytes
<1>5. FrameBytes(n) \in Seq(Bytes) /\ Len(FrameBytes(n)) = 5
  BY <1>3, <1>4
<1> QED BY <1>1, <1>3, <1>5

LEMMA CellOf == \A c \in Cells : c.of \in Nat
  BY CameraAssumption DEF Cells, Bytes, NoByte, Frames

LEMMA CameraInitial == CameraInit => CameraIInv
<1> SUFFICES ASSUME CameraInit PROVE CameraIInv
  OBVIOUS
<1> USE DEF CameraInit
<1>1. CameraTypeOK
  BY CameraAssumption DEF CameraTypeOK, Frames, Cells
<1>2. WireOK /\ Resyncing /\ Landing /\ Lossless /\ Copying
  BY DEF WireOK, Resyncing, Landing, Lossless, Copying
<1> QED BY <1>1, <1>2 DEF CameraIInv

LEMMA DetectStep == CameraIInv /\ Detect => CameraIInv'
<1> SUFFICES ASSUME CameraTypeOK, WireOK, Resyncing, Landing, Lossless, Copying, Detect
             PROVE  CameraIInv'
  BY DEF CameraIInv
<1>1. /\ sends' = sends + 1 /\ sends < MaxFrames
      /\ begun' = IF pc = "y" THEN begun + 1 ELSE begun
  BY DEF Detect
<1>a. wire = <<>> /\ Len(wire) = 0
  BY DEF Detect
<1>b. wire' = FrameBytes(sends')
  BY DEF Detect
<1>c. scene' \in Scenes
  BY DEF Detect
<1>d. good' = {"whole"} \union (IF RxState = 0 THEN {"at rest"} ELSE {})
  BY DEF Detect
<1>2. /\ RxState' = RxState /\ pRxPacket' = pRxPacket /\ Seria2_RxPacket' = Seria2_RxPacket
      /\ pc' = pc /\ x' = x /\ y' = y /\ Face_status' = Face_status
      /\ tracked' = tracked /\ due' = due
      /\ Seria2_RxFlag' = Seria2_RxFlag /\ landed' = landed /\ lost' = lost
  BY DEF Detect, rxVars, readVars
<1>3. sends' \in Frames /\ sends \in Nat
  <2>1. sends \in Frames
    BY DEF CameraTypeOK
  <2> QED BY <1>1, <2>1, CameraAssumption DEF Frames
<1>4. wire' \in Seq(Bytes) /\ Len(wire') = 5 /\ wire' # <<>>
  <2>1. wire' \in Seq(Bytes) /\ Len(wire') = 5
    BY <1>b, <1>3, FrameShape
  <2> QED BY <2>1, EmptySeq
<1>5. good' \subseteq {"whole", "at rest"} /\ ("at rest" \in good' <=> RxState = 0) /\ "whole" \in good'
  BY <1>d
<1>e. begun \in Nat /\ begun' \in Nat
  <2>1. begun \in Nat
    BY DEF CameraTypeOK
  <2> QED BY <1>1, <2>1
<1>6. CameraTypeOK'
  BY <1>c, <1>e, <1>2, <1>3, <1>4, <1>5 DEF CameraTypeOK
<1>7. WireOK'
  <2>1. ASSUME NEW i \in 1..5 PROVE wire'[i] = FrameBytes(sends')[5 - 5 + i]
    <3>1. 5 - 5 + i = i
      OBVIOUS
    <3> QED BY <1>b, <3>1
  <2> QED BY <1>4, <2>1 DEF WireOK
<1>8. Resyncing'
  BY <1>4 DEF Resyncing
<1>9. Landing'
  <2>1. {"whole", "at rest"} \subseteq good' => RxState' = 0
    BY <1>2, <1>5
  <2>2. Len(wire') = 5 /\ Len(wire') \notin 2..4 /\ ~(Len(wire') <= 3)
        /\ ~(Len(wire') <= 2) /\ ~(Len(wire') <= 1)
    BY <1>4
  <2> QED BY <2>1, <2>2, Zenon DEF Landing
<1>10. Lossless'
  <2> SUFFICES ASSUME lost = 0 PROVE Lossless'
    BY <1>2 DEF Lossless
  <2>1. RxState = 0
    <3>1. CASE sends = 0
      BY <3>1 DEF Lossless
    <3>2. CASE sends # 0
      BY <1>a, <3>2 DEF Lossless, Resyncing
    <3> QED BY <3>1, <3>2
  <2>2. good' = {"whole", "at rest"}
    BY <1>d, <2>1
  <2>3. landed = sends
    BY <1>a DEF Lossless
  <2>4. sends' # 0 /\ sends' - 1 = sends
    BY <1>1, <1>3
  <2>5. landed' = IF wire' = <<>> THEN sends' ELSE sends' - 1
    BY <1>2, <1>4, <2>3, <2>4
  <2>6. Seria2_RxFlag' = 1 \/ pc' # "look" => landed' > 0
    BY <1>2 DEF Lossless
  <2>7. landed' > 0 =>
           /\ Seria2_RxPacket'[0].kind = "x" /\ Seria2_RxPacket'[1].kind = "y"
           /\ Seria2_RxPacket'[0].of = sends' - 1
           /\ Seria2_RxPacket'[1].of = sends' - 1
    <3>1. landed > 0 =>
             /\ Seria2_RxPacket[0].kind = "x" /\ Seria2_RxPacket[1].kind = "y"
             /\ Seria2_RxPacket[0].of = IF Len(wire) <= 3 THEN sends ELSE sends - 1
             /\ Seria2_RxPacket[1].of = IF Len(wire) <= 2 THEN sends ELSE sends - 1
      BY DEF Lossless
    <3>2. Len(wire) <= 3 /\ Len(wire) <= 2
      BY <1>a
    <3> QED BY <1>2, <2>4, <3>1, <3>2
  <2>8. due' <= landed'
    BY <1>2 DEF Lossless
  <2>9. /\ Seria2_RxPacket'[0].of = sends' - 1
           => Seria2_RxPacket'[0].of = IF Len(wire') <= 3 THEN sends' ELSE sends' - 1
        /\ Seria2_RxPacket'[1].of = sends' - 1
           => Seria2_RxPacket'[1].of = IF Len(wire') <= 2 THEN sends' ELSE sends' - 1
    BY <1>4
  <2> QED BY <2>2, <2>4, <2>5, <2>6, <2>7, <2>8, <2>9, Zenon DEF Lossless
<1>11. Copying'
  <2>1. pc = "y" /\ sends <= x.of + 1 + begun => sends' <= x.of + 1 + begun'
    <3>1. x.of \in Nat
      BY CellOf DEF CameraTypeOK
    <3> QED BY <1>1, <1>3, <1>e, <3>1
  <2>2. pc # "y" => begun' = begun
    BY <1>1
  <2> QED BY <1>2, <2>1, <2>2 DEF Copying
<1> QED BY <1>6, <1>7, <1>8, <1>9, <1>10, <1>11 DEF CameraIInv

(* The head of the wire, and what remains. *)
LEMMA HeadByte ==
    ASSUME CameraTypeOK, WireOK, wire # <<>>, wire' = Tail(wire), sends' = sends
    PROVE  /\ Len(wire) \in 1..5 /\ Len(wire') = Len(wire) - 1 /\ wire' \in Seq(Bytes)
           /\ Head(wire) \in Bytes
           /\ Head(wire) = FrameBytes(sends)[6 - Len(wire)]
           /\ WireOK'
<1>1. wire \in Seq(Bytes) /\ Len(wire) \in 0..5
  BY DEF CameraTypeOK, WireOK
<1>2. Len(wire) \in 1..5
  BY <1>1, EmptySeq
<1>3. /\ Len(wire') = Len(wire) - 1 /\ wire' \in Seq(Bytes)
      /\ Head(wire) = wire[1] /\ Head(wire) \in Bytes
      /\ \A i \in 1..Len(wire') : wire'[i] = wire[i + 1]
  BY <1>1, <1>2
<1>4. Head(wire) = FrameBytes(sends)[6 - Len(wire)]
  <2>1. wire[1] = FrameBytes(sends)[5 - Len(wire) + 1] /\ 5 - Len(wire) + 1 = 6 - Len(wire)
    BY <1>2 DEF WireOK
  <2> QED BY <1>3, <2>1
<1>5. WireOK'
  <2>1. ASSUME NEW i \in 1..Len(wire')
        PROVE  wire'[i] = FrameBytes(sends)[5 - Len(wire') + i]
    <3>1. i + 1 \in 1..Len(wire) /\ 5 - Len(wire) + (i + 1) = 5 - Len(wire') + i
      BY <1>2, <1>3
    <3>2. wire[i + 1] = FrameBytes(sends)[5 - Len(wire) + (i + 1)]
      BY <3>1 DEF WireOK
    <3> QED BY <1>3, <3>1, <3>2
  <2>2. Len(wire') \in 0..5
    BY <1>2, <1>3
  <2> QED BY <2>1, <2>2 DEF WireOK
<1> QED BY <1>2, <1>3, <1>4, <1>5

LEMMA LoseStep == CameraIInv /\ LoseByte => CameraIInv'
<1> SUFFICES ASSUME CameraTypeOK, WireOK, LoseByte PROVE CameraIInv'
  BY DEF CameraIInv
<1>1. /\ wire # <<>> /\ wire' = Tail(wire) /\ good' = good \ {"whole"} /\ lost' = 1
      /\ scene' = scene /\ sends' = sends /\ begun' = begun
  BY DEF LoseByte
<1>2. /\ RxState' = RxState /\ pRxPacket' = pRxPacket /\ Seria2_RxPacket' = Seria2_RxPacket
      /\ pc' = pc /\ x' = x /\ y' = y /\ Face_status' = Face_status
      /\ tracked' = tracked /\ due' = due
      /\ Seria2_RxFlag' = Seria2_RxFlag /\ landed' = landed
  BY DEF LoseByte, rxVars, readVars
<1>3. WireOK' /\ wire' \in Seq(Bytes)
  BY <1>1, HeadByte
<1>4. CameraTypeOK'
  BY <1>1, <1>2, <1>3 DEF CameraTypeOK
<1>5. "whole" \notin good'
  BY <1>1
<1>6. Resyncing' /\ Landing'
  BY <1>5 DEF Resyncing, Landing
<1>7. Lossless' /\ Copying'
  BY <1>1 DEF Lossless, Copying
<1> QED BY <1>3, <1>4, <1>6, <1>7 DEF CameraIInv

LEMMA ReceiveStep == CameraIInv /\ ReceiveByte => CameraIInv'
<1> SUFFICES ASSUME CameraTypeOK, WireOK, Resyncing, Landing, Lossless, Copying, ReceiveByte
             PROVE  CameraIInv'
  BY DEF CameraIInv
<1> DEFINE b == Head(wire)
<1> DEFINE n == Len(wire)
<1>1. wire # <<>> /\ wire' = Tail(wire) /\ sends' = sends
  BY DEF ReceiveByte
<1>2. RxState' = NextState(b)
  BY DEF ReceiveByte
<1>3. pRxPacket' = IF Starts(b) THEN 0 ELSE IF Stores THEN pRxPacket + 1 ELSE pRxPacket
  BY DEF ReceiveByte
<1>4. Seria2_RxPacket' = Stored(b)
  BY DEF ReceiveByte
<1>5. Seria2_RxFlag' = IF Closes(b) THEN 1 ELSE Seria2_RxFlag
  BY DEF ReceiveByte
<1>6. landed' = IF {"whole", "at rest"} \subseteq good /\ n = 1 THEN sends ELSE landed
  BY DEF ReceiveByte
<1>7. /\ scene' = scene /\ lost' = lost /\ good' = good /\ begun' = begun
      /\ pc' = pc /\ x' = x /\ y' = y /\ Face_status' = Face_status
      /\ tracked' = tracked /\ due' = due
  BY DEF ReceiveByte, readVars
<1>8. /\ n \in 1..5 /\ Len(wire') = n - 1 /\ wire' \in Seq(Bytes)
      /\ b \in Bytes /\ b = FrameBytes(sends)[6 - n] /\ WireOK'
  BY <1>1, HeadByte
<1>9. /\ RxState \in 0..2 /\ pRxPacket \in 0..3 /\ (RxState = 1 => pRxPacket < 3)
      /\ sends \in Frames /\ Seria2_RxPacket \in [0..3 -> Cells]
      /\ Seria2_RxPacket[3] = NoByte
  BY DEF CameraTypeOK
<1>10. /\ n = 5 => b = FrameBytes(sends)[1] /\ b.kind = "F3"
       /\ n = 4 => b = FrameBytes(sends)[2] /\ b.kind = "x" /\ b.of = sends
       /\ n = 3 => b = FrameBytes(sends)[3] /\ b.kind = "y" /\ b.of = sends
       /\ n = 2 => b = FrameBytes(sends)[4] /\ b.kind = "z"
       /\ n = 1 => b = FrameBytes(sends)[5] /\ b.kind = "F4"
  <2> HIDE DEF b, n
  <2>1. b = FrameBytes(sends)[6 - n] /\ sends \in Frames
    BY <1>8, <1>9
  <2>2. n = 5 => b = FrameBytes(sends)[1]
    BY <2>1
  <2>3. n = 4 => b = FrameBytes(sends)[2]
    BY <2>1
  <2>4. n = 3 => b = FrameBytes(sends)[3]
    BY <2>1
  <2>5. n = 2 => b = FrameBytes(sends)[4]
    BY <2>1
  <2>6. n = 1 => b = FrameBytes(sends)[5]
    BY <2>1
  <2>7. /\ FrameBytes(sends)[1].kind = "F3"
        /\ FrameBytes(sends)[2].kind = "x" /\ FrameBytes(sends)[2].of = sends
        /\ FrameBytes(sends)[3].kind = "y" /\ FrameBytes(sends)[3].of = sends
        /\ FrameBytes(sends)[4].kind = "z"
        /\ FrameBytes(sends)[5].kind = "F4"
    BY <2>1, FrameShape, Zenon
  <2> QED BY <2>2, <2>3, <2>4, <2>5, <2>6, <2>7, Zenon
<1>11. (b.kind = "F3" <=> n = 5) /\ (b.kind = "F4" <=> n = 1)
  <2> HIDE DEF b, n
  <2>1. n = 1 \/ n = 2 \/ n = 3 \/ n = 4 \/ n = 5
    BY <1>8
  <2> QED BY <1>10, <2>1
<1> HIDE DEF b, n
<1>12. /\ Starts(b) <=> RxState = 0 /\ n = 5
       /\ Stores <=> RxState = 1
       /\ Closes(b) <=> RxState = 2 /\ n = 1
  BY <1>11 DEF Starts, Stores, Closes
<1>13. RxState = 0 => RxState' = IF n = 5 THEN 1 ELSE 0
  BY <1>2, <1>12 DEF NextState
<1>14. RxState = 1 => RxState' = IF pRxPacket = 2 THEN 2 ELSE 1
  BY <1>2, <1>9, <1>12 DEF NextState
<1>15. RxState = 2 => RxState' = IF n = 1 THEN 0 ELSE 2
  BY <1>2, <1>12 DEF NextState
<1>16. /\ RxState = 0 /\ n = 5 => pRxPacket' = 0
       /\ RxState = 1 => pRxPacket' = pRxPacket + 1
       /\ RxState = 2 => pRxPacket' = pRxPacket
       /\ pRxPacket' \in {0, pRxPacket} \/ RxState = 1
  BY <1>3, <1>12
<1>17. Seria2_RxPacket' = IF RxState = 1 THEN [Seria2_RxPacket EXCEPT ![pRxPacket] = b]
                                         ELSE Seria2_RxPacket
  BY <1>4 DEF Stored, Stores
<1>18. CameraTypeOK'
  <2>1. RxState' \in 0..2 /\ pRxPacket' \in 0..3 /\ (RxState' = 1 => pRxPacket' < 3)
    BY <1>9, <1>13, <1>14, <1>15, <1>16, <1>8
  <2>2. Seria2_RxPacket' \in [0..3 -> Cells]
    BY <1>8, <1>9, <1>17 DEF Cells
  <2>5. Seria2_RxPacket'[3] = NoByte
    <3>1. RxState = 1 => pRxPacket \in 0..2
      BY <1>9
    <3> QED BY <1>9, <1>17, <3>1
  <2>3. Seria2_RxFlag' \in {0, 1}
    BY <1>5 DEF CameraTypeOK
  <2>4. landed' \in Frames
    BY <1>6 DEF CameraTypeOK
  <2> QED BY <1>1, <1>7, <1>8, <2>1, <2>2, <2>3, <2>4, <2>5 DEF CameraTypeOK
<1>19. Resyncing'
  <2> SUFFICES ASSUME "whole" \in good PROVE Resyncing'
    BY <1>7 DEF Resyncing
  <2>1. /\ n = 4 => RxState # 0
        /\ n = 3 => RxState = 2 \/ (RxState = 1 /\ pRxPacket >= 1)
        /\ n = 2 => RxState = 2 \/ (RxState = 1 /\ pRxPacket = 2)
        /\ n = 1 => RxState = 2
    BY DEF Resyncing, n
  <2>2. /\ n - 1 = 4 => RxState' # 0
        /\ n - 1 = 3 => RxState' = 2 \/ (RxState' = 1 /\ pRxPacket' >= 1)
        /\ n - 1 = 2 => RxState' = 2 \/ (RxState' = 1 /\ pRxPacket' = 2)
        /\ n - 1 = 1 => RxState' = 2
        /\ n - 1 = 0 => RxState' = 0
    BY <1>8, <1>9, <1>13, <1>14, <1>15, <1>16, <2>1
  <2> QED BY <1>8, <2>2 DEF Resyncing
<1>20. Landing'
  <2> DEFINE W == {"whole", "at rest"} \subseteq good
             B2 == FrameBytes(sends)[2]
             B3 == FrameBytes(sends)[3]
             B4 == FrameBytes(sends)[4]
  <2> SUFFICES ASSUME W PROVE Landing'
    BY <1>7 DEF Landing
  <2>1. /\ n = 5 => RxState = 0
        /\ n \in 2..4 => RxState = 1 /\ pRxPacket = 4 - n
        /\ n <= 3 => Seria2_RxPacket[0] = B2
        /\ n <= 2 => Seria2_RxPacket[1] = B3
        /\ n <= 1 => Seria2_RxPacket[2] = B4
    BY DEF Landing, n
  <2>3. n = 1 => RxState = 2
    BY DEF Resyncing, n
  <2>0. /\ n = 4 => b = B2
        /\ n = 3 => b = B3
        /\ n = 2 => b = B4
    BY <1>10
  <2> HIDE DEF W, B2, B3, B4
  <2>2. /\ n = 4 => RxState = 1 /\ pRxPacket = 0
        /\ n = 3 => RxState = 1 /\ pRxPacket = 1
        /\ n = 2 => RxState = 1 /\ pRxPacket = 2
    BY <2>1, <1>9
  <2>4. n = 5 => RxState' = 1 /\ pRxPacket' = 0 /\ Seria2_RxPacket' = Seria2_RxPacket
    BY <1>13, <1>16, <1>17, <2>1
  <2>5. n \in 2..4 => Seria2_RxPacket' = [Seria2_RxPacket EXCEPT ![4 - n] = b]
    BY <1>17, <2>1
  <2>6. n = 4 => /\ RxState' = 1 /\ pRxPacket' = 1
                 /\ Seria2_RxPacket'[0] = B2
    BY <1>9, <2>0, <1>14, <1>16, <2>2, <2>5
  <2>7. n = 3 => /\ RxState' = 1 /\ pRxPacket' = 2
                 /\ Seria2_RxPacket'[0] = B2
                 /\ Seria2_RxPacket'[1] = B3
    BY <1>9, <2>0, <1>14, <1>16, <2>1, <2>2, <2>5
  <2>8. n = 2 => /\ Seria2_RxPacket'[0] = B2
                 /\ Seria2_RxPacket'[1] = B3
                 /\ Seria2_RxPacket'[2] = B4
    BY <1>9, <2>0, <2>1, <2>5
  <2>9. n = 1 => /\ Seria2_RxPacket'[0] = B2
                 /\ Seria2_RxPacket'[1] = B3
                 /\ Seria2_RxPacket'[2] = B4
    BY <1>17, <2>1, <2>3
  <2>10. /\ Len(wire') # 5
         /\ Len(wire') \in 2..4 => RxState' = 1 /\ pRxPacket' = 4 - Len(wire')
    BY <1>8, <2>4, <2>6, <2>7
  <2>11. Len(wire') <= 3 => Seria2_RxPacket'[0] = B2
    BY <1>8, <2>6, <2>7, <2>8, <2>9
  <2>12. Len(wire') <= 2 => Seria2_RxPacket'[1] = B3
    BY <1>8, <2>7, <2>8, <2>9
  <2>13. Len(wire') <= 1 => Seria2_RxPacket'[2] = B4
    BY <1>8, <2>8, <2>9
  <2> QED BY <1>1, <2>10, <2>11, <2>12, <2>13 DEF Landing, B2, B3, B4
<1>21. Lossless' /\ Copying'
  <2> SUFFICES ASSUME lost = 0 PROVE Lossless' /\ Copying'
    BY <1>7 DEF Lossless, Copying
  <2> DEFINE W == good = {"whole", "at rest"}
  <2>1. sends # 0 /\ W /\ landed = sends - 1
    <3>1. wire # <<>> => ~(wire = <<>>)
      OBVIOUS
    <3> QED BY <1>1 DEF Lossless
  <2>w. /\ n = 5 => RxState = 0
        /\ n \in 2..4 => RxState = 1 /\ pRxPacket = 4 - n
        /\ n = 1 => RxState = 2
    <3>1. {"whole", "at rest"} \subseteq good /\ "whole" \in good
      BY <2>1
    <3> QED BY <3>1 DEF Landing, Resyncing, n
  <2>x. landed' = IF n = 1 THEN sends ELSE landed
    BY <1>6, <2>1
  <2>y. n = 1 => /\ Seria2_RxPacket[0] = FrameBytes(sends)[2]
                 /\ Seria2_RxPacket[1] = FrameBytes(sends)[3]
    <3>1. {"whole", "at rest"} \subseteq good
      BY <2>1
    <3>2. /\ n <= 3 => Seria2_RxPacket[0] = FrameBytes(sends)[2]
          /\ n <= 2 => Seria2_RxPacket[1] = FrameBytes(sends)[3]
      BY <3>1, Zenon DEF Landing, n
    <3> QED BY <3>2
  <2> HIDE DEF W
  <2>s. sends \in Nat \ {0}
    BY <1>9, <2>1, CameraAssumption DEF Frames
  <2>2. landed' = IF wire' = <<>> THEN sends ELSE sends - 1
    <3>1. wire' = <<>> <=> n = 1
      BY <1>8, EmptySeq
    <3> QED BY <2>x, <2>1, <3>1
  <2>3. landed <= landed' /\ landed' \in Nat /\ landed \in Nat
    BY <2>1, <2>s, <2>x
  <2>4. /\ n = 4 => RxState = 1 /\ pRxPacket = 0
        /\ n = 3 => RxState = 1 /\ pRxPacket = 1
        /\ n = 2 => RxState = 1 /\ pRxPacket = 2
    BY <1>8, <1>9, <2>w
  <2>5. /\ n \in {1, 5} => Seria2_RxPacket' = Seria2_RxPacket
        /\ n = 4 => Seria2_RxPacket'[0] = b /\ Seria2_RxPacket'[1] = Seria2_RxPacket[1]
        /\ n = 3 => Seria2_RxPacket'[0] = Seria2_RxPacket[0] /\ Seria2_RxPacket'[1] = b
        /\ n = 2 => /\ Seria2_RxPacket'[0] = Seria2_RxPacket[0]
                    /\ Seria2_RxPacket'[1] = Seria2_RxPacket[1]
    <3>1. n \in {1, 5} => Seria2_RxPacket' = Seria2_RxPacket
      BY <1>17, <2>w
    <3>2. n = 4 => Seria2_RxPacket' = [Seria2_RxPacket EXCEPT ![0] = b]
      BY <1>17, <2>4
    <3>3. n = 3 => Seria2_RxPacket' = [Seria2_RxPacket EXCEPT ![1] = b]
      BY <1>17, <2>4
    <3>4. n = 2 => Seria2_RxPacket' = [Seria2_RxPacket EXCEPT ![2] = b]
      BY <1>17, <2>4
    <3> QED BY <1>9, <3>1, <3>2, <3>3, <3>4
  <2>6. landed > 0 =>
           /\ Seria2_RxPacket[0].kind = "x" /\ Seria2_RxPacket[1].kind = "y"
           /\ Seria2_RxPacket[0].of = IF n <= 3 THEN sends ELSE sends - 1
           /\ Seria2_RxPacket[1].of = IF n <= 2 THEN sends ELSE sends - 1
    BY DEF Lossless, n
  <2>7. Seria2_RxFlag' = 1 \/ pc' # "look" => landed' > 0
    <3>1. Seria2_RxFlag = 1 \/ pc # "look" => landed > 0
      BY DEF Lossless
    <3>2. Seria2_RxFlag' = 1 => Seria2_RxFlag = 1 \/ n = 1
      BY <1>5, <1>12
    <3> QED BY <1>7, <2>1, <2>3, <2>s, <2>x, <3>1, <3>2
  <2>8. landed' > 0 =>
           /\ Seria2_RxPacket'[0].kind = "x" /\ Seria2_RxPacket'[1].kind = "y"
           /\ Seria2_RxPacket'[0].of = IF n - 1 <= 3 THEN sends ELSE sends - 1
           /\ Seria2_RxPacket'[1].of = IF n - 1 <= 2 THEN sends ELSE sends - 1
    <3>1. n = 1 => /\ Seria2_RxPacket[0].kind = "x" /\ Seria2_RxPacket[1].kind = "y"
                   /\ Seria2_RxPacket[0].of = sends /\ Seria2_RxPacket[1].of = sends
      <4>1. /\ FrameBytes(sends)[2].kind = "x" /\ FrameBytes(sends)[2].of = sends
            /\ FrameBytes(sends)[3].kind = "y" /\ FrameBytes(sends)[3].of = sends
        <5>1. sends \in Frames
          BY <1>9
        <5> QED BY <5>1, FrameShape, Zenon
      <4> QED BY <2>y, <4>1, Zenon
    <3>2. n # 1 => landed' = landed
      BY <2>x
    <3>3. CASE n \in {1, 5}
      BY <2>5, <2>6, <3>1, <3>2, <3>3
    <3>4. CASE n = 4
      BY <1>10, <2>5, <2>6, <3>2, <3>4
    <3>5. CASE n = 3
      BY <1>10, <2>5, <2>6, <3>2, <3>5
    <3>6. CASE n = 2
      BY <2>5, <2>6, <3>2, <3>6
    <3> QED BY <1>8, <3>3, <3>4, <3>5, <3>6
  <2>9. due' <= landed'
    <3>1. due <= landed
      BY DEF Lossless
    <3>2. due \in Nat
      <4>1. due \in Frames
        BY DEF CameraTypeOK
      <4> QED BY <4>1, CameraAssumption DEF Frames
    <3> QED BY <1>7, <2>3, <3>1, <3>2
  <2>10. Lossless'
    <3>1. /\ IF sends' = 0 THEN wire' = <<>> /\ RxState' = 0 ELSE good' = {"whole", "at rest"}
          /\ landed' = IF wire' = <<>> THEN sends' ELSE sends' - 1
      BY <1>1, <1>7, <2>1, <2>2 DEF W
    <3> QED BY <1>1, <1>8, <2>7, <2>8, <2>9, <3>1, Zenon DEF Lossless
  <2>11. Copying'
    <3>1. pc = "y" /\ x.of <= Seria2_RxPacket[1].of + 1 => x.of <= Seria2_RxPacket'[1].of + 1
      <4>1. pc = "y" => landed > 0
        BY DEF Lossless
      <4>2. landed > 0 => landed' > 0
        BY <2>3
      <4>3. x.of \in Nat
        BY CellOf DEF CameraTypeOK
      <4> QED BY <1>8, <2>6, <2>8, <2>s, <4>1, <4>2, <4>3
    <3> QED BY <1>1, <1>7, <3>1, Zenon DEF Copying
  <2> QED BY <2>10, <2>11
<1> QED BY <1>8, <1>18, <1>19, <1>20, <1>21 DEF CameraIInv

(* What the reader finds in the packet while no byte was lost. *)
LEMMA Packet ==
    ASSUME CameraTypeOK, WireOK, Lossless, lost = 0, landed > 0
    PROVE  /\ Seria2_RxPacket[0].kind = "x" /\ Seria2_RxPacket[1].kind = "y"
           /\ Seria2_RxPacket[0].of >= due /\ Seria2_RxPacket[1].of >= due
           /\ Seria2_RxPacket[0].of <= Seria2_RxPacket[1].of + 1
           /\ sends <= Seria2_RxPacket[0].of + 1 /\ Seria2_RxPacket[1].of <= sends
           /\ sends \in Nat
<1>1. /\ Seria2_RxPacket[0].kind = "x" /\ Seria2_RxPacket[1].kind = "y"
      /\ Seria2_RxPacket[0].of = IF Len(wire) <= 3 THEN sends ELSE sends - 1
      /\ Seria2_RxPacket[1].of = IF Len(wire) <= 2 THEN sends ELSE sends - 1
  BY DEF Lossless
<1>2. due <= landed /\ landed = IF wire = <<>> THEN sends ELSE sends - 1
  BY DEF Lossless
<1>3. wire = <<>> => Len(wire) = 0
  OBVIOUS
<1>4. due \in Frames /\ sends \in Frames /\ Len(wire) \in 0..5
  BY DEF CameraTypeOK, WireOK
<1>5. due \in Nat /\ sends \in Nat
  BY <1>4, CameraAssumption DEF Frames
<1> QED BY <1>1, <1>2, <1>3, <1>4, <1>5

LEMMA ReadStep == CameraIInv /\ Openmv_read => CameraIInv'
<1> SUFFICES ASSUME CameraTypeOK, WireOK, Resyncing, Landing, Lossless, Copying, Openmv_read
             PROVE  CameraIInv'
  BY DEF CameraIInv
<1>1. /\ scene' = scene /\ wire' = wire /\ sends' = sends
      /\ lost' = lost /\ good' = good /\ landed' = landed
      /\ RxState' = RxState /\ pRxPacket' = pRxPacket /\ Seria2_RxPacket' = Seria2_RxPacket
  BY DEF Openmv_read, Look, ClearFlag, CopyX, CopyY, CopyStatus, Track, cameraVars, rxVars
<1>2. WireOK' /\ Resyncing' /\ Landing'
  BY <1>1 DEF WireOK, Resyncing, Landing
<1>3. \A i \in 0..3 : Seria2_RxPacket[i] \in Cells
  BY DEF CameraTypeOK
<1>4. CameraTypeOK'
  <2>1. /\ pc' \in {"look", "clear", "x", "y", "status", "track"} /\ Seria2_RxFlag' \in {0, 1}
        /\ x' \in Cells /\ y' \in Cells /\ Face_status' = NoByte
        /\ tracked' \in Cells \X Cells /\ due' \in Frames /\ begun' \in Nat
    <3>0. /\ Seria2_RxFlag \in {0, 1} /\ x \in Cells /\ y \in Cells /\ Face_status = NoByte
          /\ tracked \in Cells \X Cells /\ due \in Frames /\ landed \in Frames
          /\ NoByte \in Cells /\ begun \in Nat /\ Seria2_RxPacket[3] = NoByte
      BY DEF CameraTypeOK, Cells
    <3>1. CASE Look \/ ClearFlag
      BY <3>0, <3>1 DEF Look, ClearFlag, cameraVars
    <3>2. CASE CopyX
      BY <1>3, <3>0, <3>2 DEF CopyX
    <3>3. CASE CopyY
      BY <1>3, <3>0, <3>3 DEF CopyY, cameraVars
    <3>4. CASE CopyStatus
      BY <3>0, <3>4 DEF CopyStatus, cameraVars
    <3>5. CASE Track
      BY <3>0, <3>5 DEF Track, cameraVars
    <3> QED BY <3>1, <3>2, <3>3, <3>4, <3>5 DEF Openmv_read
  <2> QED BY <1>1, <2>1 DEF CameraTypeOK
<1>5. ASSUME lost = 0 PROVE Lossless' /\ Copying'
  <2>1. landed > 0 =>
           /\ Seria2_RxPacket[0].kind = "x" /\ Seria2_RxPacket[1].kind = "y"
           /\ Seria2_RxPacket[0].of >= due /\ Seria2_RxPacket[1].of >= due
           /\ Seria2_RxPacket[0].of <= Seria2_RxPacket[1].of + 1
           /\ sends <= Seria2_RxPacket[0].of + 1 /\ Seria2_RxPacket[1].of <= sends
    BY <1>5, Packet
  <2>2. Seria2_RxFlag = 1 \/ pc # "look" => landed > 0
    BY <1>5 DEF Lossless
  <2>3. due <= landed /\ landed <= landed
    <3>1. landed \in Frames /\ due \in Frames
      BY DEF CameraTypeOK
    <3>2. landed \in Nat /\ due \in Nat
      BY <3>1, CameraAssumption DEF Frames
    <3>3. due <= landed
      BY <1>5 DEF Lossless
    <3> QED BY <3>2, <3>3
  <2>4. (Seria2_RxFlag' = 1 \/ pc' # "look" => landed' > 0) /\ due' <= landed'
    <3>1. CASE Look
      BY <1>1, <2>2, <2>3, <3>1 DEF Look
    <3>3. CASE ClearFlag
      BY <1>1, <2>2, <2>3, <3>3 DEF ClearFlag
    <3>2. CASE CopyX \/ CopyY \/ CopyStatus \/ Track
      <4>1. Seria2_RxFlag' = Seria2_RxFlag /\ pc # "look" /\ due' = due
        BY <3>2 DEF CopyX, CopyY, CopyStatus, Track
      <4> QED BY <1>1, <2>2, <2>3, <4>1
    <3> QED BY <3>1, <3>2, <3>3 DEF Openmv_read
  <2>5. Lossless'
    BY <1>1, <1>5, <2>4 DEF Lossless
  <2>6. Copying'
    <3>1. CASE Look \/ ClearFlag \/ Track
      <4>1. pc' \notin {"y", "status", "track"}
        BY <3>1 DEF Look, ClearFlag, Track
      <4> QED BY <4>1 DEF Copying
    <3>2. CASE CopyX
      <4>1. /\ pc' = "y" /\ x' = Seria2_RxPacket[0] /\ due' = due /\ landed > 0 /\ begun' = 0
        BY <2>2, <3>2 DEF CopyX
      <4>2. Seria2_RxPacket[0].of \in Nat
        BY <1>3, CellOf
      <4>3. sends' <= x'.of + 1 + begun'
        BY <1>1, <2>1, <4>1, <4>2
      <4> QED BY <1>1, <2>1, <4>1, <4>3 DEF Copying
    <3>3. CASE CopyY
      <4>1. /\ pc = "y" /\ pc' = "status" /\ x' = x /\ y' = Seria2_RxPacket[1]
            /\ due' = due /\ landed > 0 /\ begun' = begun
        BY <2>2, <3>3 DEF CopyY, cameraVars
      <4>2. /\ x.kind = "x" /\ x.of >= due /\ x.of <= Seria2_RxPacket[1].of + 1
            /\ sends <= x.of + 1 + begun
        BY <1>5, <4>1 DEF Copying
      <4>3. /\ sends \in Nat /\ begun \in Nat /\ x.of \in Nat /\ Seria2_RxPacket[1].of \in Nat
        <5>1. sends \in Nat
          BY <1>5, <4>1, Packet
        <5>2. begun \in Nat /\ x \in Cells
          BY DEF CameraTypeOK
        <5> QED BY <1>3, <5>1, <5>2, CellOf
      <4>4. y'.of <= x'.of + 1 + begun'
        BY <2>1, <4>1, <4>2, <4>3
      <4> QED BY <1>1, <2>1, <4>1, <4>2, <4>4 DEF Copying
    <3>4. CASE CopyStatus
      <4>1. /\ pc = "status" /\ pc' = "track" /\ x' = x /\ y' = y /\ due' = due
            /\ begun' = begun
        BY <3>4 DEF CopyStatus, cameraVars
      <4>2. /\ x.kind = "x" /\ x.of >= due
            /\ y.kind = "y" /\ y.of >= due /\ x.of <= y.of + 1 /\ y.of <= x.of + 1 + begun
        BY <1>5, <4>1 DEF Copying
      <4> QED BY <4>1, <4>2 DEF Copying
    <3> QED BY <3>1, <3>2, <3>3, <3>4 DEF Openmv_read
  <2> QED BY <2>5, <2>6
<1> QED BY <1>1, <1>2, <1>4, <1>5 DEF CameraIInv, Lossless, Copying

-------------------------------------------------------------------------------
LEMMA CameraInductive == CameraIInv /\ [CameraNext]_linkVars => CameraIInv'
<1> SUFFICES ASSUME CameraIInv, [CameraNext]_linkVars PROVE CameraIInv'
  OBVIOUS
<1>1. CASE UNCHANGED linkVars
  <2>1. /\ scene' = scene /\ wire' = wire /\ sends' = sends
        /\ lost' = lost /\ good' = good /\ landed' = landed
        /\ RxState' = RxState /\ pRxPacket' = pRxPacket /\ Seria2_RxPacket' = Seria2_RxPacket
        /\ pc' = pc /\ x' = x /\ y' = y /\ Face_status' = Face_status /\ tracked' = tracked
        /\ due' = due /\ Seria2_RxFlag' = Seria2_RxFlag /\ begun' = begun
    BY <1>1 DEF linkVars, cameraVars, rxVars, readVars
  <2>2. CameraTypeOK' /\ WireOK'
    BY <2>1 DEF CameraIInv, CameraTypeOK, WireOK
  <2>3. Resyncing' /\ Landing'
    BY <2>1 DEF CameraIInv, Resyncing, Landing
  <2>4. Lossless' /\ Copying'
    BY <2>1 DEF CameraIInv, Lossless, Copying
  <2> QED BY <2>2, <2>3, <2>4 DEF CameraIInv
<1> QED BY <1>1, DetectStep, LoseStep, ReceiveStep, ReadStep DEF CameraNext

LEMMA CameraInvariant == CameraSpec => []CameraIInv
  BY CameraInitial, CameraInductive, PTL DEF CameraSpec

(* The types hold, whatever is lost: the handler stores inside the packet, never
   in the cell Face_status is copied from, and the index stays below its end (main.c:235-265). *)
THEOREM CameraTypes == CameraSpec => []CameraTypeOK
<1>1. CameraIInv => CameraTypeOK
  BY DEF CameraIInv
<1> QED BY <1>1, CameraInvariant, PTL

(* For any number of frames and any losses, a whole frame brings the parser to
   rest, and one that finds it at rest stands in the packet (main.c:244-262). *)
THEOREM FramesLand == CameraSpec => []FrameInPacket
<1>1. CameraIInv => FrameInPacket
  <2> SUFFICES ASSUME CameraTypeOK, Resyncing, Landing, wire = <<>>, "whole" \in good
               PROVE  /\ RxState = 0
                      /\ "at rest" \in good =>
                          \A i \in 0..2 : Seria2_RxPacket[i]
                                          = [kind |-> <<"x", "y", "z">>[i + 1], of |-> sends]
    BY DEF CameraIInv, FrameInPacket
  <2>1. Len(wire) = 0
    OBVIOUS
  <2>2. RxState = 0
    BY <2>1 DEF Resyncing
  <2>3. ASSUME "at rest" \in good
        PROVE  /\ Seria2_RxPacket[0] = FrameBytes(sends)[2]
               /\ Seria2_RxPacket[1] = FrameBytes(sends)[3]
               /\ Seria2_RxPacket[2] = FrameBytes(sends)[4]
    <3>1. {"whole", "at rest"} \subseteq good
      BY <2>3
    <3>2. Len(wire) <= 3 /\ Len(wire) <= 2 /\ Len(wire) <= 1
      BY <2>1
    <3> QED BY <3>1, <3>2, Zenon DEF Landing
  <2>4. ASSUME "at rest" \in good, NEW i \in 0..2
        PROVE  Seria2_RxPacket[i] = [kind |-> <<"x", "y", "z">>[i + 1], of |-> sends]
    <3>1. sends \in Frames
      BY DEF CameraTypeOK
    <3>2. /\ FrameBytes(sends)[2] = [kind |-> "x", of |-> sends]
          /\ FrameBytes(sends)[3] = [kind |-> "y", of |-> sends]
          /\ FrameBytes(sends)[4] = [kind |-> "z", of |-> sends]
      BY <3>1, FrameShape, Zenon
    <3>3. /\ <<"x", "y", "z">>[0 + 1] = "x" /\ <<"x", "y", "z">>[1 + 1] = "y"
          /\ <<"x", "y", "z">>[2 + 1] = "z"
      OBVIOUS
    <3>4. i = 0 \/ i = 1 \/ i = 2
      OBVIOUS
    <3> QED BY <2>3, <2>4, <3>2, <3>3, <3>4, Zenon
  <2> QED BY <2>2, <2>4
<1> QED BY <1>1, CameraInvariant, PTL

(* While no byte is lost, the point given to the servos is not older than the
   frame that was flagged; x is at most one frame ahead of y, and y ahead of x by
   at most one frame and those the camera began between the two copies, however
   the interrupts fall into them (main.c:187-192, 249-256). *)
THEOREM PointsAreCurrent == CameraSpec => []PointIsCurrent
<1>1. CameraIInv => PointIsCurrent
  BY DEF CameraIInv, Copying, PointIsCurrent
<1> QED BY <1>1, CameraInvariant, PTL

-------------------------------------------------------------------------------
(* The x of the frames goes forward from cell to cell, lost bytes or not: from the
   wire into the packet, into the copy, to the servos. *)
Forward ==
    /\ landed <= Seria2_RxPacket[0].of /\ Seria2_RxPacket[0].of <= sends
    /\ tracked[1].of <= Seria2_RxPacket[0].of
    /\ pc \in {"y", "status", "track"} =>
         tracked[1].of <= x.of /\ x.of <= Seria2_RxPacket[0].of

FollowIInv == CameraIInv /\ Forward /\ NoFrameForgotten

LEMMA FollowTyped ==
    ASSUME CameraTypeOK
    PROVE  /\ landed \in Nat /\ sends \in Nat /\ sends \in Frames
           /\ Seria2_RxPacket[0] \in Cells /\ Seria2_RxPacket[0].of \in Nat
           /\ x.of \in Nat /\ tracked[1].of \in Nat
<1>1. /\ Seria2_RxPacket \in [0..3 -> Cells] /\ x \in Cells
      /\ tracked \in Cells \X Cells /\ landed \in Frames /\ sends \in Frames
  BY DEF CameraTypeOK
<1>2. Seria2_RxPacket[0] \in Cells /\ tracked[1] \in Cells
  BY <1>1
<1>3. landed \in Nat /\ sends \in Nat
  BY <1>1, CameraAssumption DEF Frames
<1> QED BY <1>1, <1>2, <1>3, CellOf

LEMMA FollowInitial == CameraInit => FollowIInv
<1> SUFFICES ASSUME CameraInit PROVE Forward /\ NoFrameForgotten
  BY CameraInitial DEF FollowIInv
<1>1. /\ Seria2_RxPacket[0].of = 0 /\ landed = 0 /\ sends = 0 /\ tracked[1].of = 0
      /\ pc = "look"
  BY DEF CameraInit, NoByte
<1> QED BY <1>1 DEF Forward, NoFrameForgotten

(* The interrupt: what it stores is of the frame on the wire, and the byte that
   completes a landing raises the flag. *)
LEMMA ReceiveFollows ==
    ASSUME FollowIInv, ReceiveByte
    PROVE  Forward' /\ NoFrameForgotten' /\ tracked' = tracked
<1> DEFINE b == Head(wire)
           n == Len(wire)
<1>1. CameraTypeOK /\ WireOK /\ Resyncing /\ Landing /\ Forward /\ NoFrameForgotten
  BY DEF FollowIInv, CameraIInv
<1>2. /\ wire # <<>> /\ wire' = Tail(wire) /\ sends' = sends
      /\ Seria2_RxPacket' = Stored(b)
      /\ Seria2_RxFlag' = IF Closes(b) THEN 1 ELSE Seria2_RxFlag
      /\ landed' = IF {"whole", "at rest"} \subseteq good /\ n = 1 THEN sends ELSE landed
      /\ pc' = pc /\ x' = x /\ tracked' = tracked
  BY DEF ReceiveByte, readVars
<1>3. n \in 1..5 /\ b = FrameBytes(sends)[6 - n]
  BY <1>1, <1>2, HeadByte
<1>a. n = 1 => RxState = 2 \/ "whole" \notin good
  BY <1>1 DEF Resyncing
<1>b. {"whole", "at rest"} \subseteq good /\ n <= 3 => Seria2_RxPacket[0] = FrameBytes(sends)[2]
  BY <1>1, Zenon DEF Landing
<1>c. Stored(b) = IF RxState = 1 THEN [Seria2_RxPacket EXCEPT ![pRxPacket] = b] ELSE Seria2_RxPacket
  BY DEF Stored, Stores
<1>d. Closes(b) <=> RxState = 2 /\ b.kind = "F4"
  BY DEF Closes
<1>e. Seria2_RxPacket \in [0..3 -> Cells]
  BY <1>1 DEF CameraTypeOK
<1> HIDE DEF b, n
<1>f. {"whole", "at rest"} \subseteq good => "whole" \in good
  OBVIOUS
<1>4. b.of = sends
  <2>1. 6 - n \in 1..5
    BY <1>3
  <2> QED BY <1>1, <1>3, <2>1, FollowTyped DEF FrameBytes
<1>5. Seria2_RxPacket'[0] = Seria2_RxPacket[0] \/ Seria2_RxPacket'[0] = b
  <2>1. Seria2_RxPacket' = IF RxState = 1 THEN [Seria2_RxPacket EXCEPT ![pRxPacket] = b]
                                          ELSE Seria2_RxPacket
    BY <1>2, <1>c, Zenon
  <2> QED BY <1>e, <2>1
<1>6. /\ Seria2_RxPacket'[0].of >= Seria2_RxPacket[0].of /\ Seria2_RxPacket'[0].of <= sends
      /\ Seria2_RxPacket'[0].of \in Nat
  BY <1>1, <1>4, <1>5, FollowTyped DEF Forward
<1>7. CASE {"whole", "at rest"} \subseteq good /\ n = 1
  <2>1. RxState = 2
    BY <1>a, <1>f, <1>7, Zenon
  <2>2. b.kind = "F4" /\ Seria2_RxPacket[0].of = sends
    <3>0. n = 1
      BY <1>7, Zenon
    <3>1. n <= 3
      BY <3>0
    <3>2. Seria2_RxPacket[0] = FrameBytes(sends)[2]
      BY <1>b, <1>7, <3>1, Zenon
    <3>3. b = FrameBytes(sends)[5]
      BY <1>3, <3>0
    <3>4. sends \in Frames
      BY <1>1, FollowTyped
    <3>5. FrameBytes(sends)[5].kind = "F4" /\ FrameBytes(sends)[2].of = sends
      BY <3>4, FrameShape
    <3> QED BY <3>2, <3>3, <3>5, Zenon
  <2>3. Seria2_RxFlag' = 1 /\ landed' = sends
    BY <1>2, <1>d, <1>7, <2>1, <2>2
  <2>4. Seria2_RxPacket'[0].of = sends
    BY <1>1, <1>6, <2>2, FollowTyped
  <2>5. Forward'
    <3>1. sends' = sends /\ pc' = pc /\ x' = x /\ tracked' = tracked
      BY <1>2, Zenon
    <3>2. sends \in Nat /\ landed' = sends /\ Seria2_RxPacket[0].of = sends
      BY <1>1, <2>2, <2>3, FollowTyped
    <3>3. /\ tracked[1].of <= sends
          /\ pc \in {"y", "status", "track"} => tracked[1].of <= x.of /\ x.of <= sends
      BY <1>1, <3>2 DEF Forward
    <3>4. landed' <= Seria2_RxPacket'[0].of /\ Seria2_RxPacket'[0].of <= sends'
      BY <2>4, <3>1, <3>2
    <3>5. tracked'[1].of <= Seria2_RxPacket'[0].of
      BY <2>4, <3>1, <3>3
    <3>6. pc' \in {"y", "status", "track"} =>
            tracked'[1].of <= x'.of /\ x'.of <= Seria2_RxPacket'[0].of
      BY <2>4, <3>1, <3>3
    <3> QED BY <3>4, <3>5, <3>6 DEF Forward
  <2> QED BY <1>2, <2>3, <2>5 DEF NoFrameForgotten
<1>8. CASE ~({"whole", "at rest"} \subseteq good /\ n = 1)
  <2>1. landed' = landed
    BY <1>2, <1>8
  <2>2. Forward'
    <3>1. sends' = sends /\ pc' = pc /\ x' = x /\ tracked' = tracked
      BY <1>2, Zenon
    <3>2. landed' <= Seria2_RxPacket'[0].of /\ Seria2_RxPacket'[0].of <= sends'
      BY <1>1, <1>6, <2>1, <3>1, FollowTyped DEF Forward
    <3>3. tracked'[1].of <= Seria2_RxPacket'[0].of
      BY <1>1, <1>6, <3>1, FollowTyped DEF Forward
    <3>4. pc' \in {"y", "status", "track"} =>
            tracked'[1].of <= x'.of /\ x'.of <= Seria2_RxPacket'[0].of
      BY <1>1, <1>6, <3>1, FollowTyped DEF Forward
    <3> QED BY <3>2, <3>3, <3>4 DEF Forward
  <2>3. NoFrameForgotten'
    BY <1>1, <1>2, <2>1 DEF NoFrameForgotten
  <2> QED BY <1>2, <2>2, <2>3
<1> QED BY <1>7, <1>8

(* The reader: the flag is cleared before x is copied. *)
LEMMA ReadFollows ==
    ASSUME FollowIInv, Openmv_read
    PROVE  Forward' /\ NoFrameForgotten' /\ tracked'[1].of >= tracked[1].of
<1>1. CameraTypeOK /\ Forward /\ NoFrameForgotten
  BY DEF FollowIInv, CameraIInv
<1>2. landed' = landed /\ sends' = sends /\ Seria2_RxPacket' = Seria2_RxPacket
  BY DEF Openmv_read, Look, ClearFlag, CopyX, CopyY, CopyStatus, Track, cameraVars, rxVars
<1>3. CASE Look \/ ClearFlag
  <2>1. /\ pc' = "x" \/ (pc' = "clear" /\ Seria2_RxFlag' = 1)
        /\ tracked' = tracked
    BY <1>3 DEF Look, ClearFlag
  <2> QED BY <1>1, <1>2, <2>1, FollowTyped DEF Forward, NoFrameForgotten
<1>4. CASE CopyX
  <2>1. pc' = "y" /\ x' = Seria2_RxPacket[0] /\ tracked' = tracked
    BY <1>4 DEF CopyX
  <2> QED BY <1>1, <1>2, <2>1, FollowTyped DEF Forward, NoFrameForgotten
<1>5. CASE CopyY \/ CopyStatus
  <2>1. /\ pc \in {"y", "status"} /\ pc' \in {"status", "track"} /\ x' = x
        /\ tracked' = tracked /\ Seria2_RxFlag' = Seria2_RxFlag
    BY <1>5 DEF CopyY, CopyStatus
  <2> QED BY <1>1, <1>2, <2>1, FollowTyped DEF Forward, NoFrameForgotten
<1>6. CASE Track
  <2>1. /\ pc = "track" /\ pc' = "look" /\ tracked'[1] = x
        /\ Seria2_RxFlag' = Seria2_RxFlag
    BY <1>6 DEF Track
  <2>2. Forward' /\ tracked'[1].of >= tracked[1].of
    BY <1>1, <1>2, <2>1, FollowTyped DEF Forward
  <2>3. NoFrameForgotten'
    BY <1>1, <1>2, <2>1, FollowTyped DEF Forward, NoFrameForgotten
  <2> QED BY <2>2, <2>3
<1> QED BY <1>3, <1>4, <1>5, <1>6 DEF Openmv_read

LEMMA FollowStep ==
    FollowIInv /\ [CameraNext]_linkVars => FollowIInv' /\ tracked'[1].of >= tracked[1].of
<1> SUFFICES ASSUME FollowIInv, [CameraNext]_linkVars
             PROVE  FollowIInv' /\ tracked'[1].of >= tracked[1].of
  OBVIOUS
<1>1. CameraIInv' /\ CameraTypeOK
  BY CameraInductive DEF FollowIInv, CameraIInv
<1>2. CASE ReceiveByte
  BY <1>1, <1>2, ReceiveFollows, FollowTyped DEF FollowIInv
<1>3. CASE Openmv_read
  BY <1>1, <1>3, ReadFollows DEF FollowIInv
<1>4. CASE Detect \/ LoseByte \/ UNCHANGED linkVars
  <2>1. /\ landed' = landed /\ Seria2_RxPacket' = Seria2_RxPacket /\ tracked' = tracked
        /\ Seria2_RxFlag' = Seria2_RxFlag /\ pc' = pc /\ x' = x
        /\ sends' = sends \/ sends' = sends + 1
    BY <1>4 DEF Detect, LoseByte, linkVars, cameraVars, rxVars, readVars
  <2>2. Seria2_RxPacket[0].of <= sends'
    BY <1>1, <2>1, FollowTyped DEF FollowIInv, Forward
  <2>3. Forward' /\ NoFrameForgotten'
    BY <2>1, <2>2 DEF FollowIInv, Forward, NoFrameForgotten
  <2> QED BY <1>1, <2>1, <2>3, FollowTyped DEF FollowIInv
<1> QED BY <1>2, <1>3, <1>4 DEF CameraNext

LEMMA FollowInvariant == CameraSpec => []FollowIInv
<1>1. FollowIInv /\ [CameraNext]_linkVars => FollowIInv'
  BY FollowStep
<1> QED BY <1>1, FollowInitial, PTL DEF CameraSpec

(* No frame that landed is forgotten, for all scenes, any number of frames and
   any losses: with the face thread coming back to Openmv_read, each is followed
   (main.c:187-192, 261). *)
THEOREM FramesAreKept == CameraSpec => []NoFrameForgotten
<1>1. FollowIInv => NoFrameForgotten
  BY DEF FollowIInv
<1> QED BY <1>1, FollowInvariant, PTL

(* The x the servos get never falls back to an earlier frame, and none is newer
   than the frame the camera sent last, whatever is lost and wherever the
   interrupt falls into the copy (main.c:187-203, 249-256). *)
THEOREM PointsGoForward ==
    CameraSpec => /\ [](tracked[1].of <= sends)
                  /\ [][tracked'[1].of >= tracked[1].of]_linkVars
<1>1. FollowIInv => tracked[1].of <= sends
  BY FollowTyped DEF FollowIInv, CameraIInv, Forward
<1>2. FollowIInv /\ [CameraNext]_linkVars => [tracked'[1].of >= tracked[1].of]_linkVars
  BY FollowStep
<1> QED BY <1>1, <1>2, FollowInvariant, PTL DEF CameraSpec
===============================================================================
