----------------------------- MODULE LoraRxProofs -----------------------------
(***************************************************************************)
(* The LoRa receiver, for all texts, array sizes and index widths and for  *)
(* any number of broken frames in a row.                                   *)
(***************************************************************************)
EXTENDS LoraRx, Integers, TLAPS

Other(k) == IF k = "str_m" THEN "str_n" ELSE "str_m"

(* Bytes of the frame in the air still to be stored. *)
Left == IF Over THEN 0 ELSE Len(Full(frame)) - gone - 1

(* An 0xff leaves no parser inside a frame, and the last byte of an unbroken
   frame is one. *)
EndsClose == last = END => \A k \in Parsers : ~action[k]
LastIsByte == ~hurt /\ gone > 0 => last = Full(frame)[gone]

(* A parser inside a frame was opened at most broken frames ago, each of which
   lost at least its 0xff. *)
RoomLeft ==
    \A k \in Parsers :
        action[k] /\ broken < MAX_BROKEN =>
            pRxPacket[k] + Left < (broken + 1) * (MAX_TEXT + 1)

(* How far an unbroken frame after an 0xff has come. *)
Landing ==
    synced /\ ~hurt =>
        /\ ~touched /\ ~action[Other(frame.to)]
        /\ action[frame.to] <=> gone > 0 /\ ~Over
        /\ gone > 0 /\ ~Over =>
             /\ pRxPacket[frame.to] = gone - 1
             /\ \A i \in 1..(gone - 1) : str[frame.to][i - 1] = frame.text[i]
        /\ Over => Holds(frame.to, frame.text)

LoraIInv ==
    /\ LoraTypeOK
    /\ EndsClose /\ LastIsByte
    /\ RoomLeft /\ Landing

-------------------------------------------------------------------------------
(* The bytes of a frame. *)
LEMMA FullShape ==
    ASSUME NEW f \in Frames
    PROVE  /\ Len(f.text) \in 0..MAX_TEXT
           /\ Full(f) \in Seq(Bytes) /\ Len(Full(f)) = Len(f.text) + 2
           /\ Full(f)[1] = Begin[f.to] /\ Full(f)[Len(f.text) + 2] = END
           /\ \A i \in 2..(Len(f.text) + 1) :
                Full(f)[i] = f.text[i - 1] /\ Full(f)[i] \in Data
<1> DEFINE text == f.text
           b == Begin[f.to]
<1>1. text \in Seq(Data) /\ Len(text) \in 0..MAX_TEXT
  BY LoraAssumption DEF Frames
<1>2. b \in {"fa", "fe"}
  BY DEF Frames, Begin, Parsers
<1>3. Full(f) = <<b>> \o text \o <<END>>
  BY DEF Full
<1>4. b \in Bytes /\ END \in Bytes /\ Data \subseteq Bytes
  BY <1>2 DEF Bytes
<1>5. text \in Seq(Bytes) /\ <<b>> \in Seq(Bytes) /\ <<END>> \in Seq(Bytes)
  BY <1>1, <1>4
<1> HIDE DEF text, b
<1>6. <<b>> \o text \in Seq(Bytes) /\ Len(<<b>> \o text) = Len(text) + 1
  BY <1>5
<1>7. /\ (<<b>> \o text)[1] = b
      /\ \A i \in 2..(Len(text) + 1) : (<<b>> \o text)[i] = text[i - 1]
  BY <1>1
<1>8. Full(f) \in Seq(Bytes) /\ Len(Full(f)) = Len(text) + 2
  BY <1>3, <1>5, <1>6
<1>9. /\ Full(f)[1] = b /\ Full(f)[Len(text) + 2] = END
      /\ \A i \in 2..(Len(text) + 1) : Full(f)[i] = text[i - 1]
  BY <1>1, <1>3, <1>5, <1>6, <1>7
<1>10. \A i \in 2..(Len(text) + 1) : text[i - 1] \in Data
  BY <1>1
<1> QED BY <1>1, <1>8, <1>9, <1>10 DEF text, b

LEMMA Marks == /\ END \notin {"fa", "fe"} /\ END \notin Data
               /\ \A k \in Parsers : Begin[k] \in {"fa", "fe"} /\ Begin[k] \notin Data
               /\ \A j, k \in Parsers : Begin[j] = Begin[k] => j = k
               /\ Parsers = {"str_m", "str_n"}
BY LoraAssumption DEF END, Begin, Parsers

LEMMA RoomGrows ==
    ASSUME NEW h \in Nat
    PROVE  /\ (h + 1) * (MAX_TEXT + 1) \in Nat
           /\ (h + 2) * (MAX_TEXT + 1) = (h + 1) * (MAX_TEXT + 1) + MAX_TEXT + 1
           /\ (h + 1) * (MAX_TEXT + 1) >= MAX_TEXT + 1
BY LoraAssumption

-------------------------------------------------------------------------------
LEMMA LoraInitial == LoraInit => LoraIInv
<1> SUFFICES ASSUME LoraInit PROVE LoraIInv
  OBVIOUS
<1>1. \A k \in Parsers : ~action[k]
  BY DEF LoraInit
<1>2. ~hurt /\ ~synced /\ last = END /\ Over
  BY Zenon DEF LoraInit
<1>3. frame \in Frames /\ gone \in 0..Len(Full(frame)) /\ Full(frame)[gone] = END
  BY FullShape DEF LoraInit, Over
<1>4. str \in [Parsers -> [Slots -> Bytes \union {NUL}]]
  BY DEF LoraInit, Empty
<1>5. pRxPacket \in [Parsers -> 0..(INDEX_MOD - 1)]
  <2>1. 0 \in 0..(INDEX_MOD - 1)
    BY LoraAssumption
  <2> QED BY <2>1 DEF LoraInit
<1>6. /\ action \in [Parsers -> BOOLEAN] /\ hurt \in BOOLEAN /\ synced \in BOOLEAN
      /\ touched \in BOOLEAN
  BY Zenon DEF LoraInit
<1>7. broken \in 0..MAX_BROKEN /\ last \in Bytes
  BY LoraAssumption DEF LoraInit, Bytes
<1>8. LoraTypeOK
  BY <1>3, <1>4, <1>5, <1>6, <1>7 DEF LoraTypeOK
<1> QED BY <1>1, <1>2, <1>3, <1>8 DEF LoraIInv, EndsClose, LastIsByte, RoomLeft, Landing

(* A byte is lost. *)
LEMMA LoseKeeps ==
    ASSUME LoraIInv, LoseByte
    PROVE  LoraIInv'
<1> USE DEF LoraIInv
<1>1. /\ ~Over /\ gone' = gone + 1 /\ hurt' /\ hurt' \in BOOLEAN
      /\ UNCHANGED <<action, pRxPacket, str, frame, broken, synced, last, touched>>
  BY Zenon DEF LoseByte
<1>2. /\ gone \in 0..Len(Full(frame)) /\ Full(frame)' = Full(frame)
      /\ Len(Full(frame)) \in Nat
  <2>1. Full(frame)' = Full(frame)
    BY <1>1 DEF Full
  <2> QED BY <2>1, FullShape DEF LoraTypeOK
<1>3. gone' \in 0..Len(Full(frame)') /\ Left' <= Left /\ Left' \in Int /\ Left \in Int
  BY <1>1, <1>2 DEF Left, Over
<1>4. LoraTypeOK'
  BY <1>1, <1>3 DEF LoraTypeOK
<1>5. RoomLeft'
  <2> SUFFICES ASSUME NEW k \in Parsers, action[k], broken < MAX_BROKEN
               PROVE  pRxPacket[k] + Left' < (broken + 1) * (MAX_TEXT + 1)
    BY <1>1 DEF RoomLeft
  <2>1. broken \in Nat /\ pRxPacket[k] + Left < (broken + 1) * (MAX_TEXT + 1)
    BY DEF RoomLeft, LoraTypeOK
  <2>2. (broken + 1) * (MAX_TEXT + 1) \in Nat /\ pRxPacket[k] \in Int
    BY <2>1, RoomGrows DEF LoraTypeOK
  <2> QED BY <1>3, <2>1, <2>2
<1> QED BY <1>1, <1>4, <1>5 DEF EndsClose, LastIsByte, Landing

(* A frame ends where it started: its last byte, unbroken, was an 0xff. *)
LEMMA ArrivedIdle ==
    ASSUME LoraIInv, Over, ~hurt
    PROVE  \A k \in Parsers : ~action[k]
<1>1. Full(frame)[gone] = END /\ gone > 0
  BY FullShape DEF LoraIInv, LoraTypeOK, Over
<1> QED BY <1>1 DEF LoraIInv, LastIsByte, EndsClose

(* A node sends. *)
LEMMA SendKeeps ==
    ASSUME LoraIInv, NEW f \in Frames, SendFrame(f)
    PROVE  LoraIInv'
<1> USE DEF LoraIInv
<1>1. /\ Over /\ frame' = f /\ gone' = 0 /\ ~hurt' /\ ~touched'
      /\ UNCHANGED <<action, pRxPacket, str, last>>
  BY Zenon DEF SendFrame
<1>2. /\ hurt' \in BOOLEAN /\ touched' \in BOOLEAN /\ synced' \in BOOLEAN
      /\ synced' <=> last = END
  BY Zenon DEF SendFrame
<1>3. /\ broken \in 0..MAX_BROKEN /\ broken' \in 0..MAX_BROKEN
      /\ hurt /\ broken' < MAX_BROKEN => broken' = broken + 1 /\ broken < MAX_BROKEN
  BY LoraAssumption DEF SendFrame, LoraTypeOK
<1>4. /\ Full(frame)' = Full(f) /\ Len(Full(f)) = Len(f.text) + 2
      /\ Len(f.text) \in 0..MAX_TEXT
  <2>1. Full(frame)' = Full(f)
    BY <1>1 DEF Full
  <2> QED BY <2>1, FullShape
<1>5. ~Over' /\ Left' = Len(f.text) + 1
  BY <1>1, <1>4 DEF Over, Left
<1>6. LoraTypeOK'
  BY <1>1, <1>2, <1>3, <1>4 DEF LoraTypeOK
<1>7. RoomLeft'
  <2> SUFFICES ASSUME NEW k \in Parsers, action[k], broken' < MAX_BROKEN
               PROVE  pRxPacket[k] + Left' < (broken' + 1) * (MAX_TEXT + 1)
    BY <1>1 DEF RoomLeft
  <2>1. hurt
    BY <1>1, ArrivedIdle
  <2>2. broken' = broken + 1 /\ broken \in Nat /\ broken < MAX_BROKEN
    BY <1>3, <2>1
  <2>3. pRxPacket[k] < (broken + 1) * (MAX_TEXT + 1) /\ pRxPacket[k] \in Int
    BY <1>1, <2>2 DEF RoomLeft, Left, LoraTypeOK
  <2>4. /\ (broken + 1) * (MAX_TEXT + 1) \in Nat
        /\ (broken' + 1) * (MAX_TEXT + 1) = (broken + 1) * (MAX_TEXT + 1) + MAX_TEXT + 1
    BY <2>2, RoomGrows
  <2> DEFINE Room == (broken + 1) * (MAX_TEXT + 1)
  <2>5. pRxPacket[k] < Room /\ Room \in Nat /\ pRxPacket[k] \in Int
    BY <2>3, <2>4
  <2>6. Room + MAX_TEXT + 1 = (broken' + 1) * (MAX_TEXT + 1)
    BY <2>4
  <2> HIDE DEF Room
  <2>7. pRxPacket[k] + Left' < Room + MAX_TEXT + 1
    BY <1>4, <1>5, <2>5, LoraAssumption
  <2> QED BY <2>6, <2>7
<1>8. synced' => \A k \in Parsers : ~action'[k]
  BY <1>1, <1>2 DEF EndsClose
<1>9. Other(f.to) \in Parsers /\ f.to \in Parsers
  BY DEF Frames, Other, Parsers, Begin
<1>10. Landing'
  BY <1>1, <1>5, <1>8, <1>9 DEF Landing
<1> QED BY <1>1, <1>6, <1>7, <1>10 DEF EndsClose, LastIsByte
(* A byte is received.  First what it can be. *)
LEMMA ByteShape ==
    ASSUME LoraIInv, ~Over
    PROVE  /\ frame \in Frames /\ frame.to \in Parsers
           /\ Len(frame.text) \in 0..MAX_TEXT /\ Len(Full(frame)) = Len(frame.text) + 2
           /\ gone \in 0..(Len(frame.text) + 1) /\ Byte \in Bytes
           /\ gone = 0 => Byte = Begin[frame.to]
           /\ gone = Len(frame.text) + 1 <=> Byte = END
           /\ gone \in 1..Len(frame.text) => Byte = frame.text[gone] /\ Byte \in Data
<1>1. frame \in Frames /\ gone \in 0..Len(Full(frame)) /\ gone # Len(Full(frame))
  BY DEF LoraIInv, LoraTypeOK, Over
<1>2. Len(Full(frame)) = Len(frame.text) + 2 /\ Len(frame.text) \in 0..MAX_TEXT
  BY <1>1, FullShape
<1>3. gone \in 0..(Len(frame.text) + 1)
  BY <1>1, <1>2
<1>4. Byte \in Bytes
  BY <1>1, <1>2, <1>3, FullShape DEF Byte
<1>5. frame.to \in Parsers
  BY <1>1 DEF Frames
<1>6. gone = 0 => Byte = Begin[frame.to]
  BY <1>1, FullShape DEF Byte
<1>7. gone \in 1..Len(frame.text) => Byte = frame.text[gone] /\ Byte \in Data
  <2> SUFFICES ASSUME gone \in 1..Len(frame.text)
               PROVE  Byte = frame.text[gone] /\ Byte \in Data
    OBVIOUS
  <2>1. gone + 1 \in 2..(Len(frame.text) + 1) /\ (gone + 1) - 1 = gone
    BY <1>2
  <2> QED BY <1>1, <2>1, FullShape DEF Byte
<1>8. gone = Len(frame.text) + 1 => Byte = END
  BY <1>1, <1>2, FullShape DEF Byte
<1>9. gone # Len(frame.text) + 1 => Byte # END
  BY <1>2, <1>3, <1>5, <1>6, <1>7, Marks
<1> QED BY <1>1, <1>2, <1>3, <1>4, <1>5, <1>6, <1>7, <1>8, <1>9

(* What it does to one parser. *)
LEMMA ParserStep ==
    ASSUME LoraIInv, ReceiveByte, NEW k \in Parsers
    PROVE  /\ action'[k] <=> Byte # END /\ (action[k] \/ Byte = Begin[k])
           /\ pRxPacket'[k] \in 0..(INDEX_MOD - 1)
           /\ action[k] /\ Byte # END => pRxPacket'[k] = (pRxPacket[k] + 1) % INDEX_MOD
           /\ ~action[k] /\ Byte = Begin[k] => pRxPacket'[k] = 0
<1> USE DEF LoraIInv
<1>1. action'[k] <=> (action[k] \/ Opens(k, Byte)) /\ ~Closes(k, Byte)
  BY Zenon DEF ReceiveByte
<1>2. pRxPacket'[k] = Index(k, Byte)
  BY DEF ReceiveByte
<1>3. Begin[k] # END
  BY Marks
<1>4. action'[k] <=> Byte # END /\ (action[k] \/ Byte = Begin[k])
  BY <1>1, <1>3 DEF Opens, Closes
<1>5. pRxPacket'[k] \in 0..(INDEX_MOD - 1)
  BY <1>2, LoraAssumption DEF Index, LoraTypeOK
<1> QED BY <1>2, <1>3, <1>4, <1>5 DEF Index, Opens, Stores, Closes

(* What it does to an array while the other parser is idle. *)
LEMMA ArrayStep ==
    ASSUME LoraIInv, ReceiveByte, NEW k \in Parsers, NEW i \in Slots,
           ~action[Other(k)]
    PROVE  str'[k][i] = IF action[k] /\ pRxPacket[k] = i
                          THEN (IF Byte = END THEN NUL ELSE Byte) ELSE str[k][i]
<1>1. str'[k] = Stored(k, Byte)
  BY DEF ReceiveByte
<1>2. Address[k] \in Nat /\ i \in Nat /\ pRxPacket[k] \in Nat
  BY LoraAssumption DEF Address, Slots, Parsers, Begin, LoraIInv, LoraTypeOK
<1>3. \A j \in Parsers : j = k \/ j = Other(k)
  BY DEF Parsers, Begin, Other
<1>4. Hit(k, i) <=> action[k] /\ Address[k] + pRxPacket[k] = Address[k] + i
  BY <1>3 DEF Hit
<1>5. Hit(k, i) <=> action[k] /\ pRxPacket[k] = i
  BY <1>2, <1>4
<1> QED BY <1>1, <1>5 DEF Stored

LEMMA ReceiveKeepsTypes ==
    ASSUME LoraIInv, ReceiveByte
    PROVE  LoraTypeOK'
<1> USE DEF LoraIInv
<1>1. /\ ~Over /\ gone' = gone + 1 /\ last' = Byte
      /\ UNCHANGED <<frame, hurt, broken, synced>>
  BY DEF ReceiveByte
<1>2. touched' \in BOOLEAN /\ action' \in [Parsers -> BOOLEAN]
  BY Zenon DEF ReceiveByte
<1>3. Full(frame)' = Full(frame)
  BY <1>1 DEF Full
<1>4. gone' \in 0..Len(Full(frame)') /\ last' \in Bytes
  BY <1>1, <1>3, ByteShape
<1>5. ASSUME NEW k \in Parsers
      PROVE  Stored(k, Byte) \in [Slots -> Bytes \union {NUL}]
  <2>1. str[k] \in [Slots -> Bytes \union {NUL}] /\ Byte \in Bytes
    BY <1>1, ByteShape DEF LoraTypeOK
  <2> QED BY <2>1 DEF Stored
<1>6. str' \in [Parsers -> [Slots -> Bytes \union {NUL}]]
  BY <1>5 DEF ReceiveByte
<1>7. pRxPacket' \in [Parsers -> 0..(INDEX_MOD - 1)]
  BY ParserStep DEF ReceiveByte
<1> QED BY <1>1, <1>2, <1>4, <1>6, <1>7 DEF LoraTypeOK

LEMMA ReceiveKeepsRoom ==
    ASSUME LoraIInv, ReceiveByte
    PROVE  RoomLeft'
<1> USE DEF LoraIInv
<1>1. /\ ~Over /\ gone' = gone + 1
      /\ UNCHANGED <<frame, hurt, broken>>
  BY DEF ReceiveByte
<1>2. Full(frame)' = Full(frame) /\ broken \in Nat
  BY <1>1 DEF Full, LoraTypeOK
<1> SUFFICES ASSUME NEW k \in Parsers, action'[k], broken < MAX_BROKEN
             PROVE  pRxPacket'[k] + Left' < (broken + 1) * (MAX_TEXT + 1)
  BY <1>1 DEF RoomLeft
<1>3. Byte # END /\ (action[k] \/ Byte = Begin[k])
  BY ParserStep
<1>4. Left \in Int /\ Left' = Left - 1 /\ Left' \in 0..MAX_TEXT
  <2>1. /\ Len(frame.text) \in 0..MAX_TEXT /\ Len(Full(frame)) = Len(frame.text) + 2
        /\ gone \in 0..Len(frame.text)
    BY <1>1, <1>3, ByteShape
  <2>2. ~Over'
    BY <1>1, <1>2, <2>1 DEF Over
  <2>3. Left = Len(frame.text) + 1 - gone
    BY <1>1, <2>1 DEF Left
  <2>4. Left' = Len(frame.text) - gone
    BY <1>1, <1>2, <2>1, <2>2 DEF Left
  <2> QED BY <2>1, <2>3, <2>4, LoraAssumption
<1> DEFINE Room == (broken + 1) * (MAX_TEXT + 1)
<1>5. Room \in Nat /\ Room >= MAX_TEXT + 1
  BY <1>2, RoomGrows
<1>6. CASE action[k]
  <2>1. pRxPacket'[k] = (pRxPacket[k] + 1) % INDEX_MOD
    BY <1>3, <1>6, ParserStep, Zenon
  <2>2. pRxPacket[k] \in 0..(INDEX_MOD - 1) /\ INDEX_MOD \in Nat
    BY LoraAssumption DEF LoraTypeOK
  <2>3. pRxPacket'[k] <= pRxPacket[k] + 1 /\ pRxPacket'[k] \in Int
    BY <2>1, <2>2
  <2>4. pRxPacket[k] + Left < Room
    BY <1>6 DEF RoomLeft
  <2> HIDE DEF Room
  <2>5. pRxPacket'[k] + Left' < Room
    BY <1>4, <1>5, <2>2, <2>3, <2>4
  <2> QED BY <2>5 DEF Room
<1>7. CASE ~action[k]
  <2>1. pRxPacket'[k] = 0
    BY <1>3, <1>7, ParserStep
  <2> HIDE DEF Room
  <2>2. pRxPacket'[k] + Left' < Room
    BY <1>4, <1>5, <2>1, LoraAssumption
  <2> QED BY <2>2 DEF Room
<1> QED BY <1>6, <1>7

LEMMA ReceiveKeepsLanding ==
    ASSUME LoraIInv, ReceiveByte
    PROVE  Landing'
<1> USE DEF LoraIInv
<1>1. /\ ~Over /\ gone' = gone + 1
      /\ UNCHANGED <<frame, hurt, broken, synced>>
  BY DEF ReceiveByte
<1> SUFFICES ASSUME synced, ~hurt PROVE Landing'
  BY <1>1 DEF Landing
<1> DEFINE to == frame.to
           other == Other(frame.to)
           text == frame.text
<1>2. /\ ~touched /\ ~action[other]
      /\ action[to] <=> gone > 0
      /\ gone > 0 => /\ pRxPacket[to] = gone - 1
                     /\ \A i \in 1..(gone - 1) : str[to][i - 1] = text[i]
  BY <1>1 DEF Landing
<1>3. to \in Parsers /\ other \in Parsers /\ other # to /\ Parsers = {to, other}
  BY <1>1, ByteShape, Marks DEF Other
<1>4. ~touched'
  <2>1. touched' <=> touched \/ \E k \in Parsers \ {to} : action[k]
    BY Zenon DEF ReceiveByte
  <2> QED BY <1>2, <1>3, <2>1
<1>5. /\ Len(text) \in Nat /\ gone \in 0..(Len(text) + 1)
      /\ gone = 0 => Byte = Begin[to]
      /\ gone = Len(text) + 1 <=> Byte = END
      /\ gone \in 1..Len(text) => Byte = text[gone] /\ Byte \in Data
  BY <1>1, ByteShape
<1>6. Over' <=> Byte = END
  <2>1. Full(frame)' = Full(frame)
    BY <1>1 DEF Full
  <2> QED BY <1>1, <1>5, <2>1, ByteShape DEF Over
<1>7. Byte # Begin[other]
  BY <1>3, <1>5, Marks
<1>8. ~action'[other]
  BY <1>2, <1>3, <1>7, ParserStep
<1>9. action'[to] <=> ~Over'
  BY <1>2, <1>3, <1>5, <1>6, ParserStep
<1>10. Len(text) \in 0..MAX_TEXT
  BY <1>1, ByteShape
<1>11. ~action[Other(to)]
  BY <1>2
<1> HIDE DEF to, other, text
<1>12. ASSUME ~Over'
       PROVE  /\ pRxPacket'[to] = gone
              /\ \A i \in 1..gone : str'[to][i - 1] = text[i]
  <2>1. CASE gone = 0
    BY <1>2, <1>3, <1>5, <2>1, ParserStep
  <2>2. CASE gone > 0
    <3>1. gone \in 1..Len(text) /\ action[to] /\ Byte # END /\ pRxPacket[to] = gone - 1
      BY <1>2, <1>5, <1>6, <1>12, <2>2
    <3>2. pRxPacket'[to] = (pRxPacket[to] + 1) % INDEX_MOD
      BY <1>3, <3>1, ParserStep, Zenon
    <3>3. pRxPacket'[to] = gone
      BY <1>10, <3>1, <3>2, LoraAssumption
    <3>4. ASSUME NEW i \in 1..gone PROVE str'[to][i - 1] = text[i]
      <4>1. i - 1 \in Slots /\ (i - 1 = gone - 1 <=> i = gone) /\ i \in 1..gone
        BY <1>10, <3>1, LoraAssumption DEF Slots
      <4>2. str'[to][i - 1] = IF i = gone THEN text[gone] ELSE str[to][i - 1]
        <5>1. Byte = text[gone]
          BY <1>5, <3>1
        <5> QED BY <1>2, <1>3, <3>1, <4>1, <5>1, <1>11, ArrayStep
      <4>3. i # gone => i \in 1..(gone - 1)
        BY <3>1
      <4> QED BY <1>2, <2>2, <4>2, <4>3
    <3> QED BY <3>3, <3>4
  <2> QED BY <1>5, <2>1, <2>2
<1>13. ASSUME Over'
       PROVE  /\ \A i \in 1..Len(text) : str'[to][i - 1] = text[i]
              /\ str'[to][Len(text)] = NUL
  <2>1. gone = Len(text) + 1 /\ gone > 0 /\ action[to] /\ Byte = END
    BY <1>2, <1>5, <1>6, <1>13
  <2>2. pRxPacket[to] = Len(text) /\ Len(text) \in Slots
    BY <1>2, <1>5, <1>10, <2>1, LoraAssumption DEF Slots
  <2>3. str'[to][Len(text)] = NUL
    BY <1>2, <1>3, <1>11, <2>1, <2>2, ArrayStep
  <2>4. ASSUME NEW i \in 1..Len(text) PROVE str'[to][i - 1] = text[i]
    <3>1. i \in 1..(gone - 1) /\ i - 1 \in Slots /\ i - 1 # Len(text)
      BY <1>5, <1>10, <2>1, LoraAssumption DEF Slots
    <3>2. str'[to][i - 1] = str[to][i - 1]
      BY <1>2, <1>3, <1>11, <2>2, <3>1, ArrayStep
    <3> QED BY <1>2, <2>1, <3>1, <3>2
  <2> QED BY <2>3, <2>4
<1>14. frame' = frame /\ gone' > 0 /\ gone' - 1 = gone
  BY <1>1, <1>5
<1> QED BY <1>4, <1>8, <1>9, <1>12, <1>13, <1>14 DEF Landing, Holds, to, other, text

LEMMA ReceiveKeeps ==
    ASSUME LoraIInv, ReceiveByte
    PROVE  LoraIInv'
<1>1. /\ ~Over /\ gone' = gone + 1 /\ last' = Byte
      /\ UNCHANGED <<frame, hurt, broken, synced>>
  BY DEF ReceiveByte
<1>2. EndsClose'
  BY <1>1, ParserStep DEF EndsClose
<1>3. LastIsByte'
  <2>1. Full(frame)' = Full(frame)
    BY <1>1 DEF Full
  <2> QED BY <1>1, <2>1 DEF LastIsByte, Byte
<1> QED BY <1>2, <1>3, ReceiveKeepsTypes, ReceiveKeepsRoom, ReceiveKeepsLanding
        DEF LoraIInv

LEMMA LoraStep == LoraIInv /\ [LoraNext]_loraVars => LoraIInv'
<1> SUFFICES ASSUME LoraIInv, [LoraNext]_loraVars PROVE LoraIInv'
  OBVIOUS
<1>1. CASE UNCHANGED loraVars
  BY <1>1 DEF loraVars, LoraIInv, LoraTypeOK, EndsClose, LastIsByte,
              RoomLeft, Landing, Left, Over, Holds, Full
<1> QED BY <1>1, ReceiveKeeps, LoseKeeps, SendKeeps DEF LoraNext

LEMMA LoraInvariant == LoraSpec => []LoraIInv
  BY LoraInitial, LoraStep, PTL DEF LoraSpec

(* The parsers, their arrays and the wire keep their types (main.c:190-228). *)
THEOREM LoraTypes == LoraSpec => []LoraTypeOK
<1>1. LoraIInv => LoraTypeOK
  BY DEF LoraIInv
<1> QED BY <1>1, LoraInvariant, PTL

(* For all texts and array sizes: a whole frame after an 0xff is in its array,
   exactly, and left no byte in the other (main.c:196-228). *)
THEOREM FramesLand == LoraSpec => []FrameLands
<1>1. LoraIInv => FrameLands
  BY DEF LoraIInv, Landing, FrameLands, Arrived
<1> QED BY <1>1, LoraInvariant, PTL

(* A whole frame leaves both parsers idle, whatever was lost before it
   (main.c:206-211, 223-228). *)
THEOREM FramesResynchronise == LoraSpec => []Resynced
<1>1. LoraIInv => Resynced
  BY ArrivedIdle DEF Resynced, Arrived
<1> QED BY <1>1, LoraInvariant, PTL

(* However the losses fall: a parser stores behind its array only after so many
   broken frames in a row that they and one more fill it (main.c:203, 209, 220,
   226). *)
THEOREM OverrunsNeedLosses == LoraSpec => []OverrunNeedsLosses
<1>1. LoraIInv => OverrunNeedsLosses
  <2> SUFFICES ASSUME LoraIInv, NEW k \in Parsers, action[k], pRxPacket[k] >= STR_SIZE
               PROVE  (broken + 1) * (MAX_TEXT + 1) > STR_SIZE
    BY DEF OverrunNeedsLosses
  <2>1. /\ broken \in 0..MAX_BROKEN /\ pRxPacket[k] \in Nat
        /\ frame \in Frames /\ gone \in 0..Len(Full(frame))
    BY LoraAssumption DEF LoraIInv, LoraTypeOK
  <2>2. Left \in Nat
    BY <2>1, FullShape DEF Left, Over
  <2>3. CASE broken < MAX_BROKEN
    <3> DEFINE Room == (broken + 1) * (MAX_TEXT + 1)
    <3>1. pRxPacket[k] + Left < Room /\ Room \in Nat
      BY <2>1, <2>3, RoomGrows DEF LoraIInv, RoomLeft
    <3> HIDE DEF Room
    <3>2. Room > STR_SIZE
      BY <2>1, <2>2, <3>1, LoraAssumption
    <3> QED BY <3>2 DEF Room
  <2>4. CASE broken = MAX_BROKEN
    BY <2>4, BrokenAssumption
  <2> QED BY <2>1, <2>3, <2>4, LoraAssumption
<1> QED BY <1>1, LoraInvariant, PTL
===============================================================================
