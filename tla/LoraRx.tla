-------------------------------- MODULE LoraRx --------------------------------
(***************************************************************************)
(* What the gateway hears over LoRa: USART3_IRQHandler puts the frames of  *)
(* the detector into str_m and those of the access node into str_n.        *)
(*                                                                         *)
(* Both parsers see every byte.  A frame is a begin byte of its node, a    *)
(* text and 0xff; the text is printed by sprintf and holds none of the     *)
(* three marks.  The air loses any bytes of a frame but does not mix two   *)
(* frames.                                                                 *)
(***************************************************************************)
EXTENDS Naturals, Sequences, FiniteSets

CONSTANTS
    Texts,              \* what a node may send between the marks
    MAX_TEXT,           \* bound on the length of a text
    STR_SIZE,           \* bytes in str_m and in str_n (100)
    INDEX_MOD,          \* 2^8: the indices are uint8_t
    MAX_BROKEN          \* bound: how far broken counts

Data == UNION {{text[i] : i \in 1..Len(text)} : text \in Texts}
Begin == [str_m |-> "fa", str_n |-> "fe"]
Parsers == DOMAIN Begin
Address == [str_n |-> 0, str_m |-> STR_SIZE]
END == "ff"
NUL == "nul"

ASSUME LoraAssumption ==
    /\ MAX_TEXT \in Nat /\ STR_SIZE \in Nat /\ INDEX_MOD \in Nat /\ MAX_BROKEN \in Nat
    /\ \A text \in Texts : text \in Seq(Data) /\ Len(text) <= MAX_TEXT
    /\ Data \intersect {"fa", "fe", END, NUL} = {}
    /\ MAX_TEXT < STR_SIZE /\ STR_SIZE <= INDEX_MOD

(* broken counts as far as OverrunNeedsLosses looks. *)
ASSUME BrokenAssumption == (MAX_BROKEN + 1) * (MAX_TEXT + 1) > STR_SIZE

VARIABLES
    action,             \* action1, action2: inside a frame
    pRxPacket,          \* pRxPacket1, pRxPacket2
    str,                \* str_m, str_n
    frame,              \* the frame in the air, or the last one
    gone,               \* how many of its bytes have arrived or are lost
    hurt,               \* history: it has lost a byte
    broken,             \* history: so have these many in a row before it,
                        \* or more when MAX_BROKEN
    synced,             \* history: the byte received before it was an 0xff
    last,               \* history: the byte received last, END at first
    touched             \* history: the other parser stored a byte of it

loraVars == <<action, pRxPacket, str, frame, gone, hurt, broken, synced, last, touched>>

Bytes == Data \union {"fa", "fe", END}
Frames == [to : Parsers, text : Texts]
Full(f) == <<Begin[f.to]>> \o f.text \o <<END>>
Byte == Full(frame)[gone + 1]
Over == gone = Len(Full(frame))
Slots == 0..(STR_SIZE - 1)
Empty == [i \in Slots |-> NUL]

LoraInit ==
    /\ action = [k \in Parsers |-> FALSE]
    /\ pRxPacket = [k \in Parsers |-> 0]
    /\ str = [k \in Parsers |-> Empty]
    /\ frame \in Frames /\ Over
    /\ hurt = FALSE /\ broken = 0
    /\ synced = FALSE /\ last = END
    /\ touched = FALSE

-------------------------------------------------------------------------------
Opens(k, data) == ~action[k] /\ data = Begin[k]
Stores(k, data) == action[k] /\ data # END

(* Mutant: one else-if chain, a byte the first parser takes is not seen by the
   second. *)
Closes_Chained(k, data) ==
    action[k] /\ data = END /\ (k = "str_m" \/ ~action["str_m"])

Closes(k, data) == action[k] /\ data = END

(* Mutant: a frame is stored behind the last one. *)
Index_NeverReset(k, data) ==
    IF Stores(k, data) THEN pRxPacket[k] + 1 ELSE pRxPacket[k]

Index(k, data) ==
    IF Stores(k, data) THEN (pRxPacket[k] + 1) % INDEX_MOD
    ELSE IF Opens(k, data) \/ Closes(k, data) THEN 0
    ELSE pRxPacket[k]

(* A store at its index by any open parser lands here: str_m lies right behind
   str_n in memory, and nothing keeps an index within its array.  Behind str_m lie
   the semaphores, which are not part of this module. *)
Hit(k, i) ==
    \E j \in Parsers : action[j] /\ Address[j] + pRxPacket[j] = Address[k] + i

(* Mutant: the end of a frame is not marked in the array. *)
Stored_NoNul(k, data) ==
    [i \in Slots |-> IF Hit(k, i) /\ data # END THEN data ELSE str[k][i]]

Stored(k, data) ==
    [i \in Slots |-> IF Hit(k, i) THEN (IF data = END THEN NUL ELSE data) ELSE str[k][i]]

(* USART3_IRQHandler *)
ReceiveByte ==
    /\ ~Over
    /\ gone' = gone + 1 /\ last' = Byte
    /\ action' = [k \in Parsers |-> (action[k] \/ Opens(k, Byte)) /\ ~Closes(k, Byte)]
    /\ pRxPacket' = [k \in Parsers |-> Index(k, Byte)]
    /\ str' = [k \in Parsers |-> Stored(k, Byte)]
    /\ touched' = (touched \/ \E k \in Parsers \ {frame.to} : action[k])
    /\ UNCHANGED <<frame, hurt, broken, synced>>

(* A node sends, with Lora_SendData; the radio strips the address. *)
SendFrame(f) ==
    /\ Over
    /\ frame' = f /\ gone' = 0
    /\ hurt' = FALSE /\ touched' = FALSE
    /\ broken' = CASE ~hurt -> 0
                   [] hurt /\ broken < MAX_BROKEN -> broken + 1
                   [] OTHER -> broken
    /\ synced' = (last = END)
    /\ UNCHANGED <<action, pRxPacket, str, last>>

(* The radio loses a byte: any byte, of as many frames in a row as it will. *)
LoseByte ==
    /\ ~Over
    /\ gone' = gone + 1
    /\ hurt' = TRUE
    /\ UNCHANGED <<action, pRxPacket, str, frame, broken, synced, last, touched>>

LoraNext == ReceiveByte \/ LoseByte \/ \E f \in Frames : SendFrame(f)

LoraSpec == LoraInit /\ [][LoraNext]_loraVars

-------------------------------------------------------------------------------
(* Properties *)

LoraTypeOK ==
    /\ action \in [Parsers -> BOOLEAN]
    /\ pRxPacket \in [Parsers -> 0..(INDEX_MOD - 1)]
    /\ str \in [Parsers -> [Slots -> Bytes \union {NUL}]]
    /\ frame \in Frames /\ gone \in 0..Len(Full(frame)) /\ last \in Bytes
    /\ hurt \in BOOLEAN /\ broken \in 0..MAX_BROKEN
    /\ synced \in BOOLEAN /\ touched \in BOOLEAN

Arrived == Over /\ ~hurt

(* sscanf finds exactly text in the array of parser k. *)
Holds(k, text) ==
    /\ \A i \in 1..Len(text) : str[k][i - 1] = text[i]
    /\ str[k][Len(text)] = NUL

(* A frame that arrives whole right after an 0xff is in its own array, exactly,
   and left no byte in the other one, whatever was lost and stored before
   (main.c:196-228). *)
FrameLands == Arrived /\ synced => Holds(frame.to, frame.text) /\ ~touched

(* One whole frame, of either node, brings both parsers back to where they wait
   for a begin byte (main.c:206-211, 223-228). *)
Resynced == Arrived => \A k \in Parsers : ~action[k]

(* No check keeps an index within its array (main.c:203, 209, 220, 226), and
   indices do leave it: a frame without its 0xff goes on in the next one.  But a
   parser comes to store behind its array only after so many broken frames in a
   row that they and one more fill it: with texts of 31 bytes and an array of 100
   not before the fourth, however the losses fall and whichever node sends. *)
OverrunNeedsLosses ==
    \A k \in Parsers :
        action[k] /\ pRxPacket[k] >= STR_SIZE => (broken + 1) * (MAX_TEXT + 1) > STR_SIZE
===============================================================================
