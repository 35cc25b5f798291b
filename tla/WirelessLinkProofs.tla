-------------------------- MODULE WirelessLinkProofs --------------------------
(***************************************************************************)
(* Theorems about WirelessLink for every buffer size, retry count, publish *)
(* limit and number of lines.                                              *)
(***************************************************************************)
EXTENDS WirelessLink, TLAPS

(* The module never sends more than MaxLines lines; while a line is being
   received its text has been counted already. *)
WireOK ==
    /\ part # 0 => wire # <<>>
    /\ received + Len(wire) <= MaxLines + (IF part = 0 THEN 0 ELSE 1)

(* The thread's locals: a command is under way where one is needed, and a
   positive result exists only between the search and the return. *)
LocalOK ==
    /\ pc \in {"send", "match", "return"} => cmd # POLL
    /\ ok => pc \in {"wipe", "rewind", "return"} /\ cmd # POLL

(* Ids are given out in order. *)
FreshOK ==
    /\ \A i \in Slots : W_RxBuffer[i].id <= received
    /\ \A c \in acted : c.id <= received

(* What has been acted on is not in the buffer, except from the search that
   acted on it to the memset. *)
BufferOK ==
    /\ pc \notin {"wipe", "mqtt down", "mqtt again", "mqtt up"} =>
         \A i \in Slots : W_RxBuffer[i] \notin acted
    /\ pc \in {"mqtt down", "mqtt again", "mqtt up"} =>
         \A i \in Slots : W_RxBuffer[i] \in acted => W_RxBuffer[i].kind \in Notices("wifi")

(* As long as ERROR_PUBLISH is clear the counter has not reached the limit,
   and so has not wrapped. *)
CountOK == ERROR_PUBLISH \notin error_code => error_send_count < PUBLISH_LIMIT

IInv == TypeOK /\ WireOK /\ LocalOK /\ FreshOK /\ BufferOK /\ CountOK
-------------------------------------------------------------------------------
(* The filler, CR and LF are not text. *)
LEMMA ControlChunks ==
    /\ NUL \in Chunks \ TextChunks /\ CR \in Chunks \ TextChunks /\ LF \in Chunks \ TextChunks
    /\ NUL.id = 0 /\ CR.id = 0 /\ LF.id = 0
    /\ EmptyBuffer \in [Slots -> Chunks]
  BY DEF Chunks, TextChunks, LineKinds, Notices, DownLine, UpLine, NUL, CR, LF, EmptyBuffer

(* What a search can find is in the buffer, and is text. *)
LEMMA LinesAreText ==
    ASSUME TypeOK, NEW kind \in LineKinds
    PROVE  /\ Lines(kind) \subseteq TextChunks
           /\ \A c \in Lines(kind) : c.kind = kind /\ \E i \in Slots : c = W_RxBuffer[i]
  <1>1. \A c \in Lines(kind) : c.kind = kind /\ \E i \in Slots : c = W_RxBuffer[i]
    BY DEF Lines, Visible, VisibleSlots
  <1>2. kind \notin {"NUL", "CR", "LF"}
    BY DEF LineKinds, Notices, DownLine, UpLine
  <1>3. ASSUME NEW c \in Chunks, c.kind = kind PROVE c \in TextChunks
    BY <1>2, <1>3 DEF Chunks, NUL, CR, LF
  <1>4. \A i \in Slots : W_RxBuffer[i] \in Chunks
    BY DEF TypeOK
  <1> QED  BY <1>1, <1>3, <1>4

(* The keywords of the commands that look for one are lines. *)
LEMMA ExpectedKinds ==
    \A c \in Commands : Expected(c) \in LineKinds \union {"anything"}
  BY DEF Commands, Expected, LineKinds, Notices, UpLine, DownLine, CWJAP, PAYLOAD

(* Nothing is ever found under the empty keyword of AT+RST. *)
LEMMA NothingUnderEmpty ==
    ASSUME TypeOK PROVE Lines("anything") = {}
  <1>1. "anything" \notin LineKinds
    BY DEF LineKinds, Notices, UpLine, DownLine
  <1>2. ASSUME NEW c \in Chunks PROVE c.kind # "anything"
    <2>1. CASE c \in TextChunks
      BY <1>1, <2>1 DEF TextChunks
    <2>2. CASE c \in {NUL, CR, LF}
      BY <2>2 DEF NUL, CR, LF
    <2> QED  BY <2>1, <2>2 DEF Chunks
  <1>3. \A i \in Slots : W_RxBuffer[i] \in Chunks
    BY DEF TypeOK
  <1> QED  BY <1>2, <1>3 DEF Lines, Visible, VisibleSlots

(* The link notices are lines, and their bits are error bits. *)
LEMMA LinkFacts ==
    \A link \in Links :
        /\ DownLine[link] \in LineKinds /\ UpLine[link] \in LineKinds
        /\ DownLine[link] \in Notices(link) /\ UpLine[link] \in Notices(link)
        /\ LinkBit[link] \in ErrorBits \ {ERROR_PUBLISH}
        /\ "REPLY" \notin Notices(link)
  <1>1. \A link \in Links : link = "wifi" \/ link = "mqtt"
    BY DEF Links
  <1>2. /\ DownLine["wifi"] = "WIFI DISCONNECT" /\ DownLine["mqtt"] = "+MQTTDISCONNECTED"
        /\ UpLine["wifi"] = "WIFI GOT IP" /\ UpLine["mqtt"] = "+MQTTCONNECTED"
        /\ LinkBit["wifi"] = 15 /\ LinkBit["mqtt"] = 14
    BY DEF DownLine, UpLine, LinkBit, ERROR_WiFi_CONNECT, ERROR_MQTT_CONNECT
  <1>3. LinkBit["wifi"] \in ErrorBits \ {ERROR_PUBLISH} /\ LinkBit["mqtt"] \in ErrorBits \ {ERROR_PUBLISH}
    <2>1. 15 \in ErrorBits \ {ERROR_PUBLISH} /\ 14 \in ErrorBits \ {ERROR_PUBLISH}
      BY DEF ErrorBits, ERROR_PUBLISH, ERROR_MQTT_CONNECT, ERROR_WiFi_CONNECT
    <2> QED  BY <1>2, <2>1, Zenon
  <1>4. "REPLY" \notin Notices("wifi") /\ "REPLY" \notin Notices("mqtt")
    BY <1>2 DEF Notices
  <1>5. \A link \in Links : DownLine[link] \in Notices(link) /\ UpLine[link] \in Notices(link)
    BY DEF Notices
  <1>6. Notices("wifi") \subseteq LineKinds /\ Notices("mqtt") \subseteq LineKinds
    BY DEF LineKinds
  <1> QED
    BY <1>1, <1>3, <1>4, <1>5, <1>6

(* The counter is a residue, and counting below the modulus is exact. *)
LEMMA Residue ==
    ASSUME NEW n \in Nat, NEW m \in Nat \ {0}
    PROVE  n % m \in 0..(m - 1) /\ (n < m => n % m = n)
  OBVIOUS
-------------------------------------------------------------------------------
(* IInv is inductive *)

LEMMA InitInv == ASSUME Init PROVE IInv
  <1>1. TypeOK
    <2>1. W_RxBuffer \in [Slots -> Chunks] /\ wire \in Seq(LineKinds)
      BY ControlChunks DEF Init
    <2>2. pc \in Pcs /\ cmd \in Commands \union {POLL} /\ left \in 0..SEND_COUNT
      BY LinkAssumption DEF Init, Pcs, POLL, Commands
    <2>3. W_RxDataCnt \in 0..RX_BUFFER_SIZE /\ error_send_count \in 0..(COUNT_MOD - 1)
      BY LinkAssumption DEF Init
    <2>4. ok \in BOOLEAN /\ mqttUp \in BOOLEAN /\ overrun \in BOOLEAN
      BY LinkAssumption, Zenon DEF Init, LinkAssumption
    <2>5. /\ receiveDataFlag \in {0, 1} /\ error_code \subseteq ErrorBits /\ flag \in {0, 1}
          /\ asked \subseteq Commands /\ part \in 0..2 /\ received \in 0..MaxLines
          /\ acted \subseteq TextChunks
      BY LinkAssumption DEF Init
    <2> QED  BY <2>1, <2>2, <2>3, <2>4, <2>5 DEF TypeOK
  <1>2. WireOK
    BY LinkAssumption DEF Init, WireOK
  <1>3. LocalOK
    BY DEF Init, LocalOK, POLL
  <1>4. FreshOK
    BY ControlChunks DEF Init, FreshOK, EmptyBuffer
  <1>5. BufferOK /\ CountOK
    BY LinkAssumption DEF Init, BufferOK, CountOK
  <1> QED  BY <1>1, <1>2, <1>3, <1>4, <1>5 DEF IInv

(* A step that leaves buffer, wire and history alone keeps what IInv says of
   them as long as the thread does not leave the stretch between a search and
   the memset.  Most steps of the thread are of this kind. *)
LEMMA LocalStep ==
    ASSUME IInv, UNCHANGED <<W_RxBuffer, W_RxDataCnt, status, module, history, acted>>,
           receiveDataFlag' \in {0, 1}, flag' \in {0, 1}, left' \in 0..SEND_COUNT,
           pc' \in Pcs, cmd' \in Commands \union {POLL}, ok' \in BOOLEAN,
           LocalOK',
           pc \notin {"wipe", "mqtt down", "mqtt again", "mqtt up"},
           pc' \notin {"mqtt down", "mqtt again", "mqtt up"}
    PROVE  IInv'
  <1>1. TypeOK'
    BY DEF IInv, TypeOK, status, module, history, Pcs
  <1>2. WireOK' /\ FreshOK' /\ BufferOK' /\ CountOK'
    BY DEF IInv, WireOK, FreshOK, BufferOK, CountOK, status, module, history
  <1> QED  BY <1>1, <1>2 DEF IInv
(* One lemma per step of the thread. *)

LEMMA TakeInv == ASSUME IInv, Take PROVE IInv'
  <1>1. /\ \/ pc' = "flag" /\ cmd' = POLL /\ left' = 0
           \/ pc' = "send" /\ cmd' = PUBRAW /\ left' = 1
        /\ pc = "take" /\ flag' = flag /\ ok' = ok
    BY DEF Take, Poll, Call
  <1>2. LocalOK'
    BY <1>1 DEF IInv, LocalOK, POLL, PUBRAW
  <1>3. pc' \in Pcs \ {"mqtt down", "mqtt again", "mqtt up"}
    BY <1>1 DEF Pcs
  <1>5. left' \in 0..SEND_COUNT
    BY <1>1, LinkAssumption
  <1>4. cmd' \in Commands \union {POLL}
    BY <1>1 DEF POLL, PUBRAW, Commands
  <1> QED  BY <1>1, <1>2, <1>3, <1>4, <1>5, LocalStep DEF Take, IInv, TypeOK, shared

LEMMA SendInv == ASSUME IInv, Send PROVE IInv'
  <1>1. TypeOK'
    BY LinkAssumption DEF Send, IInv, TypeOK, LocalOK, shared, status, history, Pcs
  <1>2. WireOK' /\ LocalOK' /\ FreshOK' /\ BufferOK' /\ CountOK'
    BY DEF Send, IInv, WireOK, LocalOK, FreshOK, BufferOK, CountOK, shared, status, history
  <1> QED  BY <1>1, <1>2 DEF IInv

LEMMA GiveUpInv == ASSUME IInv, GiveUp PROVE IInv'
  <1>1. LocalOK' /\ pc' \in Pcs \ {"mqtt down", "mqtt again", "mqtt up"}
    BY DEF GiveUp, IInv, LocalOK, Pcs
  <1> QED  BY <1>1, LocalStep DEF GiveUp, IInv, TypeOK, shared

LEMMA FlagReadInv == ASSUME IInv, FlagRead PROVE IInv'
  <1>1. LocalOK' /\ pc' \in Pcs \ {"mqtt down", "mqtt again", "mqtt up"}
    BY DEF FlagRead, IInv, LocalOK, Pcs
  <1> QED  BY <1>1, LocalStep DEF FlagRead, IInv, TypeOK, shared

LEMMA FlagResetInv == ASSUME IInv, FlagReset PROVE IInv'
  <1>1. LocalOK' /\ pc' \in Pcs \ {"mqtt down", "mqtt again", "mqtt up"}
    BY DEF FlagReset, AfterFlag, IInv, LocalOK, Pcs
  <1> QED  BY <1>1, LocalStep DEF FlagReset, IInv, TypeOK

LEMMA PubrawReturnInv == ASSUME IInv, PubrawReturn PROVE IInv'
  <1>1. LocalOK' /\ pc' \in Pcs \ {"mqtt down", "mqtt again", "mqtt up"} /\ left' \in 0..SEND_COUNT
        /\ cmd' \in Commands
    BY LinkAssumption DEF PubrawReturn, Call, IInv, LocalOK, Pcs, POLL, PAYLOAD, Commands
  <1> QED  BY <1>1, LocalStep DEF PubrawReturn, IInv, TypeOK, shared

LEMMA RewindInv == ASSUME IInv, Rewind PROVE IInv'
  <1>1. TypeOK'
    BY LinkAssumption DEF Rewind, IInv, TypeOK, status, module, history, Pcs
  <1>2. LocalOK'
    BY DEF Rewind, IInv, LocalOK
  <1>3. WireOK' /\ FreshOK' /\ BufferOK' /\ CountOK'
    BY DEF Rewind, IInv, WireOK, FreshOK, BufferOK, CountOK, status, module, history
  <1> QED  BY <1>1, <1>2, <1>3 DEF IInv

LEMMA WipeInv == ASSUME IInv, Wipe PROVE IInv'
  <1>1. TypeOK'
    BY ControlChunks DEF Wipe, IInv, TypeOK, status, module, history, Pcs
  <1>2. FreshOK'
    BY ControlChunks DEF Wipe, IInv, TypeOK, FreshOK, EmptyBuffer, module, history
  <1>3. BufferOK'
    BY ControlChunks DEF Wipe, IInv, TypeOK, BufferOK, EmptyBuffer
  <1>4. WireOK' /\ LocalOK' /\ CountOK'
    BY DEF Wipe, IInv, WireOK, LocalOK, CountOK, status, module, history
  <1> QED  BY <1>1, <1>2, <1>3, <1>4 DEF IInv
LEMMA BootReturnInv == ASSUME IInv, BootReturn PROVE IInv'
  <1>1. /\ FailureBits(cmd) \subseteq ErrorBits \ {ERROR_PUBLISH}
        /\ cmd \in BOOT_COMMANDS
    BY DEF BootReturn, FailureBits, BOOT_COMMANDS, ErrorBits, ERROR_PUBLISH,
           ERROR_MQTT_CONNECT, ERROR_WiFi_CONNECT
  <1>2. error_code' \subseteq ErrorBits /\ (ERROR_PUBLISH \in error_code' <=> ERROR_PUBLISH \in error_code)
    BY <1>1 DEF BootReturn, IInv, TypeOK
  <1>3. /\ pc = "return" /\ pc' \in {"send", "take"}
        /\ left' \in 0..SEND_COUNT /\ cmd' \in Commands \union {POLL}
        /\ pc' = "send" => cmd' # POLL
        /\ ok' = FALSE
    BY <1>1, LinkAssumption DEF BootReturn, Call, BOOT_COMMANDS, POLL, Commands
  <1>4. TypeOK'
    BY <1>2, <1>3 DEF BootReturn, IInv, TypeOK, shared, module, history, Pcs
  <1>5. LocalOK'
    BY <1>3 DEF LocalOK
  <1>6. WireOK' /\ FreshOK' /\ BufferOK' /\ CountOK'
    BY <1>2, <1>3 DEF BootReturn, IInv, WireOK, FreshOK, BufferOK, CountOK, shared, module, history
  <1> QED  BY <1>4, <1>5, <1>6 DEF IInv

(* The publish counter wraps only after the limit has been passed. *)
LEMMA PayloadCount ==
    ASSUME IInv, PayloadReturn
    PROVE  /\ error_send_count' \in 0..(COUNT_MOD - 1)
           /\ error_code' \subseteq ErrorBits
           /\ CountOK'
  <1>1. CASE ok
    BY <1>1, LinkAssumption DEF PayloadReturn, CountSuccess, IInv, TypeOK, CountOK
  <1>2. CASE ~ok
    <2>1. error_send_count' = (error_send_count + 1) % COUNT_MOD
          /\ error_code' = IF error_send_count' >= PUBLISH_LIMIT
                             THEN error_code \union {ERROR_PUBLISH} ELSE error_code
      BY <1>2 DEF PayloadReturn, CountFailure
    <2>2. error_send_count \in Nat /\ COUNT_MOD \in Nat \ {0} /\ PUBLISH_LIMIT \in Nat
      BY LinkAssumption DEF IInv, TypeOK
    <2>3. error_send_count' \in 0..(COUNT_MOD - 1)
      BY <2>1, <2>2, Residue
    <2>4. ERROR_PUBLISH \in ErrorBits
      BY DEF ErrorBits
    <2>5. error_code' \subseteq ErrorBits
      BY <2>1, <2>4 DEF IInv, TypeOK
    <2>6. CountOK'
      BY <2>1, <2>2, <2>3 DEF CountOK
    <2> QED  BY <2>3, <2>5, <2>6
  <1> QED  BY <1>1, <1>2 DEF IInv, TypeOK

LEMMA PayloadReturnInv == ASSUME IInv, PayloadReturn PROVE IInv'
  <1>1. pc = "return" /\ pc' = "flag" /\ cmd' = POLL /\ left' = 0 /\ ok' = FALSE
    BY DEF PayloadReturn, Poll
  <1>2. TypeOK'
    <2>1. pc' \in Pcs /\ cmd' \in Commands \union {POLL} /\ ok' \in BOOLEAN
      BY <1>1 DEF Pcs
    <2>2. left' \in 0..SEND_COUNT
      BY <1>1, LinkAssumption
    <2> QED
      BY <2>1, <2>2, PayloadCount DEF PayloadReturn, IInv, TypeOK, shared, module, history
  <1>3. LocalOK'
    BY <1>1 DEF LocalOK
  <1>4. WireOK' /\ FreshOK' /\ BufferOK'
    BY <1>1 DEF PayloadReturn, IInv, WireOK, FreshOK, BufferOK, shared, module, history
  <1> QED  BY <1>2, <1>3, <1>4, PayloadCount DEF IInv

LEMMA MatchInv == ASSUME IInv, Match PROVE IInv'
  <1>1. cmd \in Commands
    BY DEF Match, IInv, TypeOK, LocalOK
  <1>2. /\ Lines(Expected(cmd)) \subseteq TextChunks
        /\ \A c \in Lines(Expected(cmd)) : \E i \in Slots : c = W_RxBuffer[i]
    BY <1>1, ExpectedKinds, LinesAreText, NothingUnderEmpty DEF IInv
  <1>3. acted' \subseteq TextChunks /\ ok' \in BOOLEAN
    BY <1>2 DEF Match, IInv, TypeOK
  <1>4. TypeOK'
    BY <1>3 DEF Match, IInv, TypeOK, shared, status, module, history, Pcs
  <1>5. LocalOK'
    BY <1>1 DEF Match, LocalOK, POLL, Commands
  <1>6. FreshOK'
    BY <1>2 DEF Match, IInv, FreshOK, shared, history
  <1>7. WireOK' /\ BufferOK' /\ CountOK'
    BY DEF Match, IInv, WireOK, BufferOK, CountOK, shared, status, module, history
  <1> QED  BY <1>4, <1>5, <1>6, <1>7 DEF IInv
(* The places of the link tests. *)
LEMMA TestPlaces ==
    /\ TestPc("wifi", "down") = "wifi down" /\ TestPc("mqtt", "down") = "mqtt down"
    /\ TestPc("wifi", "again") = "wifi again" /\ TestPc("mqtt", "again") = "mqtt again"
    /\ TestPc("wifi", "up") = "wifi up" /\ TestPc("mqtt", "up") = "mqtt up"
    /\ AfterTests("wifi") = "mqtt down" /\ AfterTests("mqtt") = "wipe"
  BY DEF TestPc, AfterTests

(* Whatever a link test concludes, it moves on among the tests of that link
   or past them, and takes over lines of that link only. *)
LEMMA TestMoves ==
    ASSUME IInv, NEW link \in Links, TestDown(link) \/ TestAgain(link) \/ TestUp(link)
    PROVE  /\ \/ link = "wifi" /\ pc \in {"wifi down", "wifi again", "wifi up"}
                               /\ pc' \in {"wifi again", "wifi up", "mqtt down"}
              \/ link = "mqtt" /\ pc \in {"mqtt down", "mqtt again", "mqtt up"}
                               /\ pc' \in {"mqtt again", "mqtt up", "wipe"}
           /\ error_code' \subseteq ErrorBits
           /\ ERROR_PUBLISH \in error_code' <=> ERROR_PUBLISH \in error_code
           /\ acted \subseteq acted' /\ acted' \subseteq TextChunks
           /\ \A c \in acted' \ acted : c.kind \in Notices(link) /\ \E i \in Slots : c = W_RxBuffer[i]
           /\ Tested
           /\ pc' # "wipe" \/ link = "mqtt"
           /\ pc' \in {"wifi again", "wifi up"} => acted' = acted
           /\ ~ok
  <1>1. link = "wifi" \/ link = "mqtt"
    BY DEF Links
  <1>2. \/ link = "wifi" /\ pc \in {"wifi down", "wifi again", "wifi up"}
                         /\ pc' \in {"wifi again", "wifi up", "mqtt down"}
        \/ link = "mqtt" /\ pc \in {"mqtt down", "mqtt again", "mqtt up"}
                         /\ pc' \in {"mqtt again", "mqtt up", "wipe"}
    <2>1. CASE link = "wifi"
      BY <2>1, TestPlaces DEF TestDown, TestAgain, TestUp
    <2>2. CASE link = "mqtt"
      BY <2>2, TestPlaces DEF TestDown, TestAgain, TestUp
    <2> QED  BY <1>1, <2>1, <2>2
  <1>3. \/ error_code' = error_code
        \/ error_code' = error_code \union {LinkBit[link]}
        \/ error_code' = error_code \ {LinkBit[link]}
    BY DEF TestDown, TestAgain, TestUp
  <1>4. /\ error_code' \subseteq ErrorBits
        /\ ERROR_PUBLISH \in error_code' <=> ERROR_PUBLISH \in error_code
    BY <1>3, LinkFacts DEF IInv, TypeOK
  <1>5. acted' = acted \/ acted' = acted \union Lines(DownLine[link])
                       \/ acted' = acted \union Lines(UpLine[link])
    BY DEF TestDown, TestAgain, TestUp
  <1>6. \A kind \in {DownLine[link], UpLine[link]} :
           /\ Lines(kind) \subseteq TextChunks
           /\ \A c \in Lines(kind) : c.kind \in Notices(link) /\ \E i \in Slots : c = W_RxBuffer[i]
    BY LinesAreText, LinkFacts DEF IInv
  <1>7. /\ acted \subseteq acted' /\ acted' \subseteq TextChunks
        /\ \A c \in acted' \ acted : c.kind \in Notices(link) /\ \E i \in Slots : c = W_RxBuffer[i]
    BY <1>5, <1>6 DEF IInv, TypeOK
  <1>8. pc' \in {"wifi again", "wifi up"} => acted' = acted
    BY <1>1, TestPlaces DEF TestDown, TestAgain, TestUp
  <1>9. Tested
    BY DEF TestDown, TestAgain, TestUp
  <1>10. ~ok
    BY <1>2 DEF IInv, LocalOK
  <1> QED  BY <1>2, <1>4, <1>7, <1>8, <1>9, <1>10

LEMMA LinkTestsInv == ASSUME IInv, LinkTests PROVE IInv'
  <1> PICK link \in Links : TestDown(link) \/ TestAgain(link) \/ TestUp(link)
    BY DEF LinkTests
  <1>1. TypeOK'
    <2>1. pc' \in Pcs /\ error_code' \subseteq ErrorBits /\ acted' \subseteq TextChunks
      BY TestMoves DEF Pcs
    <2> QED
      BY <2>1, TestMoves DEF Tested, IInv, TypeOK, shared, module, history
  <1>2. WireOK'
    BY TestMoves DEF Tested, IInv, WireOK, module, history
  <1>3. LocalOK'
    BY TestMoves DEF Tested, LocalOK
  <1>4. FreshOK'
    <2>1. W_RxBuffer' = W_RxBuffer /\ received' = received
      BY TestMoves DEF Tested, shared, history
    <2>2. \A c \in acted' : c \in acted \/ \E i \in Slots : c = W_RxBuffer[i]
      BY TestMoves
    <2> QED  BY <2>1, <2>2 DEF IInv, FreshOK
  <1>5. CountOK'
    BY TestMoves DEF Tested, IInv, CountOK
  <1>6. BufferOK'
    <2>1. W_RxBuffer' = W_RxBuffer
      BY TestMoves DEF Tested, shared
    <2>2. CASE link = "wifi"
      BY <2>1, <2>2, TestMoves DEF IInv, BufferOK
    <2>3. CASE link = "mqtt"
      <3>1. pc \in {"mqtt down", "mqtt again", "mqtt up"}
        BY <2>3, TestMoves
      <3>2. CASE pc' = "wipe"
        BY <3>2 DEF BufferOK
      <3>3. CASE pc' # "wipe"
        <4>1. acted' = acted /\ pc' \in {"mqtt again", "mqtt up"}
          BY <2>3, <3>3, TestMoves, TestPlaces DEF TestDown, TestAgain, TestUp
        <4> QED  BY <2>1, <3>1, <4>1 DEF IInv, BufferOK
      <3> QED  BY <3>2, <3>3
    <2> QED  BY <2>2, <2>3, TestMoves
  <1> QED  BY <1>1, <1>2, <1>3, <1>4, <1>5, <1>6 DEF IInv
(* The next chunk is a line not seen before, or CR or LF. *)
LEMMA ArriveFacts ==
    ASSUME IInv, Arrive
    PROVE  /\ Incoming \in Chunks
           /\ Incoming.id <= received'
           /\ Incoming \notin acted
           /\ received \in 0..received' /\ received' \in 0..MaxLines
           /\ part' \in 0..2 /\ wire' \in Seq(LineKinds)
           /\ WireOK'
  <1>1. wire # <<>> /\ wire \in Seq(LineKinds) /\ part \in 0..2 /\ received \in 0..MaxLines
        /\ MaxLines \in Nat
    BY LinkAssumption DEF Arrive, IInv, TypeOK
  <1>2. Head(wire) \in LineKinds /\ Len(wire) \in Nat \ {0}
        /\ Tail(wire) \in Seq(LineKinds) /\ Len(Tail(wire)) = Len(wire) - 1
    BY <1>1
  <1>3. CASE part = 0
    <2>1. received' = received + 1 /\ part' = 1 /\ wire' = wire
      BY <1>3 DEF Arrive
    <2>2. received + Len(wire) <= MaxLines
      BY <1>1, <1>2, <1>3 DEF IInv, WireOK
    <2>3. received' \in 1..MaxLines
      BY <1>1, <1>2, <2>1, <2>2
    <2>4. WireOK'
      BY <1>1, <1>2, <2>1, <2>2 DEF WireOK
    <2>5. Incoming = [kind |-> Head(wire), id |-> received']
      BY <1>3, <2>1 DEF Incoming
    <2>6. Incoming \in TextChunks /\ Incoming.id = received'
      BY <1>2, <2>3, <2>5 DEF TextChunks
    <2>7. \A c \in acted : c.id < received'
      BY <1>1, <2>1 DEF IInv, FreshOK, TypeOK, TextChunks
    <2> QED
      BY <1>1, <2>1, <2>3, <2>4, <2>6, <2>7 DEF Chunks
  <1>4. CASE part = 1
    <2>1. received' = received /\ part' = 2 /\ wire' = wire /\ Incoming = CR
      BY <1>4 DEF Arrive, Incoming
    <2>2. WireOK'
      BY <1>1, <1>4, <2>1 DEF IInv, WireOK
    <2> QED
      BY <1>1, <2>1, <2>2, ControlChunks DEF IInv, TypeOK
  <1>5. CASE part = 2
    <2>1. received' = received /\ part' = 0 /\ wire' = Tail(wire) /\ Incoming = LF
      BY <1>5 DEF Arrive, Incoming
    <2>2. received + Len(wire) <= MaxLines + 1
      BY <1>1, <1>5 DEF IInv, WireOK
    <2>3. WireOK'
      BY <1>1, <1>2, <2>1, <2>2 DEF WireOK
    <2> QED
      BY <1>1, <1>2, <2>1, <2>3, ControlChunks DEF IInv, TypeOK
  <1> QED  BY <1>1, <1>3, <1>4, <1>5

LEMMA RxStoreInv == ASSUME IInv, RxStore PROVE IInv'
  <1>1. Arrive /\ W_RxDataCnt \in Slots /\ RX_BUFFER_SIZE \in Nat
    BY LinkAssumption DEF RxStore, IInv, TypeOK, Slots
  <1>2. \A i \in Slots : W_RxBuffer'[i] = IF i = W_RxDataCnt THEN Incoming ELSE W_RxBuffer[i]
    BY <1>1 DEF RxStore, IInv, TypeOK
  <1>3. W_RxBuffer' \in [Slots -> Chunks]
    BY <1>1, ArriveFacts DEF RxStore, IInv, TypeOK
  <1>4. W_RxDataCnt' \in 0..RX_BUFFER_SIZE /\ receiveDataFlag' \in {0, 1}
    BY <1>1 DEF RxStore, IInv, TypeOK
  <1>5. TypeOK'
    BY <1>1, <1>3, <1>4, ArriveFacts DEF RxStore, IInv, TypeOK, status, thread
  <1>6. LocalOK' /\ CountOK'
    BY DEF RxStore, IInv, LocalOK, CountOK, status, thread
  <1>7. FreshOK'
    <2>1. \A i \in Slots : W_RxBuffer[i] \in Chunks /\ W_RxBuffer[i].id <= received
      BY DEF IInv, FreshOK, TypeOK
    <2>2. \A c \in Chunks : c.id \in Nat
      BY LinkAssumption, ControlChunks DEF Chunks, TextChunks
    <2>3. \A c \in Chunks : c.id <= received => c.id <= received'
      BY <1>1, <2>2, ArriveFacts
    <2>4. \A c \in acted : c \in Chunks
      BY DEF IInv, TypeOK, Chunks
    <2> QED
      BY <1>1, <1>2, <2>1, <2>3, <2>4, ArriveFacts DEF RxStore, IInv, FreshOK
  <1>8. BufferOK'
    <2>1. pc' = pc /\ acted' = acted /\ Incoming \notin acted
      BY <1>1, ArriveFacts DEF RxStore, thread
    <2>2. \A i \in Slots : W_RxBuffer'[i] \in acted => W_RxBuffer'[i] = W_RxBuffer[i]
      BY <1>2, <2>1
    <2> QED
      BY <2>1, <2>2 DEF IInv, BufferOK
  <1> QED  BY <1>1, <1>5, <1>6, <1>7, <1>8, ArriveFacts DEF IInv

LEMMA RxOverrunInv == ASSUME IInv, RxOverrun PROVE IInv'
  <1>1. Arrive
    BY DEF RxOverrun
  <1>2. TypeOK'
    BY <1>1, ArriveFacts, ControlChunks, LinkAssumption DEF RxOverrun, IInv, TypeOK, status, thread
  <1>3. LocalOK' /\ CountOK'
    BY DEF RxOverrun, IInv, LocalOK, CountOK, status, thread
  <1>4. \A i \in Slots : W_RxBuffer'[i] = NUL
    BY DEF RxOverrun, EmptyBuffer
  <1>5. FreshOK'
    <2>1. \A c \in acted : c.id \in Nat /\ c.id <= received
      BY DEF IInv, TypeOK, FreshOK, TextChunks
    <2> QED
      BY <1>1, <1>4, <2>1, ArriveFacts, ControlChunks, LinkAssumption DEF RxOverrun, FreshOK
  <1>6. BufferOK'
    <2>1. NUL \notin acted'
      BY ControlChunks DEF RxOverrun, IInv, TypeOK
    <2> QED
      BY <1>4, <2>1 DEF BufferOK
  <1> QED  BY <1>1, <1>2, <1>3, <1>5, <1>6, ArriveFacts DEF IInv

(* Whatever the module does, it only adds lines it may still send. *)
LEMMA ModuleInv == ASSUME IInv, ModuleNext PROVE IInv'
  <1> DEFINE Sends ==
        /\ UNCHANGED <<shared, status, thread, part, history, acted>>
        /\ asked' \subseteq Commands /\ mqttUp' \in BOOLEAN
        /\ \/ wire' = wire
           \/ \E lines \in Seq(LineKinds) : CanSend(lines) /\ wire' = wire \o lines
  <1>1. Sends
    <2>1. /\ <<"ERROR">> \in Seq(LineKinds) /\ <<"OK">> \in Seq(LineKinds)
          /\ <<"REPLY">> \in Seq(LineKinds)
          /\ \A link \in Links : <<UpLine[link]>> \in Seq(LineKinds)
                              /\ <<DownLine[link]>> \in Seq(LineKinds)
                              /\ <<UpLine[link], "OK">> \in Seq(LineKinds)
      BY LinkFacts DEF LineKinds
    <2>2. "wifi" \in Links /\ "mqtt" \in Links
      BY DEF Links
    <2>3. ASSUME NEW c \in Commands, Answer(c) PROVE Sends
      BY <2>1, <2>2, <2>3 DEF Answer, Emit, IInv, TypeOK
    <2>4. CASE WifiNotice
      BY <2>1, <2>2, <2>4 DEF WifiNotice, Notices, Emit, IInv, TypeOK
    <2>5. CASE MqttDrop
      BY <2>1, <2>2, <2>5 DEF MqttDrop, Emit, IInv, TypeOK
    <2>6. CASE MqttRestore
      BY <2>1, <2>2, <2>6 DEF MqttRestore, Emit, IInv, TypeOK
    <2> QED  BY <2>3, <2>4, <2>5, <2>6 DEF ModuleNext
  <1>2. wire' \in Seq(LineKinds)
    <2>1. wire \in Seq(LineKinds)
      BY DEF IInv, TypeOK
    <2>2. \A lines \in Seq(LineKinds) : wire \o lines \in Seq(LineKinds)
      BY <2>1
    <2> QED  BY <1>1, <2>1, <2>2
  <1>3. WireOK'
    <2>1. CASE wire' = wire
      BY <1>1, <2>1 DEF IInv, WireOK, history
    <2>2. ASSUME NEW lines \in Seq(LineKinds), CanSend(lines), wire' = wire \o lines PROVE WireOK'
      <3>1. /\ wire \in Seq(LineKinds) /\ part \in 0..2 /\ received \in Nat /\ MaxLines \in Nat
            /\ part' = part /\ received' = received
        BY <1>1, LinkAssumption DEF IInv, TypeOK, history
      <3>2. Len(wire') = Len(wire) + Len(lines) /\ Len(wire) \in Nat /\ Len(lines) \in Nat
        BY <2>2, <3>1
      <3>3. received' + Len(wire') <= MaxLines
        BY <2>2, <3>1, <3>2 DEF CanSend
      <3>4. part' # 0 => wire' # <<>>
        <4>1. part # 0 => Len(wire) > 0
          BY <3>1 DEF IInv, WireOK
        <4> QED  BY <3>1, <3>2, <4>1
      <3> QED  BY <3>1, <3>2, <3>3, <3>4 DEF WireOK
    <2> QED  BY <1>1, <2>1, <2>2
  <1>4. TypeOK'
    BY <1>1, <1>2 DEF IInv, TypeOK, shared, status, thread, history
  <1>5. LocalOK' /\ FreshOK' /\ BufferOK' /\ CountOK'
    BY <1>1 DEF IInv, LocalOK, FreshOK, BufferOK, CountOK, shared, status, thread, history
  <1> QED  BY <1>3, <1>4, <1>5 DEF IInv
-------------------------------------------------------------------------------
(* Every step keeps IInv, stuttering included. *)
LEMMA NextInv == ASSUME IInv, [Next]_vars PROVE IInv'
  <1>1. CASE ThreadNext
    BY <1>1, TakeInv, SendInv, GiveUpInv, FlagReadInv, FlagResetInv, MatchInv, WipeInv,
       RewindInv, BootReturnInv, PubrawReturnInv, PayloadReturnInv, LinkTestsInv
    DEF ThreadNext
  <1>2. CASE RxByte
    BY <1>2, RxStoreInv, RxOverrunInv DEF RxByte
  <1>3. CASE ModuleNext
    BY <1>3, ModuleInv
  <1>4. CASE UNCHANGED vars
    <2>1. TypeOK' /\ WireOK'
      BY <1>4 DEF vars, shared, status, thread, module, history, IInv, TypeOK, WireOK
    <2>2. LocalOK' /\ FreshOK' /\ BufferOK' /\ CountOK'
      BY <1>4 DEF vars, shared, status, thread, module, history,
         IInv, LocalOK, FreshOK, BufferOK, CountOK
    <2> QED  BY <2>1, <2>2 DEF IInv
  <1> QED  BY <1>1, <1>2, <1>3, <1>4 DEF Next

THEOREM Invariance == Spec => []IInv
  BY InitInv, NextInv, PTL DEF Spec

(* The shared buffer, its index, the flag and the counters keep their types in
   every behaviour: in particular the index of the receive interrupt never
   passes RX_BUFFER_SIZE (driver_wireless.c:374-386). *)
THEOREM TypeCorrect == Spec => []TypeOK
  <1>1. IInv => TypeOK
    BY DEF IInv
  <1> QED  BY <1>1, Invariance, PTL

(* No line from the module is acted on twice (driver_wireless.c:98-102,
   167-175, 357-366). *)
THEOREM NeverReplays == Spec => []NoReplay
  <1>1. IInv => NoReplay
    <2> SUFFICES ASSUME IInv PROVE NoReplay
      OBVIOUS
    <2>1. \A c \in Visible : \E i \in Slots : c = W_RxBuffer[i]
      BY DEF Visible, VisibleSlots
    <2> QED  BY <2>1 DEF IInv, BufferOK, NoReplay
  <1> QED  BY <1>1, Invariance, PTL
-------------------------------------------------------------------------------
(* Publishing implements PublishMonitor *)

(* What the abstract variables stand for. *)
Ids(lines) == {c.id : c \in {a \in lines : a.kind = "REPLY"}}
Credit == cmd = PAYLOAD /\ ok /\ pc \in {"wipe", "rewind", "return"}
Alarm == ERROR_PUBLISH \in error_code
Fails == IF Alarm THEN PUBLISH_LIMIT ELSE error_send_count

LEMMA MonitorInit == ASSUME Init PROVE Monitor!Init
  <1>1. Ids(acted) = {} /\ Credit = FALSE /\ Alarm = FALSE /\ Fails = 0
    BY DEF Init, Ids, Credit, Alarm, Fails
  <1> QED  BY <1>1 DEF Monitor!Init, Ids, Credit, Alarm, Fails

(* Steps the abstract specification does not see. *)
LEMMA Stutter ==
    ASSUME Ids(acted') = Ids(acted), Credit' = Credit, Alarm' = Alarm,
           error_send_count' = error_send_count
    PROVE  UNCHANGED Monitor!monitorVars
  <1>1. Fails' = Fails
    BY DEF Fails
  <1> QED  BY <1>1 DEF Monitor!monitorVars, Ids, Credit, Alarm, Fails

(* The search after a payload takes the replies it finds; no other search takes
   any. *)
LEMMA MatchRefines ==
    ASSUME IInv, Match
    PROVE  Monitor!Next \/ UNCHANGED Monitor!monitorVars
  <1>1. /\ cmd \in Commands /\ cmd' = cmd /\ pc = "match" /\ pc' = "wipe" /\ ~ok
        /\ Alarm' = Alarm /\ error_send_count' = error_send_count
        /\ acted' = acted \union Lines(Expected(cmd))
        /\ ok' <=> (Expected(cmd) = "anything" \/ Finds(Expected(cmd)))
        /\ Expected(PAYLOAD) = "REPLY"
    <2>1. Expected(PAYLOAD) = "REPLY"
      BY DEF Expected, PAYLOAD, CWJAP
    <2>2. ok' <=> (Expected(cmd) = "anything" \/ Finds(Expected(cmd)))
      BY DEF Match
    <2> QED
      BY <2>1, <2>2 DEF Match, IInv, TypeOK, LocalOK, status, Alarm
  <1>2. CASE cmd # PAYLOAD
    <2>1. Expected(cmd) # "REPLY"
      BY <1>1, <1>2 DEF Expected, Commands, UpLine
    <2>2. Ids(acted') = Ids(acted)
      BY <1>1, <2>1 DEF Ids, Lines
    <2>3. Credit' = Credit
      BY <1>1, <1>2 DEF Credit
    <2> QED  BY <1>1, <2>2, <2>3, Stutter
  <1>3. CASE cmd = PAYLOAD /\ ~ok'
    <2>1. Lines("REPLY") = {} /\ Expected(cmd) = "REPLY"
      BY <1>1, <1>3 DEF Finds
    <2>2. Ids(acted') = Ids(acted)
      BY <1>1, <2>1
    <2>3. Credit' = Credit
      BY <1>1, <1>3 DEF Credit
    <2> QED  BY <1>1, <2>2, <2>3, Stutter
  <1>4. CASE cmd = PAYLOAD /\ ok'
    <2>1. Expected(cmd) = "REPLY" /\ Lines("REPLY") # {}
      BY <1>1, <1>4 DEF Finds
    <2>2. /\ Lines("REPLY") \subseteq TextChunks
          /\ \A c \in Lines("REPLY") : c.kind = "REPLY" /\ c \notin acted
      <3>1. "REPLY" \in LineKinds
        BY DEF LineKinds
      <3>2. /\ Lines("REPLY") \subseteq TextChunks
            /\ \A c \in Lines("REPLY") : c.kind = "REPLY" /\ \E i \in Slots : c = W_RxBuffer[i]
        BY <3>1, LinesAreText DEF IInv
      <3> QED  BY <1>1, <3>2 DEF IInv, BufferOK
    <2>3. PICK new \in SUBSET (1..MaxLines) : new = {c.id : c \in Lines("REPLY")} /\ new # {}
      <3>1. /\ {c.id : c \in Lines("REPLY")} \in SUBSET (1..MaxLines)
            /\ {c.id : c \in Lines("REPLY")} # {}
        BY <2>1, <2>2 DEF TextChunks
      <3> QED  BY <3>1
    <2>4. new \intersect Ids(acted) = {}
      <3>1. ASSUME NEW c \in Lines("REPLY"), NEW a \in acted, a.kind = "REPLY", c.id = a.id
            PROVE  FALSE
        <4>1. c \in TextChunks /\ a \in TextChunks /\ c.kind = a.kind
          BY <2>2, <3>1 DEF IInv, TypeOK
        <4>2. c = a
          BY <3>1, <4>1 DEF TextChunks
        <4> QED  BY <2>2, <4>2
      <3> QED  BY <2>3, <3>1 DEF Ids
    <2>5. Ids(acted') = Ids(acted) \union new
      BY <1>1, <2>1, <2>2, <2>3 DEF Ids
    <2>6. ~Credit /\ Credit' = TRUE
      BY <1>1, <1>4 DEF Credit
    <2>7. Fails' = Fails
      BY <1>1 DEF Fails
    <2>8. Monitor!Use(new)
      BY <1>1, <2>3, <2>4, <2>5, <2>6, <2>7
      DEF Monitor!Use, Ids, Credit, Alarm, Fails
    <2> QED  BY <2>3, <2>8 DEF Monitor!Next
  <1> QED  BY <1>2, <1>3, <1>4

(* The end of a publish is a success or a failure of the monitor. *)
LEMMA PayloadRefines ==
    ASSUME IInv, PayloadReturn
    PROVE  Monitor!Next
  <1>1. /\ cmd = PAYLOAD /\ pc = "return" /\ ok' = FALSE /\ acted' = acted
        /\ error_send_count \in Nat /\ PUBLISH_LIMIT \in Nat \ {0} /\ COUNT_MOD \in Nat \ {0}
        /\ PUBLISH_LIMIT < COUNT_MOD
    BY LinkAssumption DEF PayloadReturn, IInv, TypeOK
  <1>2. Ids(acted') = Ids(acted) /\ ~Credit'
    BY <1>1 DEF Credit
  <1>3. CASE ok
    <2>1. error_send_count' = 0 /\ ~Alarm'
      BY <1>3 DEF PayloadReturn, CountSuccess, Alarm
    <2>2. Credit /\ Fails' = 0
      BY <1>1, <1>3, <2>1 DEF Credit, Fails
    <2>3. Monitor!Succeed
      BY <1>2, <2>1, <2>2 DEF Monitor!Succeed, Ids, Credit, Alarm, Fails
    <2> QED  BY <2>3 DEF Monitor!Next
  <1>4. CASE ~ok
    <2>1. /\ error_send_count' = (error_send_count + 1) % COUNT_MOD
          /\ error_code' = IF error_send_count' >= PUBLISH_LIMIT
                             THEN error_code \union {ERROR_PUBLISH} ELSE error_code
      BY <1>4 DEF PayloadReturn, CountFailure
    <2>2. ~Credit
      BY <1>4 DEF Credit
    <2>3. Fails' = IF Fails < PUBLISH_LIMIT THEN Fails + 1 ELSE PUBLISH_LIMIT
      <3>1. CASE Alarm
        BY <1>1, <2>1, <3>1 DEF Alarm, Fails
      <3>2. CASE ~Alarm
        <4>1. error_send_count < PUBLISH_LIMIT
          BY <3>2 DEF IInv, CountOK, Alarm
        <4>2. error_send_count' = error_send_count + 1
          <5> error_send_count + 1 \in Nat /\ error_send_count + 1 < COUNT_MOD
            BY <1>1, <4>1
          <5> QED  BY <1>1, <2>1, Residue
        <4>3. Alarm' <=> error_send_count' >= PUBLISH_LIMIT
          BY <2>1, <3>2 DEF Alarm
        <4> QED  BY <1>1, <3>2, <4>1, <4>2, <4>3 DEF Fails
      <3> QED  BY <3>1, <3>2
    <2>4. Alarm' <=> Fails' = PUBLISH_LIMIT
      <3>1. CASE Alarm
        BY <1>1, <2>1, <3>1 DEF Alarm, Fails
      <3>2. CASE ~Alarm
        <4>1. Alarm' <=> error_send_count' >= PUBLISH_LIMIT
          BY <2>1, <3>2 DEF Alarm
        <4>2. error_send_count' \in Nat
          BY <1>1, <2>1, Residue
        <4> QED  BY <1>1, <4>1, <4>2 DEF Fails
      <3> QED  BY <3>1, <3>2
    <2>5. Monitor!Fail
      BY <1>2, <2>2, <2>3, <2>4 DEF Monitor!Fail, Ids, Credit, Alarm, Fails
    <2> QED  BY <2>5 DEF Monitor!Next
  <1> QED  BY <1>3, <1>4
(* The end of any other command, and the link tests, are not seen. *)
LEMMA OtherStepsStutter ==
    ASSUME IInv,
           \/ Take \/ Send \/ GiveUp \/ FlagRead \/ FlagReset \/ Wipe \/ Rewind
           \/ BootReturn \/ PubrawReturn \/ LinkTests \/ RxByte \/ ModuleNext
    PROVE  UNCHANGED Monitor!monitorVars
  <1>1. ASSUME acted' = acted, error_code' = error_code, error_send_count' = error_send_count,
               Credit' = Credit
        PROVE  UNCHANGED Monitor!monitorVars
    BY <1>1, Stutter DEF Alarm
  <1>2. CASE Take \/ Send \/ GiveUp \/ FlagRead \/ FlagReset
    <2>1. ~ok /\ ok' = ok
      BY <1>2 DEF Take, Send, GiveUp, FlagRead, FlagReset, IInv, LocalOK
    <2>2. Credit' = Credit
      BY <2>1 DEF Credit
    <2> QED
      BY <1>1, <1>2, <2>2 DEF Take, Send, GiveUp, FlagRead, FlagReset, status
  <1>3. CASE Wipe \/ Rewind
    <2>1. Credit' = Credit
      BY <1>3 DEF Wipe, Rewind, Credit, POLL, PAYLOAD
    <2> QED
      BY <1>1, <1>3, <2>1 DEF Wipe, Rewind, status
  <1>4. CASE PubrawReturn
    <2>1. Credit' = Credit
      BY <1>4 DEF PubrawReturn, Credit, PUBRAW, PAYLOAD
    <2> QED
      BY <1>1, <1>4, <2>1 DEF PubrawReturn, status
  <1>5. CASE BootReturn
    <2>1. Credit' = Credit /\ acted' = acted /\ error_send_count' = error_send_count
      BY <1>5 DEF BootReturn, BOOT_COMMANDS, Credit, PAYLOAD
    <2>2. FailureBits(cmd) \subseteq ErrorBits \ {ERROR_PUBLISH}
      BY <1>5 DEF BootReturn, FailureBits, BOOT_COMMANDS, ErrorBits, ERROR_PUBLISH,
                  ERROR_MQTT_CONNECT, ERROR_WiFi_CONNECT
    <2>3. Alarm' = Alarm
      BY <1>5, <2>2 DEF BootReturn, Alarm
    <2> QED  BY <2>1, <2>3, Stutter
  <1>6. CASE LinkTests
    <2> PICK link \in Links : TestDown(link) \/ TestAgain(link) \/ TestUp(link)
      BY <1>6 DEF LinkTests
    <2>1. Ids(acted') = Ids(acted)
      <3>1. \A c \in acted' \ acted : c.kind # "REPLY"
        BY TestMoves, LinkFacts
      <3> QED  BY <3>1, TestMoves DEF Ids
    <2>2. ~Credit /\ ~Credit'
      BY TestMoves DEF Tested, Credit
    <2>3. error_send_count' = error_send_count /\ (Alarm' <=> Alarm)
      BY TestMoves DEF Tested, Alarm
    <2>5. Alarm' = Alarm
      BY <2>3 DEF Alarm
    <2>4. Credit' = Credit
      BY <2>2 DEF Credit
    <2> QED  BY <2>1, <2>3, <2>4, <2>5, Stutter
  <1>7. CASE RxByte \/ ModuleNext
    <2>1. UNCHANGED <<status, thread, acted>>
      BY <1>7 DEF RxByte, RxStore, RxOverrun, ModuleNext, Answer, WifiNotice, MqttDrop, MqttRestore
    <2>2. Credit' = Credit
      BY <2>1 DEF thread, Credit
    <2> QED  BY <1>1, <2>1, <2>2 DEF status
  <1> QED  BY <1>2, <1>3, <1>4, <1>5, <1>6, <1>7

LEMMA MonitorStep ==
    ASSUME IInv, [Next]_vars PROVE Monitor!Next \/ UNCHANGED Monitor!monitorVars
  <1>1. CASE UNCHANGED vars
    <2>1. /\ Ids(acted') = Ids(acted) /\ Credit' = Credit /\ Alarm' = Alarm
          /\ error_send_count' = error_send_count
      BY <1>1 DEF vars, status, thread, Ids, Credit, Alarm
    <2> QED  BY <2>1, Stutter
  <1>2. CASE Match
    BY <1>2, MatchRefines
  <1>3. CASE PayloadReturn
    BY <1>3, PayloadRefines
  <1>4. CASE Next /\ ~Match /\ ~PayloadReturn
    BY <1>4, OtherStepsStutter DEF Next, ThreadNext
  <1> QED  BY <1>1, <1>2, <1>3, <1>4

(* Publishing keeps the promises of PublishMonitor: a success only with a
   reply no publish has used before, the error bit exactly after PUBLISH_LIMIT
   failures in a row (driver_wireless.c:342-347). *)
THEOREM ImplementsMonitor == Spec => PublishMonitored
  <1>1. Init => Monitor!Init
    BY MonitorInit
  <1>2. IInv /\ [Next]_vars => [Monitor!Next]_Monitor!monitorVars
    BY MonitorStep
  <1> QED
    BY <1>1, <1>2, Invariance, PTL DEF Spec, Monitor!Spec, PublishMonitored
-------------------------------------------------------------------------------
(* wireless_init has a bounded number of steps *)

(* Where the thread may be in wireless_init. *)
BootPlaces == {"flag", "reset", "match", "wipe", "rewind", "send", "return"}

StepsOfBoot == 7 * (7 * (SEND_COUNT + 1) + SEND_COUNT) + 1

BootOK == InBoot => pc \in BootPlaces /\ StepsLeft \in 0..StepsOfBoot

LEMMA TurnsOfNext ==
    /\ \A c \in BOOT_COMMANDS : TurnsAfter(c) \in Nat
    /\ \A c \in 1..7 : TurnsAfter(c) = TurnsAfter(c + 1) + SEND_COUNT + 1
    /\ TurnsAfter(1) = 7 * (SEND_COUNT + 1)
  <1>1. SEND_COUNT \in Nat
    BY LinkAssumption
  <1>2. \A c \in BOOT_COMMANDS : c \in {1, 2, 3, 4, 5, 6, 7, 8}
    BY DEF BOOT_COMMANDS
  <1> QED  BY <1>1, <1>2 DEF TurnsAfter

(* A step of the thread inside wireless_init goes on with the turn, begins a
   turn with one try less, or begins the next command; only the last command
   ends the start-up. *)
LEMMA BootMoves ==
    ASSUME IInv, ThreadNext, InBoot, pc \in BootPlaces
    PROVE  \/ ~InBoot' /\ pc' = "take"
           \/ InBoot' /\ pc' \in BootPlaces /\ StepsLeft' < StepsLeft /\ StepsLeft' \in Nat
  <1> DEFINE Onward == cmd' = cmd /\ pc' \in BootPlaces
                       /\ left' = left /\ StepsOfTurn' < StepsOfTurn
             Retry  == cmd' = cmd /\ pc' \in BootPlaces /\ left > 0
                       /\ left' = left - 1 /\ StepsOfTurn' <= StepsOfTurn + 5
             Begins == cmd \in 1..7 /\ cmd' = cmd + 1 /\ pc' = "send"
                       /\ left' = SEND_COUNT /\ StepsOfTurn' = 1
             Ends   == ~InBoot' /\ pc' = "take"
  <1>1. cmd # POLL /\ cmd # PUBRAW /\ cmd # PAYLOAD /\ cmd \in 1..8
    BY DEF InBoot, BOOT_COMMANDS, POLL, PUBRAW, PAYLOAD
  <1>2. pc \notin {"take", "wifi down", "wifi again", "wifi up",
                  "mqtt down", "mqtt again", "mqtt up"}
    BY DEF BootPlaces
  <1>3. StepsOfTurn \in 0..6 /\ StepsOfTurn' \in 0..6
    BY DEF StepsOfTurn
  <1>4. Onward \/ Retry \/ Begins \/ Ends
    <2>1. CASE GiveUp \/ FlagRead \/ Match \/ Wipe
      BY <2>1 DEF GiveUp, FlagRead, Match, Wipe, BootPlaces, StepsOfTurn
    <2>2. CASE FlagReset \/ Rewind
      BY <1>1, <2>2 DEF FlagReset, AfterFlag, Rewind, BootPlaces, StepsOfTurn
    <2>3. CASE Send
      BY <2>3 DEF Send, BootPlaces, StepsOfTurn
    <2>4. CASE BootReturn
      BY <1>1, <2>4 DEF BootReturn, Call, BOOT_COMMANDS, POLL, InBoot, StepsOfTurn
    <2>5. CASE LinkTests
      <3> PICK link \in Links : TestDown(link) \/ TestAgain(link) \/ TestUp(link)
        BY <2>5 DEF LinkTests
      <3> QED  BY <1>2, TestMoves
    <2>6. ~Take /\ ~PubrawReturn /\ ~PayloadReturn
      BY <1>1, <1>2 DEF Take, PubrawReturn, PayloadReturn
    <2> QED  BY <2>1, <2>2, <2>3, <2>4, <2>5, <2>6 DEF ThreadNext
  <1>5. /\ left \in Nat /\ SEND_COUNT \in Nat
        /\ TurnsAfter(cmd) \in Nat
        /\ cmd \in 1..7 => TurnsAfter(cmd + 1) \in Nat
                          /\ TurnsAfter(cmd) = TurnsAfter(cmd + 1) + SEND_COUNT + 1
    <2>1. left \in Nat /\ SEND_COUNT \in Nat
      BY LinkAssumption DEF IInv, TypeOK
    <2>2. cmd \in BOOT_COMMANDS /\ (cmd \in 1..7 => cmd + 1 \in BOOT_COMMANDS)
      BY <1>1 DEF BOOT_COMMANDS
    <2> QED  BY <2>1, <2>2, TurnsOfNext, Zenon
  <1>6. StepsLeft' = 7 * (TurnsAfter(cmd') + left') + StepsOfTurn'
    BY DEF StepsLeft, TurnsAfter
  <1>7. CASE Onward
    BY <1>3, <1>5, <1>6, <1>7 DEF StepsLeft, InBoot
  <1>8. CASE Retry
    BY <1>3, <1>5, <1>6, <1>8 DEF StepsLeft, InBoot
  <1>9. CASE Begins
    BY <1>3, <1>5, <1>6, <1>9 DEF StepsLeft, InBoot, BOOT_COMMANDS, BootPlaces
  <1> QED  BY <1>4, <1>7, <1>8, <1>9

(* What is not a step of the thread leaves its place and its locals alone. *)
LEMMA OthersLeaveThread ==
    ASSUME [Next]_vars, ~ThreadNext PROVE UNCHANGED thread
  BY DEF Next, RxByte, RxStore, RxOverrun, ModuleNext, Answer, WifiNotice, MqttDrop,
         MqttRestore, vars

(* Nobody calls wireless_init again. *)
LEMMA BootOnlyOnce ==
    ASSUME IInv, [Next]_vars, ~InBoot PROVE ~InBoot'
  <1>1. CASE ~ThreadNext
    BY <1>1, OthersLeaveThread DEF thread, InBoot
  <1>2. CASE ThreadNext
    <2>1. CASE Take \/ PubrawReturn \/ PayloadReturn
      BY <2>1 DEF Take, PubrawReturn, PayloadReturn, Call, Poll, InBoot, BOOT_COMMANDS,
                  POLL, PUBRAW, PAYLOAD
    <2>2. CASE Send \/ GiveUp \/ FlagRead \/ FlagReset \/ Match \/ Wipe \/ Rewind
      BY <2>2 DEF Send, GiveUp, FlagRead, FlagReset, Match, Wipe, Rewind, InBoot
    <2>3. CASE LinkTests
      BY <2>3, TestMoves DEF LinkTests, Tested, InBoot
    <2>4. ~BootReturn
      BY DEF BootReturn, InBoot
    <2> QED  BY <1>2, <2>1, <2>2, <2>3, <2>4 DEF ThreadNext
  <1> QED  BY <1>1, <1>2

LEMMA InitBoot == ASSUME Init PROVE BootOK
  <1> SUFFICES ASSUME InBoot PROVE pc \in BootPlaces /\ StepsLeft \in 0..StepsOfBoot
    BY DEF BootOK
  <1>1. cmd = 1 /\ pc = "send" /\ left = SEND_COUNT /\ SEND_COUNT \in Nat
    BY LinkAssumption DEF Init, InBoot, BOOT_COMMANDS, POLL
  <1>2. StepsOfTurn = 1
    BY <1>1 DEF StepsOfTurn
  <1> QED  BY <1>1, <1>2, TurnsOfNext DEF StepsLeft, StepsOfBoot, BootPlaces

LEMMA NextBoot == ASSUME IInv, BootOK, [Next]_vars PROVE BootOK'
  <1>1. CASE ~InBoot
    BY <1>1, BootOnlyOnce DEF BootOK
  <1>2. CASE InBoot /\ ~ThreadNext
    BY <1>2, OthersLeaveThread
    DEF thread, BootOK, InBoot, StepsLeft, StepsOfTurn, TurnsAfter, StepsOfBoot
  <1>3. CASE InBoot /\ ThreadNext
    <2>1. StepsLeft \in 0..StepsOfBoot /\ StepsOfBoot \in Nat /\ StepsOfBoot' = StepsOfBoot
      BY <1>3, LinkAssumption DEF BootOK, StepsOfBoot
    <2>2. InBoot' => pc' \in BootPlaces /\ StepsLeft' < StepsLeft /\ StepsLeft' \in Nat
      BY <1>3, BootMoves DEF BootOK
    <2>3. InBoot' => StepsLeft' \in 0..StepsOfBoot
      BY <2>1, <2>2
    <2> QED  BY <2>1, <2>2, <2>3 DEF BootOK, BootPlaces
  <1> QED  BY <1>1, <1>2, <1>3

(* wireless_init is bounded, whatever the module answers or does not: it takes at
   most StepsOfBoot steps of its own, each brings its end nearer, no interrupt
   and no line of the module puts it off, and it does not run again
   (driver_wireless.c:162-179, 188-218). *)
THEOREM BootIsBounded ==
    Spec => /\ BootBounded
            /\ [](InBoot => StepsLeft \in 0..StepsOfBoot)
            /\ [][~ThreadNext => UNCHANGED thread]_vars
            /\ [][~InBoot => ~InBoot']_vars
  <1>1. Init => BootOK
    BY InitBoot
  <1>2. IInv /\ BootOK /\ [Next]_vars => BootOK'
    BY NextBoot
  <1>3. BootOK => (InBoot => StepsLeft \in 0..StepsOfBoot)
    BY DEF BootOK
  <1>4. IInv /\ BootOK /\ [Next]_vars
        => [InBoot /\ ThreadNext =>
              IF InBoot' THEN StepsLeft' \in 0..(StepsLeft - 1) ELSE pc' = "take"]_vars
    <2> SUFFICES ASSUME IInv, BootOK, InBoot, ThreadNext
                 PROVE  IF InBoot' THEN StepsLeft' \in 0..(StepsLeft - 1) ELSE pc' = "take"
      OBVIOUS
    <2>1. StepsLeft \in Nat
      BY LinkAssumption DEF BootOK, StepsOfBoot
    <2>2. \/ ~InBoot' /\ pc' = "take"
          \/ InBoot' /\ StepsLeft' < StepsLeft /\ StepsLeft' \in Nat
      BY BootMoves DEF BootOK
    <2> QED  BY <2>1, <2>2
  <1>5. [Next]_vars => [~ThreadNext => UNCHANGED thread]_vars
    BY OthersLeaveThread
  <1>6. IInv /\ [Next]_vars => [~InBoot => ~InBoot']_vars
    BY BootOnlyOnce
  <1> QED
    BY <1>1, <1>2, <1>3, <1>4, <1>5, <1>6, Invariance, PTL DEF Spec, BootBounded
-------------------------------------------------------------------------------
(* The replies run dry once the broker is gone *)

(* The ids of the replies that a publish may still use: those on the wire, the
   first of which has its id once its text is received, and those in the buffer
   that no publish has used. *)
Counted == IF part = 0 THEN 0 ELSE 1
OnWire == {received + i - Counted : i \in {j \in (1 + Counted)..Len(wire) : wire[j] = "REPLY"}}
InBuffer == {c.id : c \in {a \in {W_RxBuffer[i] : i \in Slots} \ acted : a.kind = "REPLY"}}
RepliesLeft == OnWire \union InBuffer

LEMMA OnWireTyped ==
    ASSUME IInv
    PROVE  /\ Counted \in {0, 1} /\ Len(wire) \in Nat /\ received \in Nat
           /\ OnWire \subseteq (received + 1)..MaxLines
  <1>1. /\ received \in Nat /\ MaxLines \in Nat /\ Len(wire) \in Nat /\ Counted \in {0, 1}
        /\ received + Len(wire) <= MaxLines + Counted
    BY LinkAssumption DEF IInv, TypeOK, WireOK, Counted
  <1>2. ASSUME NEW i \in (1 + Counted)..Len(wire)
        PROVE  received + i - Counted \in (received + 1)..MaxLines
    BY <1>1, <1>2
  <1> QED  BY <1>1, <1>2 DEF OnWire

LEMMA InBufferTyped ==
    ASSUME IInv PROVE InBuffer \subseteq 1..MaxLines /\ \A n \in InBuffer : n <= received
  <1> SUFFICES ASSUME NEW i \in Slots, W_RxBuffer[i].kind = "REPLY"
               PROVE  W_RxBuffer[i].id \in 1..MaxLines /\ W_RxBuffer[i].id <= received
    BY DEF InBuffer
  <1>1. W_RxBuffer[i] \in Chunks /\ W_RxBuffer[i].id <= received
    BY DEF IInv, TypeOK, FreshOK
  <1>2. W_RxBuffer[i] \in TextChunks
    BY <1>1 DEF Chunks, NUL, CR, LF
  <1> QED  BY <1>1, <1>2 DEF TextChunks

(* The thread adds nothing: it marks lines as used, or zeroes the buffer. *)
LEMMA ThreadAddsNoReply ==
    ASSUME IInv, ThreadNext PROVE RepliesLeft' \subseteq RepliesLeft
  <1>1. /\ UNCHANGED <<wire, part, received>> /\ acted \subseteq acted'
        /\ W_RxBuffer' \in {W_RxBuffer, EmptyBuffer}
    <2>1. CASE Take \/ Send \/ GiveUp \/ FlagRead \/ FlagReset \/ Match
      BY <2>1 DEF Take, Send, GiveUp, FlagRead, FlagReset, Match, shared, module, history
    <2>2. CASE Wipe \/ Rewind \/ BootReturn \/ PubrawReturn \/ PayloadReturn
      BY <2>2 DEF Wipe, Rewind, BootReturn, PubrawReturn, PayloadReturn, shared, module, history
    <2>3. CASE LinkTests
      BY <2>3, TestMoves DEF LinkTests, Tested, shared, module, history
    <2> QED  BY <2>1, <2>2, <2>3 DEF ThreadNext
  <1>2. OnWire' = OnWire
    BY <1>1 DEF OnWire, Counted
  <1>3. InBuffer' \subseteq InBuffer
    <2>1. CASE W_RxBuffer' = W_RxBuffer
      BY <1>1, <2>1 DEF InBuffer
    <2>2. CASE W_RxBuffer' = EmptyBuffer
      <3>1. \A i \in Slots : W_RxBuffer'[i].kind = "NUL"
        BY <2>2 DEF EmptyBuffer, NUL
      <3> QED  BY <3>1 DEF InBuffer
    <2> QED  BY <1>1, <2>1, <2>2
  <1> QED  BY <1>2, <1>3 DEF RepliesLeft

(* Nor does the interrupt: what it takes from the wire keeps its id in the
   buffer, or is lost. *)
LEMMA WireMovesOn ==
    ASSUME IInv, Arrive
    PROVE  /\ OnWire' \subseteq OnWire
           /\ part = 0 /\ Head(wire) = "REPLY" => received + 1 \in OnWire
  <1>1. /\ wire \in Seq(LineKinds) /\ wire # <<>> /\ Len(wire) \in Nat \ {0}
        /\ received \in Nat /\ part \in 0..2
    BY OnWireTyped DEF IInv, TypeOK, Arrive
  <1>2. CASE part = 0
    <2>1. received' = received + 1 /\ part' = 1 /\ wire' = wire
      BY <1>2 DEF Arrive
    <2>2. Counted = 0 /\ Counted' = 1
      BY <1>2, <2>1 DEF Counted
    <2>3. ASSUME NEW i \in 2..Len(wire), wire[i] = "REPLY"
          PROVE  received + 1 + i - 1 \in OnWire
      <3>1. i \in 1..Len(wire) /\ received + 1 + i - 1 = received + i - 0
        BY <1>1
      <3> QED  BY <2>2, <2>3, <3>1 DEF OnWire
    <2>4. Head(wire) = "REPLY" => received + 1 \in OnWire
      <3>1. 1 \in 1..Len(wire) /\ Head(wire) = wire[1] /\ received + 1 = received + 1 - 0
        BY <1>1
      <3> QED  BY <2>2, <3>1 DEF OnWire
    <2>5. OnWire' \subseteq OnWire
      <3>1. 1 + Counted' = 2
        BY <2>2
      <3>2. OnWire' = {received' + i - Counted' : i \in {j \in 2..Len(wire') : wire'[j] = "REPLY"}}
        BY <3>1 DEF OnWire
      <3>3. OnWire' = {received + 1 + i - 1 : i \in {j \in 2..Len(wire) : wire[j] = "REPLY"}}
        BY <2>1, <2>2, <3>2
      <3> QED  BY <2>3, <3>3
    <2> QED  BY <2>4, <2>5
  <1>3. CASE part = 1
    <2>1. received' = received /\ part' = 2 /\ wire' = wire
      BY <1>3 DEF Arrive
    <2>2. Counted' = Counted
      BY <1>3, <2>1 DEF Counted
    <2> QED  BY <1>3, <2>1, <2>2 DEF OnWire
  <1>4. CASE part = 2
    <2>1. received' = received /\ part' = 0 /\ wire' = Tail(wire)
      BY <1>1, <1>4 DEF Arrive
    <2>2. Counted = 1 /\ Counted' = 0
      BY <1>4, <2>1 DEF Counted
    <2>3. ASSUME NEW i \in 1..Len(Tail(wire)), Tail(wire)[i] = "REPLY"
          PROVE  received + i - 0 \in OnWire
      <3>1. i + 1 \in 2..Len(wire) /\ wire[i + 1] = "REPLY" /\ received + i - 0 = received + (i + 1) - 1
        BY <1>1, <2>3
      <3> QED  BY <2>2, <3>1 DEF OnWire
    <2> QED  BY <1>4, <2>1, <2>2, <2>3 DEF OnWire
  <1> QED  BY <1>1, <1>2, <1>3, <1>4

LEMMA ByteAddsNoReply ==
    ASSUME IInv, RxByte PROVE RepliesLeft' \subseteq RepliesLeft
  <1>1. Arrive /\ acted' = acted
    BY DEF RxByte, RxStore, RxOverrun
  <1>2. CASE RxStore
    <2>1. \A i \in Slots : W_RxBuffer'[i] \in {Incoming, W_RxBuffer[i]}
      BY <1>2 DEF RxStore, IInv, TypeOK
    <2>2. Incoming.kind = "REPLY" => Incoming.id \in OnWire
      BY <1>1, WireMovesOn DEF Incoming, CR, LF
    <2>3. InBuffer' \subseteq InBuffer \union OnWire
      <3> SUFFICES ASSUME NEW i \in Slots, W_RxBuffer'[i] \notin acted, W_RxBuffer'[i].kind = "REPLY"
                   PROVE  W_RxBuffer'[i].id \in InBuffer \union OnWire
        BY <1>1 DEF InBuffer
      <3> QED  BY <2>1, <2>2 DEF InBuffer
    <2> QED  BY <1>1, <2>3, WireMovesOn DEF RepliesLeft
  <1>3. CASE RxOverrun
    <2>1. \A i \in Slots : W_RxBuffer'[i].kind = "NUL"
      BY <1>3 DEF RxOverrun, EmptyBuffer, NUL
    <2> QED  BY <1>1, <2>1, WireMovesOn DEF RepliesLeft, InBuffer
  <1> QED  BY <1>2, <1>3 DEF RxByte

(* And without a connection the module has no reply to send. *)
LEMMA ModuleAddsNoReply ==
    ASSUME IInv, ModuleNext, ~mqttUp' PROVE RepliesLeft' \subseteq RepliesLeft
  <1>1. /\ UNCHANGED <<shared, part, received, acted>>
        /\ \/ wire' = wire
           \/ \E a \in LineKinds \ {"REPLY"} : wire' = wire \o <<a>>
           \/ \E a, b \in LineKinds \ {"REPLY"} : wire' = wire \o <<a, b>>
    <2>1. /\ {"ERROR", "OK"} \subseteq LineKinds \ {"REPLY"}
          /\ \A link \in Links : {UpLine[link], DownLine[link]} \subseteq LineKinds \ {"REPLY"}
      <3>1. {"ERROR", "OK"} \subseteq LineKinds \ {"REPLY"}
        BY DEF LineKinds
      <3> QED  BY <3>1, LinkFacts
    <2>2. "wifi" \in Links /\ "mqtt" \in Links
      BY DEF Links
    <2>3. ASSUME NEW c \in Commands, Answer(c)
          PROVE  \/ wire' = wire
                 \/ \E a \in LineKinds \ {"REPLY"} : wire' = wire \o <<a>>
                 \/ \E a, b \in LineKinds \ {"REPLY"} : wire' = wire \o <<a, b>>
      <3>1. \/ \E a \in {"ERROR", "OK"} : wire' = wire \o <<a>>
            \/ wire' = wire \o <<UpLine["wifi"], "OK">>
            \/ mqttUp'
        BY <2>3 DEF Answer, Emit
      <3> QED  BY <2>1, <2>2, <3>1
    <2>4. UNCHANGED <<shared, part, received, acted>>
      BY DEF ModuleNext, Answer, WifiNotice, MqttDrop, MqttRestore, history
    <2>5. CASE WifiNotice
      <3>1. \E a \in {UpLine["wifi"], DownLine["wifi"]} : wire' = wire \o <<a>>
        BY <2>5 DEF WifiNotice, Notices, Emit
      <3> QED  BY <2>1, <2>2, <2>4, <3>1
    <2>6. CASE MqttDrop
      <3>1. wire' = wire \o <<DownLine["mqtt"]>> \/ wire' = wire
        BY <2>6 DEF MqttDrop, Emit
      <3> QED  BY <2>1, <2>2, <2>4, <3>1
    <2>7. ~MqttRestore
      BY DEF MqttRestore
    <2> QED  BY <2>3, <2>4, <2>5, <2>6, <2>7 DEF ModuleNext
  <1>2. wire \in Seq(LineKinds)
    BY DEF IInv, TypeOK
  <1>3. \A j \in 1..Len(wire') : wire'[j] = "REPLY" => j \in 1..Len(wire) /\ wire[j] = "REPLY"
    <2>1. CASE wire' = wire
      BY <2>1
    <2>2. ASSUME NEW a \in LineKinds \ {"REPLY"}, wire' = wire \o <<a>>
          PROVE  \A j \in 1..Len(wire') : wire'[j] = "REPLY" => j \in 1..Len(wire) /\ wire[j] = "REPLY"
      BY <1>2, <2>2
    <2>3. ASSUME NEW a \in LineKinds \ {"REPLY"}, NEW b \in LineKinds \ {"REPLY"},
                 wire' = wire \o <<a, b>>
          PROVE  \A j \in 1..Len(wire') : wire'[j] = "REPLY" => j \in 1..Len(wire) /\ wire[j] = "REPLY"
      BY <1>2, <2>3
    <2> QED  BY <1>1, <2>1, <2>2, <2>3
  <1>4. OnWire' \subseteq OnWire
    <2>1. Counted' = Counted /\ Counted \in {0, 1} /\ received' = received /\ Len(wire) \in Nat
      BY <1>1, OnWireTyped DEF Counted
    <2>2. Len(wire') \in Nat
      BY <1>1, <1>2
    <2>3. ASSUME NEW j \in (1 + Counted)..Len(wire'), wire'[j] = "REPLY"
          PROVE  j \in (1 + Counted)..Len(wire) /\ wire[j] = "REPLY"
      <3>1. j \in 1..Len(wire')
        BY <2>1, <2>2
      <3>2. j \in 1..Len(wire) /\ wire[j] = "REPLY"
        BY <1>3, <2>3, <3>1
      <3> QED  BY <2>1, <2>2, <3>2
    <2> QED  BY <2>1, <2>3 DEF OnWire
  <1>5. InBuffer' = InBuffer
    BY <1>1 DEF shared, InBuffer
  <1> QED  BY <1>4, <1>5 DEF RepliesLeft

(* A publish that succeeds uses up one of them. *)
LEMMA SuccessUsesReply ==
    ASSUME IInv, Match, cmd = PAYLOAD, ok'
    PROVE  \E n \in RepliesLeft : n \notin RepliesLeft'
  <1>1. /\ Expected(cmd) = "REPLY" /\ pc = "match" /\ Lines("REPLY") # {}
        /\ acted' = acted \union Lines("REPLY")
        /\ UNCHANGED <<W_RxBuffer, wire, part, received>>
    <2>1. Expected(cmd) = "REPLY"
      BY DEF Expected, PAYLOAD, CWJAP
    <2>2. ok' <=> Expected(cmd) = "anything" \/ Finds(Expected(cmd))
      BY DEF Match
    <2>3. Lines("REPLY") # {}
      BY <2>1, <2>2 DEF Finds
    <2> QED  BY <2>1, <2>3 DEF Match, shared, module, history
  <1>2. "REPLY" \in LineKinds
    BY DEF LineKinds
  <1>3. PICK c \in Lines("REPLY") : c \in TextChunks /\ c.kind = "REPLY" /\ \E i \in Slots : c = W_RxBuffer[i]
    BY <1>1, <1>2, LinesAreText DEF IInv
  <1>4. c \notin acted
    BY <1>1, <1>3 DEF IInv, BufferOK
  <1>5. c.id \in InBuffer
    BY <1>3, <1>4 DEF InBuffer
  <1>6. c.id \notin OnWire'
    <2>1. c.id \in Nat /\ c.id <= received /\ received \in Nat
      BY <1>5, InBufferTyped, OnWireTyped, LinkAssumption
    <2>2. OnWire' = OnWire
      BY <1>1 DEF OnWire, Counted
    <2> QED  BY <2>1, <2>2, OnWireTyped
  <1>7. c.id \notin InBuffer'
    <2> SUFFICES ASSUME NEW i \in Slots, W_RxBuffer[i].kind = "REPLY", W_RxBuffer[i].id = c.id
                 PROVE  W_RxBuffer[i] \in acted'
      BY <1>1 DEF InBuffer
    <2>1. W_RxBuffer[i] \in TextChunks
      BY DEF IInv, TypeOK, Chunks, NUL, CR, LF
    <2>2. W_RxBuffer[i] = c
      BY <1>3, <2>1 DEF TextChunks
    <2> QED  BY <1>1, <1>3, <2>2
  <1> QED  BY <1>5, <1>6, <1>7 DEF RepliesLeft

(* While the connection to the broker is down the replies a publish can succeed
   with are those that were under way: never more than MaxLines, no step of the
   module, the interrupt or the thread adds one, and each success uses at least
   one up for good, however late or torn the lines arrive.  With ImplementsMonitor,
   by which PUBLISH_LIMIT publishes without a new reply set ERROR_PUBLISH, this is
   the part of OutageDetected that does not need fairness
   (driver_wireless.c:98-102, 342-347). *)
THEOREM RepliesRunDry ==
    Spec => /\ [](RepliesLeft \subseteq 1..MaxLines)
            /\ [][~mqttUp' => RepliesLeft' \subseteq RepliesLeft]_vars
            /\ [][Match /\ cmd = PAYLOAD /\ ok' =>
                     \E n \in RepliesLeft : n \notin RepliesLeft']_vars
  <1>1. IInv => RepliesLeft \subseteq 1..MaxLines
    <2> SUFFICES ASSUME IInv PROVE RepliesLeft \subseteq 1..MaxLines
      OBVIOUS
    <2>1. OnWire \subseteq 1..MaxLines
      BY OnWireTyped
    <2> QED  BY <2>1, InBufferTyped DEF RepliesLeft
  <1>2. IInv /\ [Next]_vars => [~mqttUp' => RepliesLeft' \subseteq RepliesLeft]_vars
    BY ThreadAddsNoReply, ByteAddsNoReply, ModuleAddsNoReply DEF Next
  <1>3. IInv /\ [Next]_vars
        => [Match /\ cmd = PAYLOAD /\ ok' => \E n \in RepliesLeft : n \notin RepliesLeft']_vars
    BY SuccessUsesReply
  <1> QED
    BY <1>1, <1>2, <1>3, Invariance, PTL DEF Spec
===============================================================================
