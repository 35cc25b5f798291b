----------------------------- MODULE WirelessLink -----------------------------
(***************************************************************************)
(* The gateway's link to the cloud: driver_wireless.c and the thread and   *)
(* the interrupt handler of main.c that run it.                            *)
(*                                                                         *)
(* Two actors share W_RxBuffer, W_RxDataCnt and receiveDataFlag without a  *)
(* lock: the wireless thread (before the scheduler runs, main itself, in   *)
(* wireless_init) and the USART2 interrupt, which may run between any two  *)
(* accesses of the thread.  Every access of the thread to the shared state *)
(* is therefore a step of its own; the interrupt is one step.              *)
(*                                                                         *)
(* A line from the module is three chunks: its text, '\r' and '\n'.  The   *)
(* text chunk stands for the line's last text byte, the one that completes *)
(* the keyword strstr looks for.  An id numbers the lines as received, so  *)
(* that the same line can be told from an equal one.                       *)
(***************************************************************************)
EXTENDS Naturals, Sequences

CONSTANTS
    RX_BUFFER_SIZE,     \* size of W_RxBuffer (328 bytes), in chunks
    SEND_COUNT,         \* tries of each command of wireless_init (3)
    PUBLISH_LIMIT,      \* consecutive failures that set ERROR_PUBLISH (5)
    COUNT_MOD,          \* the failure counter is a uint8_t (256)
    MaxLines,           \* bound: lines the module sends in a behaviour
    WifiNotices,        \* bound: access point notices occur in the behaviour
    Booted              \* start after wireless_init rather than at its start

ASSUME LinkAssumption ==
    /\ RX_BUFFER_SIZE \in Nat /\ RX_BUFFER_SIZE >= 3
    /\ SEND_COUNT \in Nat \ {0}
    /\ PUBLISH_LIMIT \in Nat \ {0}
    /\ COUNT_MOD \in Nat /\ PUBLISH_LIMIT < COUNT_MOD
    /\ MaxLines \in Nat
    /\ WifiNotices \in BOOLEAN /\ Booted \in BOOLEAN

VARIABLES
    W_RxBuffer,         \* [0..RX_BUFFER_SIZE-1 -> Chunk]
    W_RxDataCnt,        \* index of the next write
    receiveDataFlag,    \* WirelessStatus.receiveDataFlag
    error_code,         \* WirelessStatus.error_code, as the set of its bits
    error_send_count,   \* static counter of wireless_publish_data
    pc,                 \* next access of the thread
    cmd,                \* command under way, POLL outside of one
    left,               \* sendCount: tries left (0 when dead)
    flag,               \* local of wireless_get_receive_flag (0 when dead)
    ok,                 \* result of wireless_send_command (FALSE when dead)
    asked,              \* commands the module has not answered
    wire,               \* lines sent by the module, not yet received
    part,               \* next chunk of the first of them: 0 text, 1 CR, 2 LF
    mqttUp,             \* the module is connected to the broker
    received,           \* history: number of text chunks received
    acted,              \* history: lines the thread has acted on, the ones
                        \* with a keyword it found
    overrun             \* history: a byte was written at RX_BUFFER_SIZE

shared == <<W_RxBuffer, W_RxDataCnt, receiveDataFlag>>
status == <<error_code, error_send_count>>
thread == <<pc, cmd, left, flag, ok>>
module == <<asked, wire, part, mqttUp>>
history == <<received, overrun>>
vars == <<shared, status, thread, module, history, acted>>

-------------------------------------------------------------------------------
(* Commands, lines and error bits *)

POLL == 0                       \* no command: the thread polls for notices
CWJAP == 5                      \* AT+CWJAP, join the access point
MQTTCONN == 7                   \* AT+MQTTCONN
BOOT_COMMANDS == 1..8           \* the commands of wireless_init, in order
PUBRAW == 9                     \* AT+MQTTPUBRAW
PAYLOAD == 10                   \* the JSON that follows it
Commands == 1..10

ERROR_WiFi_CONNECT == 15
ERROR_MQTT_CONNECT == 14
ERROR_PUBLISH == 13
ErrorBits == 0..7 \union {ERROR_PUBLISH, ERROR_MQTT_CONNECT, ERROR_WiFi_CONNECT}

Links == {"wifi", "mqtt"}
DownLine == [wifi |-> "WIFI DISCONNECT", mqtt |-> "+MQTTDISCONNECTED"]
UpLine == [wifi |-> "WIFI GOT IP", mqtt |-> "+MQTTCONNECTED"]
LinkBit == [wifi |-> ERROR_WiFi_CONNECT, mqtt |-> ERROR_MQTT_CONNECT]

Notices(link) == {DownLine[link], UpLine[link]}
LineKinds == {"OK", "ERROR", "REPLY"} \union Notices("wifi") \union Notices("mqtt")

NUL == [kind |-> "NUL", id |-> 0]
CR == [kind |-> "CR", id |-> 0]
LF == [kind |-> "LF", id |-> 0]
TextChunks == [kind : LineKinds, id : 1..MaxLines]
Chunks == TextChunks \union {NUL, CR, LF}

Slots == 0..(RX_BUFFER_SIZE - 1)
EmptyBuffer == [i \in Slots |-> NUL]

(* The keyword each command waits for; the "" of AT+RST matches anything. *)
Expected(c) ==
    CASE c = 1 -> "anything"
      [] c = CWJAP -> UpLine["wifi"]
      [] c = PAYLOAD -> "REPLY"
      [] OTHER -> "OK"

(* The bits wireless_init sets when command c fails three times. *)
FailureBits(c) ==
    {c - 1} \union (IF c = CWJAP THEN {ERROR_WiFi_CONNECT} ELSE {})
            \union (IF c = MQTTCONN THEN {ERROR_MQTT_CONNECT} ELSE {})

(* strstr reads up to the first zero byte. *)
VisibleSlots == {i \in Slots : \A j \in 0..i : W_RxBuffer[j] # NUL}
Visible == {W_RxBuffer[i] : i \in VisibleSlots}
Lines(kind) == {c \in Visible : c.kind = kind}
Finds(kind) == Lines(kind) # {}

-------------------------------------------------------------------------------
Init ==
    /\ W_RxBuffer = EmptyBuffer
    /\ W_RxDataCnt = 0
    /\ receiveDataFlag = 0
    /\ error_code = {}
    /\ error_send_count = 0
    /\ pc = IF Booted THEN "take" ELSE "send"
    /\ cmd = IF Booted THEN POLL ELSE 1
    /\ left = IF Booted THEN 0 ELSE SEND_COUNT
    /\ flag = 0
    /\ ok = FALSE
    /\ asked = {}
    /\ wire = <<>>
    /\ part = 0
    /\ mqttUp = Booted
    /\ received = 0
    /\ acted = {}
    /\ overrun = FALSE

-------------------------------------------------------------------------------
(* The thread *)

Call(c, tries) == cmd' = c /\ left' = tries /\ pc' = "send"
Poll == cmd' = POLL /\ left' = 0 /\ pc' = "flag"

(* wireless_send_thread takes its token; it publishes unless MQTT is down. *)
Take ==
    /\ pc = "take"
    /\ IF ERROR_MQTT_CONNECT \in error_code THEN Poll ELSE Call(PUBRAW, 1)
    /\ UNCHANGED <<shared, status, flag, ok, module, history, acted>>

(* Mutant: sendCount is not decremented. *)
Send_Forever ==
    /\ pc = "send" /\ left > 0
    /\ left' = left
    /\ asked' = asked \union {cmd}
    /\ pc' = "flag"
    /\ UNCHANGED <<shared, status, cmd, flag, ok, wire, part, mqttUp, history, acted>>

(* One turn of the loop of wireless_send_command: transmit and wait. *)
Send ==
    /\ pc = "send" /\ left > 0
    /\ left' = left - 1
    /\ asked' = asked \union {cmd}
    /\ pc' = "flag"
    /\ UNCHANGED <<shared, status, cmd, flag, ok, wire, part, mqttUp, history, acted>>

GiveUp ==
    /\ pc = "send" /\ left = 0
    /\ pc' = "return"
    /\ UNCHANGED <<shared, status, cmd, left, flag, ok, module, history, acted>>

(* wireless_get_receive_flag reads the flag and clears it in two accesses. *)
FlagRead ==
    /\ pc = "flag"
    /\ flag' = receiveDataFlag
    /\ pc' = "reset"
    /\ UNCHANGED <<shared, status, cmd, left, ok, module, history, acted>>

AfterFlag ==
    IF cmd = POLL THEN (IF flag = 1 THEN "wifi down" ELSE "take")
                  ELSE (IF flag = 1 THEN "match" ELSE "send")

FlagReset ==
    /\ pc = "reset"
    /\ receiveDataFlag' = 0
    /\ flag' = 0
    /\ pc' = AfterFlag
    /\ UNCHANGED <<W_RxBuffer, W_RxDataCnt, status, cmd, left, ok,
                   module, history, acted>>

(* strstr for the expected answer. *)
Match ==
    /\ pc = "match"
    /\ ok' = (Expected(cmd) = "anything" \/ Finds(Expected(cmd)))
    /\ acted' = acted \union Lines(Expected(cmd))
    /\ pc' = "wipe"
    /\ UNCHANGED <<shared, status, cmd, left, flag, module, history>>

(* Mutant: the buffer is not zeroed, only the index goes back. *)
Wipe_NoMemset ==
    /\ pc = "wipe"
    /\ pc' = "rewind"
    /\ UNCHANGED <<shared, status, cmd, left, flag, ok, module, history, acted>>

(* wireless_clear_buffer zeroes the buffer, then rewinds the index. *)
Wipe ==
    /\ pc = "wipe"
    /\ W_RxBuffer' = EmptyBuffer
    /\ pc' = "rewind"
    /\ UNCHANGED <<W_RxDataCnt, receiveDataFlag, status, cmd, left, flag, ok,
                   module, history, acted>>

Rewind ==
    /\ pc = "rewind"
    /\ W_RxDataCnt' = 0
    /\ pc' = CASE cmd = POLL -> "take"
               [] cmd # POLL /\ ok -> "return"
               [] OTHER -> "send"
    /\ UNCHANGED <<W_RxBuffer, receiveDataFlag, status, cmd, left, flag, ok,
                   module, history, acted>>

(* A command of wireless_init is over; after the last one main goes on. *)
BootReturn ==
    /\ pc = "return" /\ cmd \in BOOT_COMMANDS
    /\ error_code' = IF ok THEN error_code ELSE error_code \union FailureBits(cmd)
    /\ IF cmd + 1 \in BOOT_COMMANDS
         THEN Call(cmd + 1, SEND_COUNT)
         ELSE cmd' = POLL /\ left' = 0 /\ pc' = "take"
    /\ ok' = FALSE
    /\ UNCHANGED <<shared, error_send_count, flag, module, history, acted>>

(* The result of AT+MQTTPUBRAW is not looked at. *)
PubrawReturn ==
    /\ pc = "return" /\ cmd = PUBRAW
    /\ Call(PAYLOAD, 1)
    /\ ok' = FALSE
    /\ UNCHANGED <<shared, status, flag, module, history, acted>>

(* Mutant: the error bit follows the counter, through its wrap too. *)
CountFailure_Tracks ==
    /\ error_send_count' = (error_send_count + 1) % COUNT_MOD
    /\ error_code' = IF error_send_count' >= PUBLISH_LIMIT
                       THEN error_code \union {ERROR_PUBLISH}
                       ELSE error_code \ {ERROR_PUBLISH}

CountFailure ==
    /\ error_send_count' = (error_send_count + 1) % COUNT_MOD
    /\ error_code' = IF error_send_count' >= PUBLISH_LIMIT
                       THEN error_code \union {ERROR_PUBLISH} ELSE error_code

(* Mutant: a success does not reset the counter. *)
CountSuccess_KeepCount ==
    /\ error_send_count' = error_send_count
    /\ error_code' = error_code \ {ERROR_PUBLISH}

CountSuccess ==
    /\ error_send_count' = 0
    /\ error_code' = error_code \ {ERROR_PUBLISH}

PayloadReturn ==
    /\ pc = "return" /\ cmd = PAYLOAD
    /\ IF ok THEN CountSuccess ELSE CountFailure
    /\ Poll
    /\ ok' = FALSE
    /\ UNCHANGED <<shared, flag, module, history, acted>>

-------------------------------------------------------------------------------
(* wireless_receive_data_handler calls the status function of each link
   twice, and each call searches for the "down" line before the "up" line. *)

TestPc(link, test) ==
    IF link = "wifi"
      THEN [down |-> "wifi down", again |-> "wifi again", up |-> "wifi up"][test]
      ELSE [down |-> "mqtt down", again |-> "mqtt again", up |-> "mqtt up"][test]

AfterTests(link) == IF link = "wifi" THEN TestPc("mqtt", "down") ELSE "wipe"

Tested == UNCHANGED <<shared, error_send_count, cmd, left, flag, ok, module, history>>

(* First call, == !W_OK: the "down" line is there. *)
TestDown(link) ==
    /\ pc = TestPc(link, "down")
    /\ IF Finds(DownLine[link])
         THEN /\ error_code' = error_code \union {LinkBit[link]}
              /\ acted' = acted \union Lines(DownLine[link])
              /\ pc' = AfterTests(link)
         ELSE /\ pc' = TestPc(link, "again")
              /\ UNCHANGED <<error_code, acted>>
    /\ Tested

(* Second call, == W_OK: a "down" line that has come meanwhile decides it. *)
TestAgain(link) ==
    /\ pc = TestPc(link, "again")
    /\ pc' = IF Finds(DownLine[link]) THEN AfterTests(link) ELSE TestPc(link, "up")
    /\ UNCHANGED <<error_code, acted>>
    /\ Tested

TestUp(link) ==
    /\ pc = TestPc(link, "up")
    /\ IF Finds(UpLine[link])
         THEN /\ error_code' = error_code \ {LinkBit[link]}
              /\ acted' = acted \union Lines(UpLine[link])
         ELSE UNCHANGED <<error_code, acted>>
    /\ pc' = AfterTests(link)
    /\ Tested

-------------------------------------------------------------------------------
(* USART2 interrupt: wireless_receive_callback on the next byte *)

Incoming ==
    CASE part = 0 -> [kind |-> Head(wire), id |-> received + 1]
      [] part = 1 -> CR
      [] OTHER -> LF

Arrive ==
    /\ wire # <<>>
    /\ part' = (part + 1) % 3
    /\ wire' = IF part = 2 THEN Tail(wire) ELSE wire
    /\ received' = IF part = 0 THEN received + 1 ELSE received

(* The byte fits: store it, and raise the flag on "\r\n". *)
RxStore ==
    /\ Arrive
    /\ W_RxDataCnt < RX_BUFFER_SIZE
    /\ W_RxBuffer' = [W_RxBuffer EXCEPT ![W_RxDataCnt] = Incoming]
    /\ W_RxDataCnt' = W_RxDataCnt + 1
    /\ receiveDataFlag' =
         IF W_RxDataCnt > 0 /\ W_RxBuffer[W_RxDataCnt - 1] = CR /\ Incoming = LF
           THEN 1 ELSE receiveDataFlag
    /\ UNCHANGED <<status, thread, asked, mqttUp, acted, overrun>>

(* Mutant: the buffer is cleared but the index is not. *)
RxOverrun_KeepIndex ==
    /\ Arrive
    /\ W_RxDataCnt >= RX_BUFFER_SIZE
    /\ overrun' = TRUE
    /\ W_RxBuffer' = EmptyBuffer
    /\ W_RxDataCnt' = W_RxDataCnt + 1
    /\ UNCHANGED <<receiveDataFlag, status, thread, asked, mqttUp, acted>>

(* The index is past the last slot: the byte lands behind the buffer, and only
   then does the check wireless_clear_buffer was meant for see it. *)
RxOverrun ==
    /\ Arrive
    /\ W_RxDataCnt >= RX_BUFFER_SIZE
    /\ overrun' = TRUE
    /\ W_RxBuffer' = EmptyBuffer
    /\ W_RxDataCnt' = 0
    /\ UNCHANGED <<receiveDataFlag, status, thread, asked, mqttUp, acted>>

-------------------------------------------------------------------------------
(* The wireless module and the cloud behind it (external) *)

CanSend(lines) == received + Len(wire) + Len(lines) <= MaxLines
Emit(lines) == CanSend(lines) /\ wire' = wire \o lines

(* Commands are answered late, in another order, or never. *)
Answer(c) ==
    /\ c \in asked
    /\ asked' = asked \ {c}
    /\ \/ Emit(<<"ERROR">>) /\ UNCHANGED mqttUp
       \/ c \notin {CWJAP, MQTTCONN, PAYLOAD} /\ Emit(<<"OK">>) /\ UNCHANGED mqttUp
       \/ c = CWJAP /\ Emit(<<UpLine["wifi"], "OK">>) /\ UNCHANGED mqttUp
       \/ c = MQTTCONN /\ Emit(<<UpLine["mqtt"], "OK">>) /\ mqttUp' = TRUE
       \/ c = PAYLOAD /\ mqttUp /\ Emit(<<"REPLY">>) /\ UNCHANGED mqttUp
    /\ UNCHANGED <<shared, status, thread, part, history, acted>>

(* The access point comes and goes. *)
WifiNotice ==
    /\ WifiNotices
    /\ \E line \in Notices("wifi") : Emit(<<line>>)
    /\ UNCHANGED <<shared, status, thread, asked, part, mqttUp, history, acted>>

(* The broker connection breaks, with a notice or without, and comes back. *)
MqttDrop ==
    /\ mqttUp
    /\ mqttUp' = FALSE
    /\ Emit(<<DownLine["mqtt"]>>) \/ UNCHANGED wire
    /\ UNCHANGED <<shared, status, thread, asked, part, history, acted>>

MqttRestore ==
    /\ ~mqttUp
    /\ mqttUp' = TRUE
    /\ Emit(<<UpLine["mqtt"]>>)
    /\ UNCHANGED <<shared, status, thread, asked, part, history, acted>>

-------------------------------------------------------------------------------
LinkTests == \E link \in Links : TestDown(link) \/ TestAgain(link) \/ TestUp(link)

ThreadNext ==
    \/ Take \/ Send \/ GiveUp \/ FlagRead \/ FlagReset \/ Match \/ Wipe \/ Rewind
    \/ BootReturn \/ PubrawReturn \/ PayloadReturn \/ LinkTests

RxByte == RxStore \/ RxOverrun

ModuleNext ==
    \/ \E c \in Commands : Answer(c)
    \/ WifiNotice \/ MqttDrop \/ MqttRestore

Next == ThreadNext \/ RxByte \/ ModuleNext

Spec == Init /\ [][Next]_vars

(* The interrupt is served: the hardware raises it until the byte is read.
   Neither the thread nor the module owes anything. *)
FairSpec == Spec /\ WF_vars(RxByte)
-------------------------------------------------------------------------------
(* Properties *)

Pcs == {"take", "send", "flag", "reset", "match", "wipe", "rewind", "return",
        "wifi down", "wifi again", "wifi up", "mqtt down", "mqtt again", "mqtt up"}

(* Every variable has its type: the shared buffer holds received chunks, the
   index never leaves 0..RX_BUFFER_SIZE between two interrupts, the failure
   counter stays a uint8_t (driver_wireless.c:82-90, 290). *)
TypeOK ==
    /\ W_RxBuffer \in [Slots -> Chunks]
    /\ W_RxDataCnt \in 0..RX_BUFFER_SIZE
    /\ receiveDataFlag \in {0, 1}
    /\ error_code \subseteq ErrorBits
    /\ error_send_count \in 0..(COUNT_MOD - 1)
    /\ pc \in Pcs
    /\ cmd \in Commands \union {POLL}
    /\ left \in 0..SEND_COUNT
    /\ flag \in {0, 1}
    /\ ok \in BOOLEAN
    /\ asked \subseteq Commands
    /\ wire \in Seq(LineKinds)
    /\ part \in 0..2
    /\ mqttUp \in BOOLEAN
    /\ received \in 0..MaxLines
    /\ acted \subseteq TextChunks
    /\ overrun \in BOOLEAN

(* No line is acted on twice.  Wherever the thread is about to search the
   buffer, none of the lines it could find has already completed a command or
   changed a link's error bit: not after a retry, not after an interrupt that
   stored a byte between the memset and the rewind of wireless_clear_buffer,
   not after an overrun (driver_wireless.c:98-102, 167-175, 357-366).  While the
   MQTT status is tested the Wi-Fi lines just acted on are still there. *)
NoReplay ==
    /\ pc \in {"match", "wifi down", "wifi again", "wifi up"} =>
         Visible \intersect acted = {}
    /\ pc \in {"mqtt down", "mqtt again", "mqtt up"} =>
         \A c \in Visible \intersect acted : c.kind \in Notices("wifi")

(* The gateway's publishing implements PublishMonitor: a success needs a reply
   no earlier success used, and ERROR_PUBLISH is set exactly by PUBLISH_LIMIT
   failures in a row, although the counter behind it is a byte that wraps
   (driver_wireless.c:342-347). *)
Monitor == INSTANCE PublishMonitor WITH
    ReplyIds <- 1..MaxLines,
    used <- {c.id : c \in {a \in acted : a.kind = "REPLY"}},
    credit <- cmd = PAYLOAD /\ ok /\ pc \in {"wipe", "rewind", "return"},
    fails <- IF ERROR_PUBLISH \in error_code THEN PUBLISH_LIMIT ELSE error_send_count,
    alarm <- ERROR_PUBLISH \in error_code

PublishMonitored == Monitor!Spec

(* The thread goes on running.  The code does not promise that of the whole
   gateway: the thread is starved for good once the door motor runs
   (GatewaySchedProofs!DoorStarvesThreads), and a node built with RT_ASSERT halts
   while wireless_init still sleeps (NodeBootProofs!BootNeverUp). *)
ThreadRuns == WF_vars(ThreadNext)

(* An outage of the cloud connection is noticed as long as the node is up and its
   door stays shut, whatever becomes of the notice: if MQTT stays down for good
   and the thread goes on running, then in the end ERROR_MQTT_CONNECT or
   ERROR_PUBLISH stays set, even when the "disconnected" line was never sent,
   or was wiped between a search and the memset, or lost its flag
   (driver_wireless.c:344-347, 359-365; main.c:127-132). *)
OutageDetected ==
    ThreadRuns =>
        (<>[](~mqttUp) => <>[](error_code \intersect {ERROR_MQTT_CONNECT, ERROR_PUBLISH} # {}))

(* A command of wireless_init is under way. *)
InBoot == cmd \in BOOT_COMMANDS

(* The thread runs through one turn of wireless_send_command in this order. *)
StepsOfTurn ==
    CASE pc = "flag" -> 6 [] pc = "reset" -> 5 [] pc = "match" -> 4 [] pc = "wipe" -> 3
      [] pc = "rewind" -> 2 [] pc = "send" -> 1 [] OTHER -> 0

(* Turns that the commands after c may still take, the last one of each only
   to find that no try is left; and the steps wireless_init has left at most. *)
TurnsAfter(c) == (8 - c) * (SEND_COUNT + 1)
StepsLeft == 7 * (TurnsAfter(cmd) + left) + StepsOfTurn

(* wireless_init waits for the module only so long: each step it takes brings its
   end nearer, whatever the module sends late, early or never, and its end is the
   first wait for a token (driver_wireless.c:162-179, 188-218).  It begins with
   StepsLeft = 218 for three tries.  Whether the processor lets it take its steps
   is not said here. *)
BootBounded ==
    [][InBoot /\ ThreadNext =>
         IF InBoot' THEN StepsLeft' \in 0..(StepsLeft - 1) ELSE pc' = "take"]_vars

(* What driver_wireless.c:377 checks for: a received byte is stored inside
   W_RxBuffer. *)
StoresInBounds == ~overrun

(* What driver_wireless.c:110 says wireless_mqtt_connect_status returns, the
   state of the connection: when it reports a lost connection, the last MQTT
   notice received says so. *)
LastNotice(link) ==
    {W_RxBuffer[i].kind : i \in {j \in VisibleSlots :
        /\ W_RxBuffer[j].kind \in Notices(link)
        /\ \A k \in VisibleSlots : k > j => W_RxBuffer[k].kind \notin Notices(link)}}

StatusIsCurrent ==
    pc = "mqtt down" /\ Finds(DownLine["mqtt"]) => LastNotice("mqtt") = {DownLine["mqtt"]}

(* What driver_wireless.c:137 says of the flag: it is set once data that ends
   in "\r\n" has been received.  So when the thread is idle, a complete line
   at the end of the buffer has its flag. *)
LineAnnounced ==
    /\ pc = "take" /\ W_RxDataCnt > 1
    /\ W_RxBuffer[W_RxDataCnt - 2] = CR /\ W_RxBuffer[W_RxDataCnt - 1] = LF
    => receiveDataFlag = 1
===============================================================================
