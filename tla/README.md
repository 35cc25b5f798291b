# A verification model of the RT-Thread / OneNET safety gateway

The repository holds the firmware of four small nodes that together watch a
machine room and guard its door:

```
  detector node  --LoRa (0xFA frames)-->  gateway  <--UART/AT-->  Wi-Fi module  <-->  OneNET cloud
  access node    --LoRa (0xFE frames)-->  gateway
  OpenMV camera  --UART (0xF3 frames)-->  access node  <--UART (0xEF frames)-->  AS608 fingerprint reader
```

Paths below are relative to `src/`; "gateway" is `主机网关_rtthread/`, "detector"
`从机检测_rt-thread/`, "access" `从机门禁_rt-thread/`.

## Inventory

### Gateway

| component | state it keeps | operations | interaction |
|---|---|---|---|
| wireless link (`Hardware/driver_wireless.c`, USART2 handler of `User/main.c`) | `W_RxBuffer`, `W_RxDataCnt`, `receiveDataFlag`, `error_code`, `error_send_count` | `wireless_init`, `wireless_send_command`, `wireless_publish_data`, `wireless_receive_data_handler`, `wireless_receive_callback` | thread and interrupt share the buffer without a lock; AT commands to the module, lines back |
| LoRa reception (USART3 handler, `sensor_read_thread`) | `str_m`, `str_n`, two parser states, the sensor globals | byte handler, two `sscanf` | two parsers on one byte stream; a thread reads the strings while the handler writes them |
| scheduling (`TIM4_IRQHandler`, three semaphores, three threads) | three timers, three semaphore counts, thread states | interrupt, `rt_sem_take`, `rt_sem_release` | the interrupt feeds the threads; fixed priorities decide who runs |
| boot order (`main`) | which of timer, link, semaphores and threads exist | `main` line by line | the timer interrupt runs before the semaphores exist |
| alarm actions (`Report_Move`, `STEP.c`, `BEEP.c`, `LED.c`) | `D0 D1 M0 M1`, buzzer, LED, motors | one evaluation per token | reads the sensor globals; the door motor blocks for 2.56 s |
| UART1 log (`Serial.c`) | `Uart1.RxBuffer` | `printf`, echo interrupt | shares USART1 between thread output and interrupt echo |

### Detector node

`sensor_read_thread` (DHT11, three ADC channels, conversion to ppm) and `sensor_send_thread` (LoRa),
each fed by a semaphore from TIM4, and `oled_display_thread`, which the reader tells
when a round is over. State: the measured values, two timers, three semaphores. The threads
share the values without a lock, and the reader sleeps between the values of one round.

### Access node

`face_tracking_thread` holds the AS608 dialogue (`AS608_read`, USART1 handler) and follows the camera's
frames (`Openmv_read`, USART2 handler); `oled_display_thread`, which it tells after each turn, decides
on the pass; `sensor_send_thread` sends it. State: two packet buffers with their flags, `as`,
`AS_status`, `Face_status`, `Pass_status`, two timers, three semaphores. Each packet buffer is
shared between its handler and the face thread without a lock.

### OpenMV camera

`Face_Reconition_RC1.py`: detect, match against a feature set, register new faces;
sends `[0xF3, x, y, flag, 0xF4]`.

## What is hard in this code

The list in full, with lines, is under "hazards" in `PROJECT.json`. The kinds that
matter most:

* **shared memory without locks** between interrupts and threads: the receive
  buffer and its flag, the LoRa strings, the sensor values;
* **late answers**: a command that timed out is answered while the next one waits;
* **fixed priorities with a busy-waiting thread**: who starves, and when;
* **boot order**: interrupts that run before what they use exists;
* **counters that wrap, indices that are checked too late.**

## Modules

| module | models | checked by | proved in |
|---|---|---|---|
| `WirelessLink` | the gateway's link to the cloud: driver, thread and receive interrupt | `link_*` | `WirelessLinkProofs` |
| `PublishMonitor` | abstract specification of publishing, implemented by `WirelessLink` | `link_boot` | `WirelessLinkProofs` |
| `LoraRx` | USART3 handler: two parsers on one byte stream | `lora_frames` | `LoraRxProofs` |
| `NodeBoot` | the order of `main()` against the timer interrupt; also the abstract specification of a running node's semaphores | `boot_gateway`, `detector` | `NodeBootProofs` |
| `RtSemaphore` | `rt_sem_init/take/release`, as operators on a record | `sched_*`, `boot_gateway`, `detector`, `access_fingers` | `RtSemaphoreProofs` |
| `ReportMove` | `Report_Move` with its debounce counters; also the abstract specification of what the gateway does about its values | `sched_main` | `GatewaySchedProofs` |
| `GatewaySched` | three threads, three semaphores, timer interrupt, fixed priorities; composes the two modules above | `sched_*` | `GatewaySchedProofs` |
| `DetectorNode` | the detector's threads and the values they share; composes `NodeBoot` and `RtSemaphore` | `detector` | `DetectorNodeProofs` |
| `AccessNode` | from a finger on the reader to the pass that is sent | `access_fingers` | `AccessNodeProofs` |
| `CameraLink` | from a face before the camera to the point the servos get | `access_camera`, `access_face` | `CameraLinkProofs` |

`MC*` modules hold the constants of the instances. "map" in `PROJECT.json` gives
the lines each definition stands for. Operators named `X_Y` beside an `X` are
variants of `X` with a plausible mistake; no specification uses them, they are what
"mutants" in `PROJECT.json` puts in place of `X` to see that a property notices.

### WirelessLink

State: `W_RxBuffer`, `W_RxDataCnt`, `receiveDataFlag`, `error_code` and
`error_send_count` carry the names of the code; `pc`, `cmd`, `left`, `flag` and
`ok` are the thread's program counter and locals. The thread is `main` during
`wireless_init` and `wireless_send_thread` afterwards; both run the same driver
code, so one program counter serves. Every access of the thread to the shared
buffer is a step of its own (`FlagRead`, `FlagReset`, `Match`, `Wipe`, `Rewind`,
`TestDown`, ...), because USART2 may interrupt between any two of them; the
handler (`RxStore`, `RxOverrun`) is one step.

Data: a line of the module is three chunks, text, CR and LF, and the text chunk is
the line's keyword; an id tells equal lines apart. Ids, `acted`, `received` and
`overrun` are history and influence no step. The module and OneNET
(`Answer`, `WifiNotice`, `MqttDrop`, `MqttRestore`) are the environment: a command
is answered late, out of order, with an error, or never.

Left out: the `memset` is one step although an interrupt may split it; `strstr` on a
completely full buffer, which has no zero byte to stop at; the text of a publish,
which always fits its buffer (`driver_wireless.c:336-339` would return early).

### LoraRx

`action`, `pRxPacket` and `str` are functions of the two parsers (`action1`, `action2`
and so on in the code). `ReceiveByte` is one call of the handler, both parsers
included. A node sends a frame (`SendFrame`), whose bytes arrive or are lost one by one
(`LoseByte`), any bytes of any number of frames in a row. `main.c:203` and its likes do not
check their index, so arrays are overrun: `Hit` says which cell a store ends up in, by the
layout the linker chose (`Listings/Project.map:3528-3529`: `str_m` right behind `str_n`). What
lies behind `str_m`, the semaphores, is not modelled. Frames of the two nodes do not mix in
the air, and the scan of the arrays by `sensor_read_thread` is not modelled. `hurt`, `broken`,
`synced`, `last` and `touched` are history; `broken` stops counting at `MAX_BROKEN`.

### NodeBoot

`prep` counts the ticks between `Timer_Init` and `rt_sem_init`; `TimerInterrupt` is
`TIM4_IRQHandler` with its `timer++ == N`, so the first release is at tick N + 1;
`halted` is a failed `RT_ASSERT` (`RT_DEBUG` is defined in `User/rtconfig.h:21`).
`TakeSem`, `WaitForSem` and `ReleaseSem` are what threads do to a semaphore, left to
whoever composes the module to place. Nothing is scaled.

### ReportMove and GatewaySched

`Evaluate` is one call of `Report_Move`, given the three results of its comparisons.
`GatewaySched` places it under the scheduler: `Runs(t)` is RT-Thread's fixed
priority rule; `Take`/`Suspend` are `rt_sem_take` with and without a token; `Tick` is
`TIM4_IRQHandler`. Time passes (`Tick`) only while no thread can run or the running one
busy-waits in a motor (`Stepper1_Run`, `Stepper2_Run`) - computing takes no time;
delays of the wireless driver sleep (`Nap`). What arrives over LoRa (`Hear`) reaches
`Report_Move` only through the lowest thread.

### DetectorNode

EXTENDS `NodeBoot`, so the node starts up before its threads run (`Boot`). `BeginRound`,
`ReadDht`, `ReadGas` and `EndRound` are one turn of `sensor_read_thread`, cut at its delays,
during which the two lower threads (`ReadValue`, `Finish`) may run. A value is abstracted
to its age: how many rounds have begun since the one that measured it. `span` collects the
ages that a frame or a display has taken so far and is history. The five delays of the two
MQ sensors are one after each conversion: a delay more between the same two values lets nobody
see anything new. `sprintf` evaluates its arguments in any order; the display reads in the
order it shows.

Time is counted in ticks of 100 ms. A turn takes less than one (35 ms of delays, 30 bytes at
9600 baud, 15 characters of the display), so `Tick` falls at most once into each turn
(`ticked`); where in the turn is open. A DHT11 that does not answer, or answers with a
wrong checksum, leaves its two values as they were, and nobody looks at the result.

### AccessNode

`Ask`, `Look`, `Judge` and `ClearFlag` are `AS608_read`, with the 800 ms between the first two
and an access to shared state each; `Gate` is `GATE_GetData`, whose value decides nothing.
`Handle` is one call of `USART1_IRQHandler`: after 0xEF it counts 15 bytes, whatever they are.
`OledTake`, `ReadStatus` and `SetPass` are the display thread as far as it decides on the pass.
The face thread's loop without its delays is shorter than its 6 ms interval, so `FaceDue`
comes only while it sleeps or waits; during the 800 ms tokens pile up and the
loops that follow are without a finger (`NoFinger`) or with another touch. `Send` is the
highest thread and runs when it is due.

The fingerprint reader is external: it answers touches in order (`Answer`), within 800 ms, later or
never, with a match or without, and bytes get lost (`LoseByte`). Only the byte of
`Serial_RxPacket` that the code looks at is kept. `matched`, `lost`, `good`, `landed`, `taken`
and `inTime` are history: they say what an answer was and where the verdict came from.

### CameraLink

`Detect` is one turn of the script, `Index` its choice among the faces (a count of the faces that
were larger than the one counted before, used as a position), `ReceiveByte` is
`USART2_IRQHandler`, and `Look`, `ClearFlag`, `CopyX`, `CopyY`, `CopyStatus`, `Track` are `Openmv_read`
and its use, a step for each access to the flag and the packet, since the interrupt may come between any
two. `begun` counts, as history, the frames the camera begins between the copies of x and y. A datum stands for its place in its frame (`x`, `y`, `z`) and the number of the frame: no
datum is 0xF3 or 0xF4, because the picture is 240 by 160. The point (0, 0) of a
picture without a face is a frame like any other. `CHECK_DEADLOCK FALSE`: the camera stops after
`MaxFrames`, and the node then waits for it.

## Runs

| run | question | result |
|---|---|---|
| `link_boot` | From power-up with late answers: is a line acted on twice? Does publishing implement `PublishMonitor`? Does every step of `wireless_init` bring its end nearer? Is a lasting loss of the broker reported, even if its notice gets lost, as long as the thread goes on running? | all hold |
| `link_overrun` | Are bytes stored inside `W_RxBuffer`? | violated: one byte is written behind it |
| `link_status` | Does `wireless_mqtt_connect_status` return the current state? | violated: it prefers the older notice |
| `link_flag` | Does a complete line have its flag? | violated: flag read and clear are two accesses |
| `lora_frames` | Does a whole frame land exactly, whatever came before, an overrun array included? How much must be lost before an array is overrun? | holds; an array is overrun from the second frame in a row without its 0xff in the instance, from the fourth in the code |
| `boot_gateway` | Does the timer interrupt find its semaphores? | violated after 1001 ms |
| `sched_main` | Wakeups, token counts, buzzer logic, alarm latency, and whether the lowest thread runs, with exhaust runs and uploads | holds |
| `sched_door` | The lowest thread once the door may open | violated: door runs repeat for ever |
| `detector` | Does the interrupt find its semaphores? How far apart can the values of one frame be? Do tokens pile up? Do frames of one round come again and again? | holds: two rounds that follow each other; never two tokens |
| `access_fingers` | Does a pass go back to an accepted finger? Does an answer in time win over late ones? Does the handler recover? Is the last verdict sent? | holds |
| `access_camera` | Does a whole frame land? Which frames can a point mix? Is a frame ever forgotten? Is each followed? | holds: x at most one frame ahead of y, y ahead of x by at most one and those begun between the copies; none forgotten |
| `access_face` | Is the largest face chosen? | violated with three faces of sizes 2, 1, 3 |

### Bounds, and why they are enough

* `link_*`: a line is three chunks, so a buffer of 4 (`link_boot`, `link_overrun`) fills
  and overruns within two lines, and one of 8 (`link_status`, `link_flag`) holds both; two lines let one late
  answer meet a later command. `PUBLISH_LIMIT` 2 and `COUNT_MOD` 3 make the
  counter reach its limit and wrap. `MaxLines` bounds what the module sends, not what
  the thread does: failures go on without end. The proofs have none of these limits, and
  hold also for a third line, which lets a reply be lost between two others.
* `lora_frames`: texts of one and two characters, so a longer one leaves its tail
  behind a shorter one; arrays of 3, which one frame does not fill and a second one without an 0xff
  between them overruns, and an index that wraps at 4, so that it wraps behind the array. `MAX_BROKEN` 1 bounds
  what `broken` counts, not the losses: any number of frames in a row may be broken. In the code
  texts have at most 31 bytes and the arrays 100, so the fourth frame in a row is the first that can overrun one.
* `sched_*`: a tick stands for a third of a second: the interval of 1001 ms is 3 ticks, a motor run of
  2560 ms is 8, the delays of 25 and 500 ms are 1 and 2. A run is within 3 intervals and not
  within 2, as in the code. `ALARM_COUNT` is 3 instead of 5. In `sched_main` danger and gas may be heard
  together or apart, so exhaust runs begin before, in and after a danger. `ALARM_DEADLINE` 23 is what the
  formula of `AlarmComesInTime` gives for these numbers, and it is tight: with 22 TLC finds
  a violation.
* `boot_gateway`: unscaled. The gateway's preparation is its shortest, every command answered at
  once (3250 ms of sleep). The access node's start-up is not run: its preparation is
  within its shortest interval of 5 ticks, which is the hypothesis of `BootSafe`.
* `detector`: unscaled. `MAX_AGE` 3 is one more than two rounds need, so a third round would show;
  `RT_SEM_VALUE_MAX` 3 leaves room for the second token that never comes.
* `access_fingers`: an answer of 5 bytes with the code as the third; the code compares only
  the count with the length and the position with the code's. Two touches give one late answer over
  another touch; two tokens pile up as any number would, since each is a loop of its own.
  The theorems hold for every length, position and number of touches.
* `access_camera`: three frames, so the copy can meet the end of one, the whole of another and the
  start of a third. The frame is as long as the code's.

### Fairness

* `FairSpec`: weak fairness of the receive interrupt (the hardware raises it until the byte is read). Of
  the thread nothing is assumed; `OutageDetected` has as its hypothesis that it goes on running
  (`ThreadRuns`). The code gives that only while the node is up and its door stays shut: after a door
  run the upload thread never runs again (`DoorStarvesThreads`, `sched_door`), and a node built with `RT_ASSERT`
  halts while it starts (`BootNeverUp`, `boot_gateway`); an outage is then not reported.
* `FairSchedSpec`: weak fairness of the processor (`ThreadStep`) and of `Tick`.
* `FairDetectorSpec`: weak fairness of start-up, processor, delays and `Tick`.
* `FairAccessSpec`: weak fairness of the face thread, of sending and of the timer; strong fairness of the
  display thread, which gets what the face thread leaves of each interval: the face thread's loop without its
  delays is shorter than its interval, so the display thread's turn comes again and again, but not for good.
* `FairCameraSpec`: weak fairness of `Openmv_read`, to which the face thread comes back.

Nothing is assumed to happen at the Wi-Fi module, the cloud, the radio, the fingerprint reader or the
camera: each may fall silent, and bytes may be lost without limit.

## Proofs

All proofs are checked by TLAPS for every value of the constants that meets the named assumptions.

* `WirelessLinkProofs` (from `LinkAssumption`): `TypeCorrect`, `NeverReplays`,
  `ImplementsMonitor`, `BootIsBounded`, `RepliesRunDry`. `NoReplay` is not inductive: what keeps a stale line from turning
  visible again is that, outside the stretch from search to memset, no slot of
  the buffer - visible or behind a zero byte - holds a line that was acted on
  (`BufferOK`), that ids are given out in order (`FreshOK`) and that a positive result lives
  only between search and return (`LocalOK`). `CountOK` relates counter and bit across the wrap.
  `BootIsBounded` proves `BootBounded`: `StepsLeft` counts what `wireless_init`
  can still do, from the commands to come, the tries left and the place in the turn; every step of the
  thread lowers it, no other step touches it, and it begins with 56 * `SEND_COUNT` + 50, which is 218.
  It bounds the tries and says nothing of when the processor lets them happen.
  `RepliesRunDry` is what `OutageDetected` rests on: while the broker is gone no step adds to the replies, on the wire
  or unused in the buffer, that a publish can still succeed with (`RepliesLeft`), and each success uses one up for good;
  after the last one `ImplementsMonitor` lets `PUBLISH_LIMIT` publishes set the bit.
* `LoraRxProofs` (from `LoraAssumption`; `BrokenAssumption` only says that `broken` counts far enough): `LoraTypes`,
  `FramesLand`, `FramesResynchronise`, `OverrunsNeedLosses`, from one invariant and for any losses. `RoomLeft` bounds an
  open parser's index by the broken frames in a row so far, `Landing` follows a whole frame byte by
  byte, `EndsClose` says an 0xff closes both parsers.
* `RtSemaphoreProofs`: what take, suspend and release do to a semaphore of threads, as one lemma
  (`SemaphoreOps`) the proofs about the two nodes cite.
* `NodeBootProofs`: `BootSafe`, from the hypothesis `PreparationIsShort` (no preparation outlasts an
  interval); and `BootNeverUp`, from the opposite, `PreparationIsLong` (every preparation outlasts
  some one interval): then not one semaphore is ever made. The gateway meets the second one
  (3250 ms at least against 1001), so what `boot_gateway` finds is not a matter of unlucky timing.
* `DetectorNodeProofs`: `DetectorImplementsBoot`, a refinement, by which `BootSafe` carries over
  (`DetectorAsserts`); and, from `PreparationIsShort` and `RoundsAreApart` (two ticks or
  more between rounds), `DetectorTypesHold`, `SnapshotsSpanTwoRounds`, `TokensAreWorkedOff`. Three bounds
  hold each other up: a round begins when its timer was just reset (`Turns`), so after its
  end the next is further away than any turn that has already begun lasts (`Lately`), so such a
  turn meets at most that one round (`Spans`, `Told`), so its token is gone before the next
  is given. The sending interval plays no part: the frames' timer may drift against the readings as it will.
* `AccessNodeProofs` (from `AccessAssumption`): `AccessTypes`, `GrantsAreReal`, `AnswersInTimeAreUsed`,
  `AnswersResynchronise`, `NoVerdictMissed`. `WireOK` says what can stand where in an answer under way,
  `Resyncing` and `Landing` follow it into the handler, `Timely` says that answers come in the order of the
  touches and that one in time stays flagged until it is used, `Granted` leads each verdict back to a
  match, `VerdictUnderWay` leads a verdict forward to `Pass_status`. `VerdictComesToRest` is the part of
  the liveness property `VerdictSent` that needs no fairness: while `Pass_status` does not show a stored verdict
  a thread is due to bring it there, and once it does, no step but another verdict takes it away again.
* `CameraLinkProofs` (from `CameraAssumption`): `CameraTypes`, `FramesLand`, `PointsAreCurrent`. `Lossless`
  ties the cells of the packet to the byte of the frame the handler is at, `Copying` ties the copy to the
  cells, so that x is at most one frame ahead of y, the one that was on its way. In the other direction there is
  no fixed bound: `sensor_send_thread` of the access node may hold up the copy between x and y for
  the time of a frame to the radio, and the code does not fix how often the camera sends; y is ahead of x by at most
  one frame and those begun meanwhile (`begun`). `FramesAreKept`
  (`NoFrameForgotten`) and `PointsGoForward` hold with lost bytes too: `Forward` orders the frame of the cell, of
  the copied x and of the point last used, and an unread frame keeps its flag. Together with the fairness of
  `Openmv_read` the first is why each frame is followed.
* `GatewaySchedProofs`: `BuzzerCorrect` of `ReportMove` alone - the debounce counters are never reset by the other
  side; `RunsCounted` says that while the buzzer is off `D0` is at least the run of dangerous
  evaluations, and while it is on `D1` at least the run of calm ones. `ThreadTypes` and `NoWakeupLost`, by
  `WaitersListed`: each semaphore's list is its own waiting thread or empty. `SchedulerImplementsReport`: every
  step of the scheduler is an evaluation or a stutter of `ReportSpec`, by which the buzzer's logic
  carries over to the scheduled gateway (`GatewayBuzzes`). `AlarmThreadKeepsUp`, from the hypotheses that
  the door stays shut and that a run of the exhaust motor is shorter than `ALARM_COUNT` intervals (2560 ms
  against 5005): the tokens, the time since the last one and what is left of a run never add up to more than one run
  (`WorkedOff`), so the evaluations due after it are too few to begin the next.
* `AlarmComesInTime` (same module) gives the alarm's latency as a formula: while the door stays shut, the buzzer is on at most
  `ALARM_COUNT` + k intervals and `Late` after a danger has come to stay, where k intervals are enough for a run
  of the exhaust motor, k is no more than `ALARM_COUNT`, and `Late` is what a run takes beyond one
  interval. For the code's numbers k is 3 and the bound 8 * 1001 + 1559 = 9567 ms. The invariant that
  proves it is `InTime`: the time that has passed since the danger (`ignored`) and the time still owed to the
  buzzer (`Owed`) never exceed the bound together. What is owed depends on whether the sensor
  thread has parsed the danger (`OwedSeen`: the evaluations missing, less the tokens at hand) or not
  (`OwedUnseen`: also the wait for its turn behind at most one run), and `InStep` says that
  the timers of the two threads are always equal and that the sensor thread has its token before a run can keep
  it from the processor.
  `KeepsUpIInv`, the invariant of `AlarmThreadKeepsUp`, bounds the tokens. The hypotheses (`DoorStaysShut`,
  `RunsWithin(k)`, which also asks that k tokens fit into a semaphore, and a deadline no shorter than `DelayBound(k)`)
  are met by the code's numbers and by the instance of `sched_main`.
* `DoorStarvesThreads` (same module) shows the other side for all intervals: if a run of the door motor is as long as
  `PASS_COUNT` intervals (`DoorRunIsLong`; 2560 ms against 2002), then with the first run begins a state, `DoorKeepsOn`,
  that no step leaves, and in it the sensor and the upload thread never run. So `sched_door` is not a matter of one
  schedule: nothing that is heard afterwards can stop the door.

Only model-checked: the liveness properties `OutageDetected`, `SensorFollows`, `WholeAgain`,
`VerdictSent` and `FrameFollowed`. Liveness under fairness is out of the prover's reach; for
`OutageDetected`, `VerdictSent` and `FrameFollowed` the safety they rest on is proved
(`RepliesRunDry`, `VerdictComesToRest`, `FramesAreKept`). Every invariant that a passing run checks is a theorem.

## Disagreements between code and comments

`link_overrun`, `link_status`, `link_flag`, `sched_door`, `boot_gateway` and `access_face`, each with its quotation
under "findings". `sched_main`, `sched_door`, `link_overrun`, `link_status` and `link_flag` start from a gateway
that has come up, although `boot_gateway` shows that it does not when `RT_ASSERT` is compiled in, and
`link_boot`, which starts at power-up, follows `wireless_init` past the tick at which that build halts: what these
runs show holds of a gateway built without the assertion, or whose failed assertion does not stop it.

Further facts:

* `User/main.c:203` and `:220` of the gateway store without looking at the index. From the fourth frame in a row
  on whose predecessors lost their 0xff, text runs from `str_n` into `str_m` and from `str_m` into the
  semaphores. No line of the repository says otherwise, so there is no finding; the overrun is in the behaviours
  of `lora_frames`, and `OverrunNeedsLosses` says when it can come.
* `DHT11.c:90` of the detector keeps the old temperature and humidity after a wrong checksum. No property bounds their
  age, because the code does not: `SnapshotSpansTwoRounds` and `WholeAgain` speak of when values were read into
  a frame.
* `timer++ == N` fires every N + 1 ticks, so the "1000 ms" of the gateway's `User/main.c:18` are 1001.
* `User/main.c:16-17` of the access node give its intervals in units of 100 ms; its `Timer_Init(100, 720)`
  makes a tick 1 ms.
* The access node's `User/main.c:226` speaks of 10 bytes; 15 are counted.
* `DHT11.c:78` of the detector calls 0 success; 0 is also what a wrong checksum returns.
* `Face_status` is copied from a cell that no frame is ever stored in (`User/main.c:192` of the access
  node); nothing uses it.

## Not modelled

* The gateway's UART1 log: an echo of what is typed on a debug line; no other component reads what it stores.
* The scan of `str_m` and `str_n` by `sscanf` while the handler writes them: what an overtaken scan should
  return is stated nowhere.
* The PID control of the servos and the conversions of the detector to ppm: floating-point arithmetic.
* The camera's image processing and its registration of faces: library calls on pictures.
* Pin and display drivers, which only write, and drivers that nothing calls.
* The whole as one model: the gateway's reception and its threads are joined only by `Hear`, the nodes only by what
  a frame says.
* Vendored code: RT-Thread beyond its semaphores and priorities, the STM32 library, cJSON. It is by far the
  largest part of the repository; the nodes' own code is about 3500 lines, displays and drivers included.

## What would come next

1. `GatewaySched` composed with `LoraRx`: the sensor thread's scan of an array that the handler is writing, and the
   refinement of `Hear` and `SensorRead`.
2. The system: from a finger at the access node, over LoRa, to the door motor.
3. What `SensorFollows` and `WholeAgain` rest on besides fairness, as theorems: how long the sensor thread waits
   behind the others, and how long after the last disturbance a frame of one round comes.
