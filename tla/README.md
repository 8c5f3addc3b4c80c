# A verification project for the forklift collision-warning system

The repository warns the driver of a forklift of people nearby. Cameras find
the marker on the forklift and the people, a central server judges the danger,
a terminal on the forklift shows it, and an FPGA drives the lamps, the buzzer
and the relay that cuts forward movement. This directory holds TLA+ models of
the parts that decide, checked with TLC; what the runs check of their safety is
proved with TLAPS for every value of the constants.

## 1. Inventory

| Component | State it keeps | Operations | Hard part | What makes it correct |
|---|---|---|---|---|
| Danger judgment (`logic/judgment/danger_judgment_engine`, `judgment_pipeline`) | hysteresis level, emergency latch, last distance, dead-reckoning latch and time, active stream | evaluate, resetHysteresis, setActiveStream | the memory is spread over five members and outlives frames | verdict and memory agree; no flicker; nothing inherited from another stream; cutoff only on a measured distance |
| Announcement gate (`announcement_gate.hpp`) | published level and exception, pending level and its time | apply, reset | two confirmation times, irregular ticks | neither early nor late; SAFE carries no alarm |
| Result channel (`result_dispatcher.hpp`, `result_publisher.hpp`) | last judgment, heartbeat time, decision number; queue, link state; retained status and will | submit, heartbeat thread; publish, worker, callbacks, connect, stop | three threads and a network, overflow, failures, crashes | order, newest survives, eventual delivery, unbroken event chain; "online" does not outlive the server |
| Event log (`logging/event_logger`) | queue, batch, transaction, counters | log, run, writeBatch, stop, flushWithin | stop against a sleeping or writing worker; database failures | every row stored or counted; stop drains |
| Forklift tracking (`logic/pipeline/safety_frame_pipeline`) | a sighting per stream, position in use, grace time, active stream | ArUco frame, tick, selectAssignment | frames of several cameras in any order, dying cameras | largest fresh view, bounded age, assigned view is live |
| Assignment publisher (`network/assignment_publisher`, `HandoverClient`) | one waiting message per terminal, what is not acknowledged | publish, run, callbacks | reconnects that send again, failed publications, restarts | the screen ends on the newest assignment |
| Central server (`main.cpp`, `bounded_queue.hpp`) | event queue, terminals, threads, RTSP session of each stream | enqueue, processLoop, statusLoop, start, stop, stream worker | stop order, dropped events, pipelines replaced while stop() runs | services outlive judging, stop ends, no pipeline left playing |
| Input (`input/rtp_metadata_receiver`) | reassembly buffer, last sequence number | packet | lost packets, wrapping numbers | documents are whole |
| Sensor uplink (`network/sensor_uplink_receiver`, `network_sensor_reader`; `forklift-device/sensors`) | latest sample per terminal, last good value | poll, publish, receive, read | freshness under two locks, dead publishers | stale means fault, a reading is the terminal's own |
| Distance sensor driver (`sensors/kernel/vl53l1x_driver.c`) | registrations, ranging and data-ready state | init, exit, probe, read | seven registrations to unwind, three of which fail unnoticed; failing transfers | a load that returns an error leaves nothing, a fault costs one stale reading |
| FPGA safety logic (`gpio-control/src`) | stop, cutoff, warning latch, watchdog, self test | one clock edge | bounces, packets meeting timers | latches hold, released on purpose only |
| FPGA event path (`event_detector.v`, `event_tx_fifo.v`, `event_uart_tx.v`) | previous values, FIFO, overflow flag | one clock edge | events in one clock, full FIFO | no lost change of state |
| FPGA receiver and outputs (`uart_rx.v`, `packet_parser.v`, `buzzer_ctrl.v`, `led_pattern.v`) | parser and UART states, patterns | one clock edge | resynchronisation, patterns shared by all alarms | only checked packets; an alarm is heard and seen |
| Wireless relay (`gpio-control/wireless_relay`) | frame being assembled, frame being sent, last cutoff bit and its time | byte interrupt, main loops of both nodes | an interrupt against the loop, losses, resets | a cutoff reaches the relay |
| Forklift terminal (`forklift-device/qt`) | active and pending camera, link state, serial link | handover, risk message, timers | swap deadline, link loss, reconnects | lamp shows the stream on screen, watchdog is not fed without a link |
| Terminal video and latency record (`RtspVideoSource`, `VideoSourceManager`, `LatencyTracker`) | pipeline, retry times, waiting frame; open measurement, rows | start, stop, timers, bus and streaming threads; T1, T2, T3 | calls queued by a session that is over; a render thread | the source tries again and stays stopped; each change has its own times |
| Camera detector (`cctv/ArUCoDetector`) | frame slots, in-flight marks, workers, settings, test run | store, take, complete, start, stop, run, cancel | workers against restarts, a test that borrows the detector | one worker per channel, operation restored |
| Camera calibration (`cctv/ArUCoCalibration`) | board, captures and result per channel, result files | set board, capture, discard, reset, calibrate, result, undistort | memory and file, changing boards and zooms | a result is of captures of one kind |
| Calibration app (`calibration_app/server.py` and its tool) | photos of a session, result | grab, delete, reset, calibrate, show undistorted | a thread per request, one directory | photos are checked, results whole, temporaries removed |
| Homography app (`homography_app/web/server.py`) | open stream and its ffmpeg, captures, results, operational files | switch, capture, solve, align all | a thread per request, renames one by one | one receiver; operational files of one alignment and the right stream |
| People tracking (`logic/tracking`) | tracks per camera, cross-camera identity | object frame, nearest person | floating-point geometry, ageing | no stale person, no duplicate |
| Control center (`operator-device/qt`), monitoring app, configuration, parsers, CSV logs, QML | - | - | formats and display | not modelled, see section 7 |

How they interact: a camera stream puts object and ArUco frames into the event
queue of the server, a thread of its own puts a tick there every 100 ms, and
one process thread takes them out. ArUco frames go to forklift tracking, which
may assign another stream; the assignment is published and the gate reset.
A tick asks tracking for the position and the uplink for the sensors, judges,
passes the judgment through the gate and submits the result to the dispatcher.
From there it goes by MQTT to the terminal, and as an event row, when the state
changed, to the event log. The terminal repeats the level of its active camera
to the FPGA by serial line every 100 ms, and stays silent when the server is
lost, so that the watchdog of the FPGA fires. The FPGA reports its events back
by the same line, where the TX node of the wireless relay listens for the
cutoff bit. The calibration and homography tools work before and beside all
this: they write the files the server reads at its start.

The hazards of this code, each at its line, are in `PROJECT.json`, with the
properties that cover them.

## 2. Modules

| Module | Models | Checked in |
|---|---|---|
| `DangerJudgment`, `DangerJudgmentProofs` | the judgment engine and the pipeline step around it | `MCDangerJudgment` |
| `AnnouncementGate`, `AnnouncementGateProofs` | the gate, with the calls of the server that reach it | `MCAnnouncementGate` |
| `ResultDispatcher`, `ResultDispatcherProofs` | dispatcher, publisher, broker link and retained message | `MCResultDispatcher` |
| `LossyLog` | abstract specification: what a log that may lose rows promises | by refinement |
| `EventLog`, `EventLogProofs` | the event logger, its worker, its stop and SQLite; the refinement of `LossyLog` | `MCEventLog` |
| `ForkliftTracking`, `ForkliftTrackingProofs` | the ArUco half of SafetyFramePipeline | `MCForkliftTracking` |
| `FpgaSafety`, `FpgaSafetyProofs` | stop, cutoff, warning latch, watchdog, self test | `MCFpgaSafety` |
| `OperatorTerminal`, `OperatorTerminalProofs` | the forklift terminal between the risk channel and the FPGA | `MCOperatorTerminal` |
| `FpgaEvents` | event detector, heartbeat, queue, frames and bytes of the FPGA | `MCOperatorTerminal` |
| `UartLink`, `FpgaReceiver` | the serial wire bit by bit; the packet parser byte by byte | `MCFpgaSafety` |
| `FpgaBuzzer`, `FpgaLed` | the outputs clock by clock | `MCFpgaSafety` |
| `WirelessRelay` | both radio nodes of the cutoff relay | `MCAnnouncementGate` |
| `CentralServer` | threads, queue and stop order of main.cpp | `MCAnnouncementGate` |
| `MetadataStream` | stream worker, RTSP session, RTP reassembly | `MCForkliftTracking` |
| `SensorUplink` | publisher loop, receiver cache, reader | `MCForkliftTracking` |
| `TofDriver` | kernel driver of the distance sensor | `MCOperatorTerminal` |
| `AssignmentChannel` | assignment publisher, broker, HandoverClient | `MCEventLog` |
| `DetectionDispatcher`, `TestRun` | the camera's detector and its performance test | `MCDangerJudgment` |
| `ServerStatus` | birth, farewell and will of the server | `MCSideParts` |
| `TerminalVideo`, `LatencyTracker` | video source and latency record of the terminal | `MCSideParts` |
| `CameraCalibration`, `CalibrationSession` | lens calibration in the camera and on the server | `MCSideParts` |
| `CameraStream`, `HomographyJobs`, `GlobalAlignment` | the homography app | `MCSideParts` |

`MC...` modules give constants values. Where one instantiates several parts
that share no state, a variable `machine` says which of them runs in a
behaviour; the others stand still. This checks every part alone under all its
inputs, and is not a composition: nothing one part does reaches another. The
property `...Safety` of such a part is the conjunction of the invariants its
module names, each with a comment of its own. Definitions called `Bug...` are
the plausible slips of the same code that `PROJECT.json` lists under "mutants";
no behaviour of a specification uses them.

### The core

**DangerJudgment.** The variables are the mutable members of the engine and of
the pipeline, plus the last result. `Evaluate` is one processFrame: the camera
stage (measure, hold while hidden, forget), the ToF stage, detectException, the
floors. Distances are numbers in a finite set; the collision radius is
subtracted as in the code. `last_dead_reckoning_time_` is kept as an age.
`setActiveStream` resets the hysteresis only for a different stream.

**AnnouncementGate.** `apply` takes a judgment and the time since the one before;
what the engine may hand over is limited to what `ExceptionHasFloor` of
DangerJudgment shows. `judged_risk` and `judged_age` are history.

**ResultDispatcher.** One action per critical section or call outside the lock.
submit is three steps (under the mutex, the sink, the event row), the heartbeat
two (copy, sink), so that both threads race for the queue as in the code.
A judgment is the state that sameState compares plus one detail it does not.

**EventLog.** One action per critical section or call outside it. The mutex is
held across two steps in one place, between the predicate of cv_.wait and the
sleep; "parking" stands for it and `MutexFree` keeps `log` out. BEGIN, each
INSERT and COMMIT may fail, and a failing INSERT may roll the transaction back
as SQLite does when the disk is full. `flushWithin` is a read of
`queue_` and `writing_`; `DrainedMeansSettled` says what its answer is worth.

**ForkliftTracking.** A frame is a stream and the marker's pixel area, 0 without
a marker that maps to the floor. Time points are ages. `processArucoStreamFrame`
is the whole handler: record or erase the sighting, choose the largest fresh
one, start or clear the grace time, assign a stream. Ticks and object frames
read this state without changing it, so they need no action.

**FpgaSafety.** All registers are clocked by one edge, so one action, `Clock`, is
the conjunction of one action per Verilog module, each reading the registers as
they were before the edge. Inputs of an edge are the synchronised levels of the
two contacts and the decoded packet, if any. History variables count clocks.

**OperatorTerminal.** Everything in the terminal runs in one Qt event loop, so an
action is one event: a queued callback of libmosquitto, a timer, a first frame.
Time is counted in polls of the watchdog; timers that have run out are served,
in any order, before the next poll. `processPayload` is the whole reaction to a
message: the watchdog clock, the cache of MetadataDistributor with its recovery
of the other cameras, what the active camera shows, and the frame that is sent
when SET_RISK resumes. After a serial error a frame may or may not get through.
`fpga_risk` and `fpga_silence` stand for the FPGA; its watchdog fires when
`fpga_silence` exceeds 500 ms (`CommErrorIsExact` in FpgaSafety). Cameras are
named by their stream id, as the example configuration does; under an alias
(camera id) the cache of a lost link would not be found.

### The FPGA around it

**FpgaEvents.** Again one action `Clock`, the conjunction of one action per
Verilog module. An event is its source and the level it tells; the ten bits of
a byte are one count of clocks. The queue is kept as in the code, as memory,
two pointers and a count, and `RingHoldsLine` relates it to the line of frames
it stands for. The status byte of a heartbeat is left out.

**UartLink.** Sender and receiver with every register. The wire is asynchronous:
the first flip-flop takes either value at an edge. `Disturbed` lets the wire
take any value at any clock; `CleanByteArrives` is about bytes that were not.

**FpgaReceiver.** The parser is told from its checksum: a byte is a command, the
header, the header changed by a command or data, or any other. Any byte may be
lost or changed; `AcceptedWasSent` is about single faults, since several can join
the parts of two packets into a third that fits its XOR. `WholePacketIsObeyed`
gives the price of resynchronisation: one packet.

**FpgaBuzzer, FpgaLed.** Alarm state, pattern and tone, and the take-over by
the self test. How long an alarm may be silent or dark is a definition derived
from the patterns (`LongestSilence`, `LongestDark`).

**WirelessRelay.** The interrupt per byte of the TX node runs between the steps
of its main loop; loading a frame into the radio takes a step, in which the
interrupt may overwrite it. The unit of time is one blocking transmission. The
tick of the RX node wraps. Overrun of the HAL, `Error_Handler`, an unpowered RX
node and damaged bytes that pass the XOR by chance are left out.

### The server around it

**CentralServer.** Stream workers and the status thread fill the queue, the
judging thread empties it. waitPop holds the mutex from its predicate to the
wait ("decided"), notifyAll does not take it: the lost wakeup is in the model,
and `StopReturnsOutsideWindow` says that it is the only way for stop() to hang.
What judging does is in the other modules.

**MetadataStream.** The worker with its session, retries and exclusion, stop(),
and the reassembly of a document from packets that may be lost. GStreamer is the
messages it posts. In a session whose packets come without RTP header (`bare`;
chosen anew for each) the reassembler is passed by: a payload that begins with a tag is
handed on as a document, any other is counted. The first packet of a document
begins with one, a later one if the cut falls there. Failures are counted over
sessions and forgotten at PLAYING; one after PLAYING counts again, so
`PlayingIsForgiven` has to except a camera that is allowed a single failure.

**SensorUplink.** A message carries what its poll really read, so that
`TrueReadings` can tell a placeholder from a measurement. The cache and its
staleness are read in two steps, as under two locks. The run uses one terminal,
one sensor and one reader, besides a stranger and garbage.

**TofDriver.** mod_init with a failure at each of its registrations, mod_exit,
probe, and driver_read's steps for several readers. A ranging has a number, so that a
stale result can be told. mod_init notices only the failures of alloc_chrdev_region,
i2c_get_adapter and i2c_add_driver: device_create and i2c_new_client_device return an error
pointer where it tests for NULL (:438, :456), cdev_add a negative errno where it
compares with -1 (:444), so loading goes on without the item (`Unnoticed`).
class_create's error pointer passes its test, too (:432), and is written through
at once (:436): an oops that leaves the region (`Oopsed`). A driver without a client
is loaded and never probed.

**AssignmentChannel.** Queue and worker, the library that keeps messages until
they are acknowledged and sends them again, the broker's retained message, and
the terminal, which takes every assignment that comes on its topic. A resend may
let the broker and the screen go back to an older assignment for a moment;
`InOrder`, `CaughtUp` and `ScreenSettles` say that they end with the newest. The
library of the server may not start (`library_runs`), and the terminal's one
connection attempt may fail (`loop`): nobody tries again, and `ScreenSettles` is
about the other cases.

**ServerStatus.** The main thread (start, three steps of stop), the network
thread (dial, CONNACK, birth), and the broker with one session per client id.
A process may die at any step; what it had sent is read before its end is noticed,
or not at all. A failing `will_set` and a restart of the broker are left out.

### Cameras, tools and the screen

**DetectionDispatcher.** TakeTask's scan is a step per slot, the two locks are
kept apart; buffers are counted. A completion carries the frame, and a test that
observes keeps it (`kept`), buffer and all, until it forgets its completions.
**TestRun** is the thread that borrows the dispatcher, the event thread, and the
settings file with a crash between write and rename. Settings may enable no
channel (`Disabled`); the dispatcher then does not run. `completions` stay after
the last cycle, with the buffers they hold (`InUse`). TestRun assumes that a thread
can be created when the settings are restored.

**TerminalVideo.** Messages on the bus and calls posted to the main thread are
queues, so that both may be of a session that is over. `good` tells whether what
a call says is still true. Timers fire at any time while they run. `fooled`
records the two calls that make the source give up (section 5).

**LatencyTracker.** T1 and T3 on the main thread, T2 on the render thread, which
synchronises while the main thread waits and swaps at any time.

**CameraCalibration.** Requests one after the other, a restart between any two. A
result is the set of captures it was computed from; that a computation fails, or
that the file cannot be written or is cut off, is a choice.

**CalibrationSession.** A thread per request; between two steps every other request
that changes the directory may do so. How well a photo shows the board is one of
two values. The preview with drawn markers is a file of its own (`preview`), and so is
the file a request to see a photo undistorted writes and removes again (`temporary`).
The tool lists both, in the order of their names: temporaries, photos, preview. A crash of
the app, which would leave a temporary for good, is left out.

**CameraStream.** Three workers, each with its ffmpeg or its snapshot requests;
registering, killing, reading a chunk, storing a frame of it and the end of the
chunk are steps. The pipe still yields what ffmpeg had written when it was killed; a
frame is stored when its stream is the active one, whoever read it. `late` are the workers
that were reading when they were told to stop. **HomographyJobs** has one
step per file operation, but the tool's reading of the layout and writing of the
result are one. **GlobalAlignment** follows the joins breadth-first as the code
does; a transform is a permutation, since those do not commute either.
Measurements are exact, so the optimizer has nothing to change and is left out.

## 3. Runs

All bounds are constants of the .cfg files or of the `MC` modules' instances.
A run with several parts checks each of them, side by side (section 2).

| Run | Shows | Bounds and why they suffice |
|---|---|---|
| `judgment` | hysteresis memory, cutoff, floors, occlusion, stream switch, grace; one worker per channel and clean restarts of the detector; operation restored after a test | two streams; distances on both sides of each threshold and release distance; one sensor sample per branch. Two workers (interchangeable) and two channels, four buffers as in the code, frames from the camera and from a test, which keeps completions; one channel, two variants, two runs of a test, two settings with the channel and one without, two buffers |
| `judgment_emergency` | *violation*: a hidden marker after EMERGENCY is not held as DANGER | as above |
| `fpga_safety` | latches, hold, watchdog, self test, and that SAFE is shown in the end; bytes, packets; sound and light | every count is 3: events fall before, at and after each end. Bytes of two bits and eight clocks per bit: each sampling point and each kind of misalignment. Packets with a checksum equal to the header |
| `fpga_reset` | *violation*: one press does not release stop and cutoff together | counts of 2, risk never CRITICAL |
| `announcement_gate` | confirmation is neither cut short nor exceeded; start and stop of the server; the relay follows or cuts | times 3 and 7, irregular gaps that hit, miss and jump over both. Two streams, a queue of two, five events: it overflows. Frames of three bytes, heartbeat 2, watchdog 4, tick modulo 5, so that the watchdog can miss its time by a wrap |
| `result_dispatcher` | order, back-pressure, event chain, eventual delivery | queue of 2, two changes of state, one fault, so overflow and failure meet a racing heartbeat |
| `side_parts` | each part of the tools and of the screen, and the server status | three workers; two solves, or two alignments of two streams; four streams joined in every way, with maps that do not commute; four captures of two boards and sizes; three numbers, with two photos taken at a time, or one while another is calibrated with or shown, and three views needed (in the last case a photo is neither deleted while it is looked at nor left unchecked), so that one saved result has a temporary, the preview and a photo; retry times 1, 2 and 4 and queues of two; two changes of two levels; three starts with two client ids and two births each |
| `event_log` | accounting, honest counters, drain, refinement of LossyLog; order of assignments, the screen settles | queue of 2 and 5 rows: overflow before and during a batch, stop at any point. One terminal, two streams, two faults of link, publication, terminal or server; connections that are never made |
| `event_log_stop` | *violation*: stop() may wait for ever | 2 rows |
| `forklift_tracking` | largest view, live assignment, bounded age, the view follows the forklift; whole documents, an exclusion that PLAYING puts off, a final stop; true and fresh sensor readings, a death is felt | three streams; areas 10, 12, 14 lie inside and outside the factor 1.3; freshness, grace and gap of 2 ticks. Documents of three packets, two lost in a row, sequence numbers modulo 4, sessions with and without RTP headers, two failures. One terminal, a stranger, garbage |
| `tracking_silence` | *violation*: without frames the position never expires | two streams, gap of 4 ticks beyond freshness and grace |
| `operator_terminal` | a silent server reaches the FPGA, frames carry the shown risk, streams are accounted for; events are told; the sensor driver, its loading included | three cameras, so a handover can abandon one awaited; 2 polls for the watchdog, 3 for the grace, 2 for swap and linger, 4 for a reconnect: every order of their ends occurs. A queue of two that overflows; two readers, three rangings, two faults |

Deadlock checking is off where a system really ends: the event log, when stop()
has returned and the bounded rows are used up; server, stream worker and driver
likewise; an alignment; the last start of the server. With several parts in a
run this covers the run as a whole.

**Fairness.** `FpgaSafety`: the clock goes on. `EventLog`: each thread that is
not blocked goes on; nothing forces a row, a stop or a spurious wakeup.
`ResultDispatcher`: threads and time go on, libmosquitto reconnects, faults are
finitely many; no judgment need come. `ForkliftTracking`: time passes and some
camera goes on sending; no particular stream need. `CentralServer`: the judging
thread, the ticker and stop() go on; a stream need send nothing.
`AssignmentChannel`: frames with an assignment go on coming, the worker and the
library, which connections interrupt, are strongly fair, faults are finitely
many, the terminal calls connectToServer, and the library's thread, once started,
connects. `SensorUplink`: delivery, judging and time go on; nothing forces a
publisher. `DangerJudgment`, `AnnouncementGate` and the parts in `side_parts`
state safety only and assume none, and so does `OperatorTerminal`, where a
bound on time takes the place of liveness.

## 4. Disagreements shown by a run

1. **EMERGENCY and a hidden marker** (`judgment_emergency`). The branch that turns a
   held EMERGENCY into DANGER is never taken, because an EMERGENCY is not
   stored in `last_camera_level_`. The level held is the one before it, SAFE if
   the first measured frame was an EMERGENCY.
2. **One reset for both** (`fpga_reset`). In the clock of the reset pulse the
   registered stop still triggers the cutoff, so the press clears the stop alone.
3. **stop() of the event log** (`event_log_stop`). Its notification can be lost
   because it is sent without the mutex.
4. **Silence of all cameras** (`tracking_silence`). A position is used for ever when no
   ArUco frame of any stream comes; with frames of any stream its age is bounded
   (`PositionIsRecent`).

## 5. Behaviour the properties admit

The properties below hold only with an exception that names a behaviour of the
code; it is in the model, and the exception is as narrow as it could be made.

- **Heartbeat overtakes a change** (`result_dispatcher.hpp:380` against :392, whose
  header at :26 says that the last judgment is resent). `StaleOnlyByRacingHeartbeat`
  and `TerminalSeesLastJudgment` bound the effect: the next heartbeat repairs it.
- **Server stop can hang** (`bounded_queue.hpp:54`, `main.cpp:1052`): the same lost
  wakeup as in the event log. `StopReturnsOutsideWindow`.
- **"online" may stay behind.** A birth published between the "offline" of
  disconnectBroker and its DISCONNECT (`result_publisher.hpp:334-344`) is
  retained, and DISCONNECT takes the will away. `OnlineHasWill`, `crossed`. The
  comment there says that loop_stop waits, the code passes force = true (:345).
- **A late will.** The will of a process that died may come after the birth of the
  next one, whose client id differs, and nothing repeats a birth. `LiveIsOnline`,
  `overtaken`. The status_seq of a will equals that of the first birth.
- **Wireless watchdog.** `PROTOCOL_WIRELESS.md` section 2 promises a cut after
  600 ms; the subtraction of 32-bit ticks (`rx main.c:109`) wraps after 49.7 days
  of a dead link. `CutoffReachesRelay`, `wrapped`.
- **A video source that gives up.** A "Connected" of the session before, or one told
  after an error, ends the retries (`RtspVideoSource.cpp:355-390`; the comment at
  :204 says a failed connection is retried). `RetryIsArmed`, `fooled`. A
  description that cannot be parsed in start() is never tried again.
- **Latency rows.** T3 is the next transmission of whatever level the device has, so
  OK may be recorded for the level of another camera; the header calls it the
  first transmission of the changed level. A level that changes and returns within
  one send interval gets no T3. `T3IsOwnLevel`, `own`.
- **A result revived.** A capture or a discard makes the calibration result of the
  camera invalid (comments at `sample_component.cc:464` and :557), but not its
  file, and /result reads it back (:690). `ResultIsCurrent`. SaveResultToFile does
  not look at the outcome of its write, /undistort does not compare image sizes.
- **A preview taken for a photo.** The second calibration of a session reads
  `undistorted.jpg`, the preview with the corners drawn, as a view
  (`homography_app/processing/main.cpp:180` leaves out `_annot` only), and a calibration
  that meets a request to show a photo undistorted reads that request's temporary,
  although the comment at `calibration_app/server.py:391` says that it is removed so
  as not to be mixed into the next result. `SavedIsWhole` allows for the one preview and
  one temporary per request; `TemporariesAreRemoved` says that nothing of a request
  stays. Two captures that overlap may take one number
  (`calibration_app/server.py:250`). `KeptIsGood`, `OneNumberOnePhoto`, `disturbed`.
- **Buffers kept by a test.** The completions of the last cycle of a performance test
  stay in `completions_` (`test_run_controller.cc:622`; forgotten at :727 by the next
  cycle only), and each holds the buffer of its frame (`detection_dispatcher.cc:264`). A
  channel with four of them skips every frame until the next test
  (`raw_frame_store.h:102`). `PoolSuffices` is about the rest, `kept`.
- **Frames of before a switch.** What a worker has read when it is told to stop, or what its
  killed ffmpeg left in the pipe, is stored if its stream is active again by then
  (`homography_app/web/server.py:1389-1413`). `FrameIsFresh`, `late`.
- **A terminal that never connects.** When the first attempt fails at once,
  `HandoverClient.cpp:57` starts no network thread, and `main.cpp` of the terminal calls
  connectToServer once; on the server, `assignment_publisher.cpp:132` gives up likewise.
  `ScreenSettles`, `loop`, `library_runs`.
- **An exclusion after PLAYING.** A session that played and then failed counts as a
  failure (`main.cpp:946`). With max_retries = 1 a camera that worked is excluded.
  `PlayingIsForgiven`.
- **Pieces of a document.** Payloads without RTP header are not joined (`main.cpp:734`):
  of a document in several packets each that begins with a tag is parsed by itself.
  `NeverSpliced`, `bare`.
- **A late ffmpeg.** A worker told to stop may register its process over the one of
  its successor (`homography_app/web/server.py:1362`); the next stop then kills the
  wrong one. `StoppedIsFreed`, `ousted`.
- **Mixed alignments.** Operational files are replaced one by one (:1771), and the
  marker corners are read by the layout file of the last solve (:747), not by that
  of the result. `AlignmentIsWhole`, `CornersMatchResult`. The site map keeps the
  homographies of the alignment before until it is made anew.
- **A distance read twice.** A failing status read goes past the clearing of the
  interrupt (`vl53l1x_driver.c:309`); the next read takes the old ranging for its
  own. `EachFaultOneStaleRead`. mod_exit does not give the adapter back, and the device
  can be read before probe has set the client.
- **A driver loaded in part.** Four registrations report failure by a value that
  mod_init does not test for (section 2): three leave a driver without the device node,
  the character device or the client, and class_create's ends in an oops.
  `FailedLoadLeavesNothing` is about the errors that are returned, and says what the
  oops leaves.
- **A sample replaced between two locks** (`network_sensor_reader.cpp:29`): a stale
  copy may pass as good. `StaleOnlyWhenReplaced`.

Further differences seen while modelling, outside every property: the overflow
flag of the event queue may be lost when it is set in the clock after a pop
(`event_tx_fifo.v:130`); `HandoverClient.cpp:102` acts on every assignment on its
topic, although `qt/docs/FAULT_INJECTION.md:153` has it compare the terminal id;
the table of PROTOCOL.md gives 0x00 where the code sends 0x01 as detail of an
event. Known and intended: a judgment that alternates between CAUTION and DANGER
faster than the confirmation time of a rise is never announced, since the gate
times each level by itself. And on the terminal: while a change of camera is
awaited the level of the old camera is repeated, up to 3 s after each new
request; after a loss a message for any stream resumes SET_RISK, with SAFE for
the camera on the screen until its own message comes; and before the first
message every reconnect restarts the grace of 5 s, so a broker that comes and
goes keeps SAFE on the FPGA. `SilenceReachesFpga` is therefore about the time
after a first message.

## 6. Proofs

Every safety invariant and every action property of the passing runs is a theorem,
for every value of the constants that satisfies the named assumptions of the
models. A proof module has an inductive invariant per part, a lemma per action
that it is kept, and the theorems. For the core it is called `IInv`; `SafetyHolds`
states the `Safety` of the run, and the invariants it is made of have theorems of
their own. The theorems about the parts a run checks side by side are about the
specification of that run (`MCSpec`): every step of it is a step or a stutter of
each part, so each part's invariant is kept whichever `machine` runs.

The constants stay open. In particular the numbers of streams, threads and
channels, queue lengths, times and retries may be any, where the runs have two
or three. Bounds named `Max...` are open as well: a bound restricts the model, and
the theorem holds for each value of it.

### The core

- **DangerJudgment.** `MemoryAgreesWithVerdict` is most of what makes it
  inductive; it ties the spread members to the last result. The action
  properties follow from it and one lemma per stage of evaluate.
  Assumed: the thresholds are ordered as the configuration checks.
- **FpgaSafety.** The invariant relates each counter to its history: the hold to the
  time since a packet at the shown level or above, the watchdog to the time since
  SET_RISK, the two debouncers to the time the contacts were stable.
  `ResetPressedAfterSwitchReleased` needs that the button is debounced no
  longer than the switch (`CountAssumption`), as top.v sets them.
- **AnnouncementGate.** The pending level and its age are those of the
  judgments since the last reset, up to the horizon the ages are kept to.
- **EventLog.** Where the worker is determines what batch, transaction and mark may
  hold (`StageInv`), and rows are ordered: stored or uncommitted before batch,
  batch before queue (`OrderInv`). `StoredInv` relates the counters to the
  cardinality of the stored set. `Implements` maps pending rows to queue, batch
  and uncommitted rows and shows that each step is a step of LossyLog or a stutter.
- **ForkliftTracking.** The sightings are those of the latest frames,
  and the grace age plus the freshness bounds the age of the position
  (`GraceBoundsAge`), although both are cut off at a horizon.
- **ResultDispatcher.** The messages retained, being sent and queued form one line.
  `LineInv` says that it is in order but for racing heartbeats, and that a
  heartbeat on its way is as new as all that stood on the line when it was
  copied; that it stays true is a matter of taking one element out of a
  sequence or appending one (`WithoutKeepsOrder`, `SinkAppends`,
  `PublisherThinsLine`). `JudgeInv` says what the judgment thread and the event
  log know of each other while the thread is outside the lock.
- **OperatorTerminal.** `ShownInv`: the link is lost for all cameras or for none, and
  the serial device sends exactly when it is not. `SilenceInv`: until the loss is
  noticed the watchdog clock measures the silence, because a reconnect takes
  longer than the watchdog (`ConstantAssumption`); from then on the FPGA does,
  as no handler sends (`LostSendsNothing`).

### The FPGA around it (`FpgaSafetyProofs`, `OperatorTerminalProofs`)

- **UartLink.** Where the sender is (`TxPos`, the clocks since the start bit began)
  determines where a receiver that saw a clean start bit is: waiting, receiving bit
  n, or done (`CleanInv`). The clocks of the two sides may differ as long as the
  last sample falls into the stop bit: `SkewAssumption` says for each bit what the
  divisors of uart_tx.v and uart_rx.v must satisfy, and TLC evaluates it for the
  run. `DisturbedInv` says how long a receiver that was disturbed is still busy: the
  quiet a clean byte needs before it is derived from that, not assumed.
- **FpgaReceiver.** `SingleInv` is the case analysis of PROTOCOL.md in one formula:
  where one damaged packet after whole ones leaves the parser. `WholeInv` is what is
  known after one whole packet, whatever came before; `WholePacketIsTaken` needs it.
- **FpgaBuzzer, FpgaLed.** The counters of the pattern are bounded by the time the
  alarm has been shown (`AtOnceInv`), silence and darkness by the phase of the
  pattern (`SilenceInv`, `DarkInv`), also across a change of the alarm.
- **FpgaEvents.** Ring and line agree entry by entry modulo the depth (`RingInv`); a
  pop is requested only while the first byte is sent (`PopInv`); an event waiting
  to be pushed tells the level its detector compares with (`ToldInv`).
- **TofDriver.** `TurnInv` ties the places of the readers to the state of the
  sensor; a stale distance is owed to a fault that is counted already (`DebtInv`).

### The server around it (`AnnouncementGateProofs`, `EventLogProofs`, `ForkliftTrackingProofs`)

- **CentralServer.** What has ended when stop() is at each of its steps (`ServerOrder`).
- **WirelessRelay.** How old the cutoff in a frame may be at each place between the
  interrupt and the relay (`Stale`), what frames are damaged after lost bytes
  (`Damaged`), and how far the current frame has come in the time since
  (`Progress`); the last gives the delays in `Settled` and `Overdue`.
- **AssignmentChannel.** `MessageOrder` is about one line: in the library, with the
  worker, queued. Taking out, replacing and appending keep it in order, which are
  lemmas about sequences. `KeptInv` and `CarriedInv` name for each terminal the last
  message the library keeps and the last one this connection carried.
- **MetadataStream.** Buffer and completed text are the end of one document
  (`EndsAt`) or a single packet without header, and the buffer ends where the camera
  goes on unless the gap shows it (`DocInv`). Losses in a row stay below the modulus of the RTP sequence
  numbers, which `ConstantAssumption` states; a longer loss would hide.
- **SensorUplink.** What the reader holds was a message of its terminal, with the
  age it had (`UplinkInv`). Terminals and strangers are different names.

### Cameras, tools and the screen (`DangerJudgmentProofs`, `SidePartsProofs`)

- **DetectionDispatcher.** A channel in flight has one worker, a channel copied to
  one putter (`FlightInv`, `CopyInv`); the buffers in use are counted by them. The
  pool has to be larger than the number of workers by two: for one that is
  smaller, `PoolSuffices` is false. What a test keeps comes on top and is counted apart.
- **TestRun.** Samples are counted by variant, cycle and channel (`CountInv`);
  what a run borrowed it gives back on every way out (`RestoreInv`); the dispatcher
  runs exactly when its settings enable a channel.
- **ServerStatus.** Which session the broker holds for the process that runs, and
  what is still in its socket (`SessionInv`, `RunningInv`, `ByeInv`).
- **CameraCalibration, CalibrationSession.** A result carries the captures it is
  of. On the server, a number that no overlap disturbed has one thread, which is on
  its track (`TrackInv`); what is left in the directory was judged (`LeftInv`). Of the views a calibration may
  list all but the preview and one per viewer are photos, which bounds the others (`UsableIsWhole`).
- **TerminalVideo.** A source without a timer is "Connected" (`RetryInv`), and a
  "Connected" that is true has no older "Connecting" behind it and either plays
  or has its failure under way (`ConnectedInv`, `PostedInv`, `BusInv`).
- **LatencyTracker.** The rows form one line by number; the frame that is rendered
  is the one T2 waits for, once armed (`LatencyInv`).
- **CameraStream.** A worker that reads is the one registered, or was ousted
  (`Registered`); one that still reads although it was told to stop was reading then
  (`LateInv`).
- **HomographyJobs.** A capture's result was computed with its layout unless it is
  unsettled (`SoundJobs`); a thread that is alone at its capture wrote that layout
  (`SolvesInv`, where alone is taken away by whoever joins); while nothing is
  broken one alignment saves, and what it has saved is its own (`SavesInv`).
- **GlobalAlignment.** A transform is the one by way of the site, for every pose and
  either direction of a join (`OnwardBySite`, from three lemmas about products
  and inverses of permutations); reached is what the joins lead to (`ReachedInv`).
  The queue of the search is stated as the one sequence of the new streams in their
  order, and the streams are assumed to be finitely many.

### Only model-checked

The liveness properties (`SafeIsShownInTheEnd`, `TerminalSeesLastJudgment`,
`RowsSettle`, `ViewFollowsForklift`, `ScreenSettles`, `DeathIsFelt`,
`StopReturnsOutsideWindow`): liveness under fairness is out of reach of the
prover, as are ENABLED and induction over data. The runs that expect a violation
show a counterexample, for which there is nothing to prove.

## 7. Not modelled

- **People tracking** (`logic/tracking`): identities and distances are decided by
  comparisons of floating-point similarities; the judgment takes any distance,
  or none, for its outcome.
- **Estimation of homographies and lens parameters**: floating-point geometry. The
  models have its outcome, good or failed.
- **Parsers, formats, configuration**: read once, or pure functions of a text; the
  ranges they check are assumptions on the constants.
- **Control center, monitoring app, QML, CSV and console logs**: display and plain
  output. The control center shares its reception code with the terminal.
- **Latency and alert sinks, the status snapshot of the pipeline, runtimeSnapshot**:
  diagnostics; the latency logger has the structure of the event log.

The clock used for ages is monotonic in the code and in the models. `PROJECT.json`
gives the status of every component.

## 8. Plan

1. Compositions: `OperatorTerminal` with the watchdog of `FpgaSafety` and with
   `ResultDispatcher`; queue, tracking, judgment, gate and dispatcher as one server,
   with an abstract specification "what the terminal is told is what was judged".
2. Two of the behaviours in section 5 contradict what a comment or a name says and deserve
   a run of their own that shows them: temporaries that mix into a calibration, and the
   channel that is blind after a test.
3. Theorems about the compositions: which assumption of one part is an invariant of
   another (the 600 ms of the FPGA's watchdog and the terminal, the age of a
   judgment and the gate).
4. People tracking with identities as model values, and the login of the control
   center (`AuthService`).
5. More of the source under the models: the map covers about a fifth of the lines of
   the implementation. People tracking, the login, the receiving half of the terminal's
   serial device and the control center are the largest parts with state that are left.
