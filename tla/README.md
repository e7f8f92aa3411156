# DataDriven: a verification development

DataDriven tracks cars. A device in the car (the *tracker*) reads its GNSS position, an
inertial sensor and the car's OBD-II parameters, and sends them as one UDP datagram per fix.
A *listener* on a server decodes the datagrams and stores each as a row of the car's own MySQL
table. An *API* reads the tables, and a *web app* shows cars on a map and plots their history.
This directory holds TLA+ models of the parts with state and concurrency, TLC configurations
that check them on small instances, and TLAPS proofs for all instances.

Paths below are relative to `src/`; "main.c", "functions.h" and "structures.h" are those of
`Firmware/tracker/src/`, "server.py" is `Backend/UDP-Listener/server.py`, "main.py" is
`Backend/api/main.py`.

## 1. Inventory

| Component | State | Operations | Interacts with | What is hard |
|---|---|---|---|---|
| Tracker, main loop (main.c 356-471) | `gnss_ready`, `gnss_data`, `udp_data`, `vehicle_data` and their sizes, `currentPID`, `MFL` | take a wake-up and send a datagram; sweep the supported PIDs; handle single, first, consecutive frames | GNSS handler (shared buffers, semaphore), CAN driver (`obd_msgq`), UDP socket | interrupt during `memcpy`, coalesced wake-ups, late CAN answers, answers that share one `MFL`, buffer bounds, a failing send |
| Tracker, GNSS handler (main.c 153-250) | `gnss_data`, `gnss_size` | PVT event, sleep-after-fix, periodic wake-up | modem events, main loop | runs in interrupt context in the middle of anything |
| Tracker, boot (main.c 98-151, 288-345; functions.h 9-166) | LTE semaphore, `VIN`, `IMEI`, `PID_supported`, `checkPID` | connect to LTE, configure pins and CAN, read VIN and IMEI, resolve, connect, start GNSS, discover PIDs | modem, CAN bus, DNS | partial failures that go on, late answers, an 8-bit loop counter |
| OBD report (main.c 421-464, server.py 311-334) | the bytes between tracker and listener | segment, append, cut into entries, decode | both ends of the uplink | framing only by length bytes; control units that answer for one PID at the same time |
| UDP listener (server.py 237-353) | one socket, one datagram at a time | receive, CREATE TABLE, INSERT, commit, drop | network, database | loss, duplication, reordering; statements that fail half-way; a schema frozen by the first datagram |
| decodePID (server.py 34-234) | none | 100 formulas | listener | short entries |
| API (main.py 74-215) | none between requests | `live_all_cars`, `live/{id}`, `fetch_all/{id}`, `cars` | database shared with the listener, web app | one statement per table while rows arrive; tables without rows |
| Map screen (map_screen.dart) | markers, position-to-index map, selected car and index, sidebar | refresh, tap, search, follow | API | overlapping refreshes, closures over old answers, an index into a list that grows |
| Statistics screen (statistic_screen.dart) | selection, displayed lines, offered parameters | select, download, choose a parameter | API | a list that changes while it is iterated, overlapping downloads on shared fields |
| First prototype (`Firmware/firmware/src/main.c`) | `PID_supported`, `obd_msgq`, `nmea_queue`, two LTE semaphores | discover, sweep; GNSS and LTE handlers | CAN bus, modem | one frame taken per request: late answers shift everything behind them |
| MCP2515 prototype (`Firmware/mcp2515/src/main.c`) | two message queues, LED, `current_state`, work items | send LED and counter frames; LED work, state-change work, polling thread | CAN controller, system work queue | submitting a poll again while frames arrive; state changes that coalesce |
| Bench programs for CAN and IMU (`PCB/device_tests/simple/`: `car_live_data`, `can_obd`, `imu_can`, `lsm6dsl`) | `VIN`, `PID_supported`, `UDP_Packet`, `MFL`; `print_samples` and six sample values | identify, discover, sweep into a packet; print samples | CAN bus, sensor trigger | late frames, bus-off at any time, a handler that writes what main prints |
| Bench program for GNSS (`PCB/device_tests/simple/gnss`) | work queue, `last_agps`, `agps_need`, two flags that pause output, timers, flash | requests for assistance over four backends, positions and NMEA, tests of the time to a first fix | modem events, LTE, nRF Cloud or SUPL, flash | requests overwritten while they are served, shared flags, order of works, power cycles |
| Login, sign-up, Amplify models, web site, test scripts, other device tests | - | - | - | see section 8 |

What makes each correct:

- **Main loop**: every announced fix is sent, by itself or a newer one; a datagram is never
  older than the announcement it answers and never older than the previous one; a sweep's
  report holds the answers to that sweep's requests, the long ones whole; nothing is written past a
  buffer (which long answers can break, section 5).
- **Boot**: the VIN consists of the three pieces one control unit sent; discovery marks exactly
  the PIDs the car supports, under the right format, and ends.
- **Report**: the listener gets back the answers the car gave; those that spoil one another spoil no
  other; of each parameter it keeps the first value.
- **Listener**: the tables are append-only logs of whole datagrams that were sent; a datagram
  that cannot be stored holds up no other.
- **API**: a reply shows the fleet at one moment, never goes back in time, and each stored row
  becomes visible.
- **Map screen**: the sidebar shows the car that is selected.
- **Statistics screen**: a comparison has a line for each selected car, with the parameter selected, and
  offers the parameters all of them have.
- **Prototype**: an answer is printed for the PID it belongs to; how far it can be off is bounded
  by the faults there were.
- **MCP2515 prototype**: the LED follows the last frame received; no bus-off is missed.
- **CAN and IMU bench programs**: VIN, PIDs and packets are exact on a bus without faults, a late
  answer does harm once, and a printed sample is one sample.
- **GNSS bench program**: output resumes, no socket stays open, every NMEA frame has one owner; the modem's newest need
  is served; a cold start is assisted; tests go on; flash never claims an almanac that is not there.

`PROJECT.json` lists the hazards of this code, line by line, with the properties for them.

## 2. Modules

| Module | Models | State and actions against the code |
|---|---|---|
| `Tracker` | main loop, GNSS handler, CAN reception | One action per step of `main` between two points where the handler or the driver can be observed. The `memcpy` of `gnss_data` is one `CopyRegion` per region, in any order; `PvtFix`, `SleepAfterFix`, `PeriodicWakeup` are the events of `gnss_event_handler` and are atomic for `main`. `RequestStandard`/`RequestExtended` are the two `can_send`s, `ReceiveFirst`/`ReceiveConsecutive`/`ReceiveSingle` the three branches of the reception loop, `Timeout` its end. `Deliver` and `OtherTraffic` are the driver's callback, which drops what does not fit in `obd_msgq`. `MFL` is read from one byte (main.c 437) and the length byte goes to `udp_data[current_msg_size]`; once that, or a report, is behind its buffer, nothing defines what main does, and it is followed no further (`Overrun`). |
| `Uplink` | abstract: what a tracker promises | a register, region by region, of the fix announced last: `Measure`, `Announce`, `Serve`, `Show`, `Stop`. `Tracker` implements it with `measured <- fixes`, `owed <- announced`, `pending <- gnss_ready = 1`, `serving <- Copying`, `stopped <- pc = "halted"`, `shown <- sent`. |
| `TrackerBoot` | `main` up to the loop | `pc` follows `modem_configure`, `setup_GPIO`, `get_ID`, `server_resolve`, `server_connect`, `gnss_init_and_start` and the discovery loop. Blocks of 0x20 PIDs are blocks of `Block`, and `checkPID` wraps at `Wrap`, as a `uint8_t` does at 256. |
| `ObdReport` | the bytes of a report from the car's answers to `decoded_data` | `AppendSingle`, `AppendFirst`, `AppendConsecutive` are main.c 423-463 on real frame bytes. `RequestPID` asks for a PID on all its formats, and `Comes` then gives `main` the next frame of any of the answers to it, as `k_msgq_get` does, so that two long answers meet in one `MFL`. `NextEntry`, `EntryTooShort`, `EndOfData` are server.py 313-334. `Parameters` is what `decodePID` makes of an answer: which parameters it gives always and which by a bit of its first byte (0x66 to 0x68), and the bytes read for each; `Remember` keeps the first value of each *parameter*. |
| `CarLog` | abstract: what ingestion promises | `Emit`, `Store` on one log per client. |
| `Listener` | server.py 237-353, network, tables | `Receive`, `CreateTable`, `Insert`/`InsertRejected`, `Commit`, `Exception`; the environment sends, loses, duplicates, reorders. |
| `Telemetry` | API, extending `Listener` | `ListTables`, `SelectLatest`, `SelectEmpty`, `ReplyLive` are the statements of `live_all_cars`; `LiveCar` and `FetchAll` read once. |
| `CarBus` | a car on the CAN bus and the driver's queue, for the programs below | `Ask` (requests leave; the car answers or not), `Arrive` (the driver's callback), `Take`, `GiveUp` (`k_msgq_get` with its timeout), `FlowControl`. Each frame carries its age, the number of requests sent since the one it answers. |
| `NmeaFrames` | the NMEA frames of the two programs that have this handler | a frame is its block of the heap: `NmeaMalloc`, then `NmeaQueued` or, when reading fails or the queue is full, `NmeaNotQueued` are the handler, which runs in interrupt context, so nothing else steps while it has a frame; `NmeaGet` and `NmeaFree` are main's `k_msgq_get` and `k_free`, between which the handler may run. |
| `Prototype` | `Firmware/firmware/src/main.c` | `AskBlock`/`TakeBitmap` are the two waits of a round of discovery, `AskPid`/`TakeAnswer` those of a sweep; `ProtoGnssEvent` and `ProtoLteEvent` are the handlers. The block at 580-629 that would publish never runs: its counter starts at 1 and only that block advances it. |
| `LiveData` | `car_live_data/src/main.c` | `AskVin`, `TakeFirstOfVin`, `TakeRestOfVin` are `getVIN`, `LiveAskBlock`, `TakeBitmaps`, `GetPidsDone` are `getPIDs`, `PollButton` to `PrintPacket` the main loop; `LiveBusOff` is the state-change callback. |
| `CanTests` | `can_obd`, `imu_can`, `lsm6dsl` | rounds of the three programs; `Trigger` is the sensor's handler, between any two steps of main. |
| `Mcp2515` | `Firmware/mcp2515/src/main.c` | main, `rx_thread`, `poll_state_thread`, and the two works of the system work queue (`StartLedWork`, `TakeLed`, `LedDrained`, `ResubmitPoll`; `StartStateWork`, `Recover`), cut where the driver's callbacks can come between. |
| `GnssAssist` | `gnss/src/assistance*.c`, `agps_data_get_work_fn`, LTE on demand | one work at a time (`work` is where its thread is), submitted by events; one action per step between two of which the modem's handler may overwrite `last_agps`. |
| `GnssSample` | `gnss/src/main.c`, extending `GnssAssist` | initialisation, event handler, main loop, `NmeaFrames`, the works of the test mode, and `GnssReboot`, which only flash and the modem's almanac survive. |
| `MapScreen` | `map_screen.dart` | `Refresh` sends a request, `Answered` is what follows its `await`, `Rebuild` puts `_markers` on the screen, `Tap` is a marker's handler with the answer it was built from. |
| `Statistics` | `statistic_screen.dart` | `Search` starts a download, `Downloaded` is what follows the `await` for one car: the line is drawn, and the iterator goes on (`NextCar`), ends (`LastCar`) or finds that the number of cars has changed and throws (`ListChanged`). `Toggle` is the multi-select widget, which adds and removes in the very list that is iterated (78, 240-249); `Failed` is an answer that is an exception. |
| `TrackerProofs`, `ReportProofs`, `TrackerBootProofs`, `ListenerProofs`, `TelemetryProofs`, `GnssProofs`, `ScreenProofs`, `SoloProofs` | theorems and proofs | section 6 |
| `MC*` | values of the constants for TLC; `MCSolo` starts one of the programs that run alone | |

Mutants, operators with the comment "Mutant", are plausible errors in the code next to the
definition they would replace. They occur in no specification; they show that a property can fail.

### Abstractions

- A fix is its number; `gnss_data` is the number of the fix it holds, and `udp_data` a number per
  region. The formatted text of the datagram is not modelled.
- A CAN frame in `Tracker` and `TrackerBoot` is its kind, PID, format and number of bytes. Its
  bytes are the subject of `ObdReport`.
- The `"_"` that stands for an IMEI or VIN that could not be had is `"underscore"` in
  `TrackerBoot`, and an IMEI not yet asked for is `"unread"`.
- A datagram in `Listener` has a client, a number, the set of columns it names and a *kind*:
  `good`; `short` (not five parts, no room for GNSS and IMU data, or an entry too short for its
  PID: dropped before the database is touched); `nan` (a value SQL cannot write).
- The database: DDL commits at once, a row becomes visible at its commit, a transaction reads from
  the snapshot its first SELECT takes. This is MySQL's behaviour with the defaults pymysql leaves
  alone; it is marked external.
- `async def` handlers that never await do not interleave with each other, so `Telemetry` has
  one request at a time.
- In `LiveData` a long answer is three frames and a piece of a packet is the format, PID and number of the
  frame it came from; in `MapScreen` a row is its car and place; in `Statistics` a line of the chart is
  its car and parameter; in `GnssAssist` a need is whether ephemerides are missing and the class of
  its flags.
- `stamp`, `since`, `seen`, `announced`, `entries`, in `Tracker` and `GnssAssist` `asked`, and in the programs that run alone `stale`,
  `overdue`, `lastLed`, `timedOut`, `overlapped`, `assisted`, `visited`, `confusing`, `chartFor`,
  `disturbed`, `failed` and the `toggled` of a download are history: no guard reads them. `faults` is read only by its
  bound, and of `begins` in `ObdReport` only the length, which says which answer begins next.

## 3. Runs

| Run | Question | Instance |
|---|---|---|
| `tracker_healthy` | does each sweep report exactly what it asked for, and long answers whole? (`TypeOK SweepComplete MultiFrameWhole`) | 2 regions, 4 PIDs (two formats with 8 bytes each, which share `MFL`; unsupported; extended with 18 bytes in three frames; two formats with single frames), no faults, a queue of 2 that each of them fills, 2 fixes |
| `tracker_faulty` | are announcements served, in order, by fresh data? (`NoWakeLost FreshDatagram ImplementsUplink WakeServed`) | late answers, refused requests, unread fixes, foreign frames, queue of 1 |
| `boot` | are VIN and discovery right, and when does discovery end? (`TypeOK VINWhole DiscoveryExact DiscoveryOutcome DiscoveryEndsOrWraps`) | 48 cars on a bus without faults and 2 on one with late answers and refused requests, 3 blocks of 2 PIDs |
| `boot_fallback` | *violated*: does a failing resolution fall back? (`ResolveFallsBack`) | the 2 cars of the faulty bus |
| `report` | what does the listener recover of the answers, however their frames mix? (`PrefixIntact UndisturbedWhole FirstAnswerWins DroppedForCause`) | up to 3 answers of 1, 2 or 3 frames to 3 PIDs, one of which gives its two parameters by flag bits, negative responses included |
| `report_framing` | *violated*: does every entry begin with its length? (`FramingExact`) | as above |
| `listener_net` | are the tables honest logs? (`ListenerType SchemaFrozen ImplementsLog`) | 2 clients, 3 datagrams of every kind, 1 optional column, all network faults, failing database; clients are symmetric |
| `telemetry_reads` | are tables in order, and is a reply one moment of the database, never an older one? (`TypeOK InOrder AnswerIsCut NeverOlder`) | 2 cars, 4 datagrams, 2 in flight, losses, failing database |
| `telemetry_live` | is each datagram dealt with, and does each row become visible? (`ShownEventually EachStored`) | 2 cars, 3 datagrams, 1 optional column |
| `telemetry_empty` | *violated*: does a request answer for every car with data? (`EachTableFetched`) | 2 cars, 2 datagrams |
| `solo` | what do the programs that run alone get wrong, and when? (`SoloTypeOK ProtoDrift LiveExact DrainedOnce SampleWhole LedLatest BusOffHandled FramesOwned AlmanacKept ColdStartAssisted NeedKept OutputResumes TestGoesOn SidebarIsSelected ChartComplete`) | 7 programs, 5 cars, up to 2 faults, 8 GNSS builds with 4 needs, 2 cars on either screen |
| `stats_offered` | *violated*: does a comparison offer what all cars have? (`OfferedForAll`) | the statistics screen of `solo` |

`solo` is a sum and not a composition: `MCSolo` starts one of the programs, which never meet outside the
bench, and leaves the variables of the others alone, so that one run answers for all of them at
the cost of their state spaces added up. Each module has its own specification (`ProtoSpec`,
`LiveSpec`, `TestSpec`, `McSpec`, `GnssSpec`, `MapSpec`, `StatSpec`). The theorems are about those, except
`DrainedInOrder` and `Owned`, whose properties relate several programs and are proved of the sum.

Deadlock is not checked where the system may stop: `main` returns on errors, environments run
out of their bounded inputs, and `ObdReport` is a computation that ends.

### Bounds, and why they suffice

- `MaxFix` 2: a race needs one fix being served and one that interrupts.
- Regions 2: a torn copy needs a copied and an uncopied region.
- PIDs of `tracker_healthy`: two long answers that spoil one another, then an unsupported PID, then a long
  answer that must not be touched by them, then one of single frames; two formats, since the formats of one PID share a
  reception loop. `Cap` leaves room for the length bytes of some sweeps; where it does not, main is followed no further,
  so what is claimed is claimed of the sweeps before.
- `MaxInFlight`, `MaxNoise`: one late answer or foreign frame is enough to be taken for
  another; the queue of 1 in `tracker_faulty` makes the driver drop.
- `Block` 2, `Wrap` 6: a first, a middle and a last block with two PIDs each, the second of which
  announces the next block, as 0x20 does.
- Listener: two datagrams of one client are enough for a schema conflict, the third is another
  client's in between. `MaxRows` only bounds duplication.
- `telemetry_reads` needs 4 datagrams: for a reply that mixes two moments two cars must have a row,
  and each must get another one between the two reads.
- `solo`: `PidBlock` 2 and `PidEnd` 4 give two blocks, the second of which a car announces or not;
  `MaxFaults` 2 lets a second late answer come before the first is overcome, and the histories
  `stale` and `age` stop counting one above it. The queues are those of the code where they are short
  (2 for the prototype and for the LED) and otherwise just long enough to fill up; the NMEA heap holds one
  frame more than the queue, so that both limits are met: the queue is full with a frame in the handler's hand, and the heap is
  empty with one in main's. The 8 builds cover each backend, with and
  without LTE on demand, test mode and cold start; P-GPS is not combined with the test mode. Two
  cars and three places suffice for an index to be stale, and two answers under way for one to overtake
  the other. `StillClear` cuts behaviours off where two cars share a place, a table sorts before
  another, downloads overlap, or one ends with an exception: nothing is claimed of the screens from there on
  (the theorems go on to the next search).
- `ObdReport`: three answers give each kind a predecessor and a successor, to the same PID or to another, and two
  long ones to one PID mix in every way; data lengths are below, at and above what `decodePID` reads for each value of the flag
  bits, and the longest takes three frames.

## 4. Fairness

- `Tracker!FairSpec`: weak fairness of `Main` (one thread; its waits have timeouts of 500 ms or
  less) and of `Deliver` (a frame on the bus arrives). None of the modem: fixes may cease.
- `TrackerBoot!FairSpec`: the same for the boot thread and the frames.
- `Telemetry!FairSpec`: weak fairness of the listener's loop, a process that blocks only in
  `recvfrom`, and none of trackers and network; and weak fairness of `live_all_cars`, because the map screen requests
  it every 5 seconds (map_screen.dart 428-432).

The programs of `solo` have no fairness: their properties are about safety. `TestGoesOn` is the safe
part of "tests go on for ever": something that leads to the next test is always pending. That it also
happens depends on the receiver, which may never get a fix.

## 5. What the violated runs show

1. `boot_fallback`: Firmware/tracker/README.md 5 announces a fallback to a hardcoded IP; the
   code returns from `main` (main.c 293-296).
2. `telemetry_empty`: main.py 109 says the latest point of *each* table is fetched; a table without
   rows makes `row["latitude"]` raise and the whole request fail (main.py 119). CREATE TABLE
   commits before the row does, so every new car opens such a window. `telemetry_live`
   shows that the window closes by itself if the first INSERT is accepted; when it is not, it stays.
3. `report_framing`: Backend/UDP-Client/README.md 32 says an entry starts with its length; for
   multi-frame answers main.c 439 stores it in `udp_data`, where the next datagram overwrites it.
   `report` shows that what precedes such an answer is intact.
4. `stats_offered`: statistic_screen.dart 130-131 says "If there are multiple vehicles being compared, we
   only want to provide the option to compare parameters we have for both vehicles", but line 111 empties
   the set for every car, so that 132 intersects a car's set with itself and the last car decides.

Some passing properties are as weak as the code makes them, and their conditions say where:

- `ProtoDrift`: after a late answer the prototype prints every later answer for the wrong PID, since it
  takes one frame per request (`Firmware/firmware/src/main.c` 552); `DrainedOnce` shows that the bench programs, which
  drain their queue, do not stay behind.
- `NeedKept` excludes requests that come while the work already runs for an older one: built with A-GPS and
  P-GPS together, assistance.c 246 clears the ephemerides in the shared `last_agps`, and a newer
  request that was written there since 236 is served without them. Neither `prj.conf` nor
  `overlay-pgps.conf` selects both.
- `SidebarIsSelected` excludes a new table that sorts before others and two cars at one place: then
  the index the sidebar is taken from (map_screen.dart 317, 368) is another car's.
- `ChartComplete` excludes overlapping searches, whose lines mix (statistic_screen.dart 84), and downloads that end with an
  exception. One of these is the code's own: the list of cars that is iterated (78) is the one the multi-select widget changes
  in place (242-248), so that selecting or removing a car while an answer is awaited makes the iterator throw and
  leaves a chart without the cars behind. If as many are added as removed it notices nothing and may draw a car twice and miss
  another: the property then claims the number of lines and their parameter only.
- `MultiFrameWhole` and `UndisturbedWhole` say nothing of two long answers to one PID: they share `MFL`, the second first frame
  overwrites what the first has left (main.c 437), and bytes of both are lost. What they say is that the damage ends with that PID,
  because `MFL` starts anew with each (421) and main waits until nothing comes.
- No run checks that buffers are not overrun (`InBounds`). The length byte of a long answer is written to
  `udp_data[current_msg_size]` (main.c 439-440), behind the last datagram and further with each long answer until the next datagram, and
  nothing keeps it inside the buffer: without a fix it leaves it sooner or later, and if the datagram fills the buffer at once.
  What can be said is proved: `Bounded` for cars of single frames, and `ReportBounded` for `vehicle_data` and every car (section 6).
- `FirstAnswerWins` is about parameters, not PIDs: an answer to 0x68 with a clear flag bit gives nothing, and a later one may supply
  the value (server.py 208-216, 327-334).

## 6. Proofs

All theorems hold for every value of the constants allowed by the named assumptions of their modules,
which TLC evaluates in the runs.

**`TrackerProofs`**: `TypeCorrect` (`Spec => []TypeOK`), `NoneLost` (`NoWakeLost`), `Freshness`
(`FreshDatagram`), `Monotone` (`NeverBackwards`) and `ImplementsRegister` (`Spec => ImplementsUplink`). `NoWakeLost` is not inductive: it says nothing
about a copy under way. The inductive invariant `IInv` adds `CopyInv`: while the datagram is
built and no newer announcement is pending, the regions copied so far are at least as new as the
announcement being served; `gnss_data` is nonempty only with a nonzero `gnss_size`, so that
a skipped copy skips nothing; and what was sent is no newer than `udp_data`. The argument:
`SleepAfterFix` makes a new announcement pending, which makes the implications vacuous; `TakeReady`
serves it and clears the set of copied regions; each `CopyRegion` copies the present
`gnss_data`, at least as new as `announced`; `SendOk` hands this over to `sent`.
For the refinement, most steps stutter (the sweep, the driver, a copy); `PvtFix` is a `Measure`,
`SleepAfterFix` an `Announce`, `TakeReady` a `Serve`, `SendOk` a `Show`, and a failing send a `Stop`;
`NeverBackwards`, which no run checks by itself, is part of `Show`.

The second part of the module looks at one sweep, on a bus that is *punctual* (`Punctual`): no answer comes after
the 500 ms, the accept-all filter lets no other frame in, and the answers to one PID fit `obd_msgq`. Against what
breaks these the code has no defence; `tracker_faulty`, where each of them is broken, asks other questions.
- `Complete` (`SweepComplete`). `SweepInv` says where the answer to each request is: in the report if the
  PID is an earlier one, and otherwise in the report, alone on the bus or once in the queue (`FlightInv`), never
  in two of these places. What is in flight never exceeds the queue, so the driver, which drops what does not fit,
  drops nothing. Any send may be refused.
- `Whole` (`MultiFrameWhole`), without refused sends (a refused flow-control frame means the rest never comes) and for answers whose
  length fits its byte (`LengthsFit`). `WholeInv`: an entry of a PID asked on one format is whole or `Unfinished`, which is to say
  the answer main is taking, with its first pieces at the end of the report, all its others and nothing else under way, and
  `MFL` their length. That nothing else is under way holds because only answers to requests of the current PID are (`Sought`) and
  there is one (`Alone`); two of them would share `MFL`, and nothing is claimed.
- `ReportBounded` (`vehicle_size <= Cap`), for cars whose answers fit (`ReportFits`): `SizeInv` bounds the report by what the
  PIDs so far may add, with the share of the current one either in the report, owed by an answer to come, or announced and not yet
  taken. A second first frame only lowers what `MFL` still counts, so two long answers never add more than their bytes.
  The sum over the PIDs is given as a table `room` of partial sums, since a sum over a set would need induction.
- `Bounded` (`InBounds`), for cars of single frames that fit: besides, nothing but a datagram sets `current_msg_size`, since no length
  byte is ever written.

**`ReportProofs`**: what becomes of a report, for any number of answers of any length a first frame can
announce, to any PIDs, their frames in any mix. `UndisturbedStands` (`UndisturbedWhole`) rests on `SweepInv`: `CarInv` is what the
car answers, `CountInv` which frames have been handled (answers to earlier PIDs are `Done`, those to later ones not begun), and
`BytesInv` where the bytes are. An undisturbed answer that another one has followed lies between where it began and where that one
began (`Past`); the one begun last ends the report, as far as its frames have come, and `MFL` is what it lacks (`Present`). An answer
can only be followed while it is unfinished if both answer the same PID, and then it is not undisturbed; this is why nothing has to
be said of disturbed ones, whose bytes the invariant leaves open but whose beginnings and ends it keeps apart from the others.
`PrefixReaches` (`PrefixIntact`), `FirstAnswerStays` (`FirstAnswerWins`) and `DroppedOnlyForCause` (`DroppedForCause`) rest on
`ListenInv`: until the first answer of several frames the listener's index is exactly where the next answer begins, the entries are
the answers, and `decoded` holds the first value of each parameter among them (`Firsts`). The lemmas on frames (`SingleFrame`,
`NextPart`, `LongFrames`) say what the tracker keeps of each frame, the padding of the last one included; `FirstStep`,
`ConsecutiveStep` and `SingleStep` what each does to the report. Nothing needs a recursive definition: where an answer
begins is the history `begins`.

**`TrackerBootProofs`**: `BootTypeCorrect` (`TypeOK`), whose only hard part is that `checkPID`, a
`uint8_t` that wraps, always is the first PID of a block. On a bus without faults, `Identified` (`VINWhole`)
and `Discovered` (`DiscoveryExact`): `VINInv` says that what is coming is exactly what main has not read of the VIN,
so nothing of it is left over for the discovery; `DiscoveryInv` that only answers to the block asked for are in flight, at most two
of them, that a format main has asked for is either in flight or recorded (`NoneMissing`), and that what is
recorded is what the car announces, no more (`Sound`) and no less up to `checkPID` (`Complete`). `Endless` is the
safe half of `DiscoveryOutcome`: main never reaches its loop with a car that announces the last block.

**`ListenerProofs`**: `ListenerTypeCorrect`, `Frozen` (`SchemaFrozen`) and `Implements`
(`ListenerSpec => ImplementsLog`, the refinement of `CarLog` with `log <- StoredLog`). The
inductive invariant adds to the type that what is in flight or being worked on was sent (`Genuine`:
otherwise `Commit` would not be a `Store`), that the set of sent datagrams is finite (for the
numbering of datagrams), and that an INSERT follows a CREATE TABLE of the same client
(`TableThere`: otherwise a row could appear in a table that does not exist). Each action has a lemma with
what it does to the invariant and to the tables; `Frozen` and `Implements` follow
from these lemmas. `Ordered` (`InOrder`), for networks that only lose, adds
`OrderInv`: the datagrams of a client that are in flight are in the order of their numbers, behind
the one being worked on, and that one is behind the rows.

**`TelemetryProofs`** adds the API to the listener's invariant. The composition is a behaviour of the listener (`StillListens`),
so the theorems of `ListenerProofs` carry over. Rows are stamped in the order of their commits; a snapshot is the prefix of
every table at one moment between the start of the request and now, and the answer is read from it (`OneMoment`, `AnswerIsCut`).
What a reply showed of a car is never above its newest row, and during a request nothing else shows anything, so
a later reply cannot fall below it (`NoReplyOlder`, `NeverOlder`). Also `TelemetryTypeCorrect` (`TypeOK`).

**`GnssProofs`**: five theorems about `GnssSpec`, each with an invariant of its own. `Resumes`
(`OutputResumes`): `FlagInv` says which steps may leave each flag set. `AlmanacThere` (`AlmanacKept`):
the almanac is there from the step between its two writes on. `NeedNotLost` (`NeedKept`): while a request waits or
is being taken over, `lastAgps` is the newest need; afterwards `agpsNeed` is; this rests on `QueueInv`, that no work waits
twice, since taking the head of the queue must not leave another copy. `KeepsTesting`
(`TestGoesOn`) needs besides that nothing but a start leaves the running test. `StartsAssisted`
(`ColdStartAssisted`) rests on `ColdInv`: exactly one thing leads to the next start of the receiver (the
receiver itself, a timer, a waiting work, or the running one), and a start that waits without being assisted has
a request ahead of it in the queue.

**`SoloProofs`**: the programs that run alone.
- MCP2515 prototype: `LedFollows` (`LedLatest`) from `LedInv`: what the LED will show once the queue is
  drained is the last frame that found room, and polling is armed over an empty queue only; the
  second part is what `ResubmitPoll` has to look into the queue for. `Recovered` (`BusOffHandled`) from
  `StateInv`: `currentState` is the controller's state, whoever changed it, so the work that runs
  last sees the last change.
- `SampleNotTorn` (`SampleWhole`): between the two lines of a round main has not asked for a
  sample, so the handler, which runs only when asked, leaves the values alone.
- First prototype: `Drift` (`ProtoDrift`). It takes one frame per request whatever the frame answers. `LagInv` bounds the age
  of every coming frame by its place among them: a place further back allows one more, the faults so far
  allow the rest. `ShiftInv` bounds on both sides the block of each coming bitmap and of each mark made. `ExactInv`
  is the case without faults: nothing is left over when a block is asked for, so the first unanswered block is the
  end of what the car supports.
- Programs that wait until the bus is quiet: `DrainedInOrder` (`DrainedOnce`). What was taken as another's answer and
  what may still be are together no more than the faults: everything that is coming between rounds
  (`Quiet`), and, while draining, the frames that are older than the request (`Late`). `car_live_data` is the
  exception: its identification takes as many frames as an answer has, and its part of the invariant follows it frame by frame.
- `car_live_data` without faults: `Exact` (`LiveExact`), for cars and queues with which its answers are
  `Distinguishable`: the car speaks one format at least, no PID has a long answer on both, and two frames fit in the queue (the
  program's holds 10). These are not idle: two long answers to one request would come interleaved, and `MFL`, of which there is one,
  would close the first entry early. `LiveInv` follows main: `VinFine` says which request for the VIN is being answered and that the
  pieces copied and the frames to come make up one answer; `BlocksFine` that the marks are exactly those of the
  blocks read so far and, of the present one, of the formats whose bitmap was taken (`MarkedFor`), so a PID is asked for
  on every format that answers it; `SweepFine` that the packet holds the answers to the PIDs before the present one and
  those to it that are no longer coming (`Filed`), and inside a long answer its first pieces at the end (`InsideAnswer`). At most two
  frames are ever coming (`FewComing`), so the driver drops none, and a wait ends only when nothing is left (`GiveUpEmpty`). That each answer
  is there *once* is a cardinality: the packet is as long as the set of answers filed (`FiledMore`). When the
  controller did not start, nothing comes and the packet stays empty (`DownStep`).
- `Typed` (`SoloTypeOK`): the types and limits of all seven programs, the screens included, whatever fails. The types need
  the invariants above: a mark of the prototype stays in `0..PidEnd` because main only ever waits for blocks below it
  (`ProtoTyped`); a frame is always one of the heap because main takes one only with empty hands (`FrameInv`); `selectedIdx`
  stays within the number of cars, even when the map is confusing, because no list of cars, wherever a table was inserted
  (`InsertedRow`), names one twice and so none is longer than there are cars (`ListedBound`). `Sensible` names what is assumed:
  `PidEnd` is the end of a block (0x100 and 0x20 in the code), the build of a program that is off is one of `Builds`, `Needs` has
  what is requested before a cold start and what the mask leaves of each need, and there are finitely many cars, at least one.
- `Owned` (`FramesOwned`): the NMEA frames allocated are those in the queue, the one in the handler's hand and the one in main's, each
  in one place only. `OwningStep` moves a frame from one place to another; it needs that main takes one only with
  empty hands, which is `FrameInv`: main has a frame while it prints and at no other time.

**`ScreenProofs`**: `ShowsSelected` (`SidebarIsSelected`), for any number of cars and of refreshes
under way. As long as tables only come behind the others, every answer, however old, is a
prefix of today's list of cars, so an index means the same car in all of them (`Version`), and no car has
two tables (`Apart`). `ShowsComparison` (`ChartComplete`): `StatInv` says of an undisturbed download that it is
alone and has drawn as many lines as cars precede the one it awaits (`UnderWay`); that, if the list was left alone, these lines are
those of its first cars (`Drawn`) and the car it awaits is the next; and that, as long as each car drawn has the parameter, it is
still the selected one. If the list was changed, only its length is known to be that of the start, since the iterator
would have thrown; so the number of lines stays right and the cars may not be.

**Only model-checked**: liveness (`WakeServed`, `DiscoveryOutcome` but for `Endless`, `DiscoveryEndsOrWraps`,
`EachStored`, `ShownEventually`), since fairness is beyond the prover. Every safety property of a passing run has a theorem.
**Only proved**: `Monotone`, `ReportBounded`, `Bounded`, `Endless` and `StillListens`, which no run checks by itself.

## 7. Plan

Done: the core (tracker, report, listener, API), the two screens, the prototypes and the bench
programs that share their hazards. Next, in this order:

1. A composition of `Tracker`'s datagrams with `Listener`, so that what a car measured is
   followed to its row; brown-outs and restarts of the tracker (RAM state is lost, the tables stay).
2. The screens on top of `Telemetry` instead of on arbitrary answers.

Abstract specifications worth stating: `CarLog` and `Uplink` (done), a read-only view
of the logs for the API.

## 8. Not modelled

- Map screen: following a car, searching the sidebar, moving and zooming the map, which change nothing of
  what is selected. Statistics screen: points, axes, colours, date ranges.
- `Firmware/mcp2515/build` is generated. The functions of the first prototype that only its unreachable
  block calls (`server_init`, `server_connect`, `server_disconnect`).
- GNSS bench program: the printing of positions and satellites, the data injected by the minimal
  backend and the table of countries it is taken from, the transports (REST, SUPL library).
- `decodePID`'s arithmetic: formulas without state, whose only effect on the control is
  the number of bytes they read.
- Clock and time zones: rows carry local time, and nothing modelled reads it.
- Login and sign-up, Amplify models, web site, `Backend/mysql`, `Backend/UDP-Client`: forms over an
  external service, generated code, static pages, scripts run by hand.
- Device tests `udp`, `location`, `blinky`, `at_client`, `at_monitor`, `usb_uart`: one peripheral or one library
  call each, in a straight line; what could go wrong in them is inside the libraries they call.
- Traffic without end on the CAN bus: the reception loop of main.c 422 would not end, and
  the code promises nothing for it.
