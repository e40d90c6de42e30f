# TLA+ models of HL_env_mon

HL_env_mon is the firmware of an environment monitor: a board (STM32F107, uC/OS-III,
lwIP, a DM9000 for Ethernet, an SPI flash) that polls sensors over RS-485 and reports to a
platform over TCP. The repository holds two programs, `SOABoot` (the bootloader) and
`SOA_bin` (the application), and no tests or documentation; the models are
translated from the C sources. Below, paths are relative to `SOA_bin/APP/SOA/USER` unless they
start with `SOABoot`.

## 1. The system

| Component | State it keeps | Operations | Talks to |
|---|---|---|---|
| bootloader, `SOABoot/.../app/main.c` | `sysconfig.upgradeState`, image in SPI flash, internal flash, `_jump_to_app` | check the image, erase, copy, record, jump through a reset | SDS, the application (flag and SPI flash) |
| SDS, `drivers/sflash/sds` | rows in RAM, two copies of each in flash, state and CRC per row | `SDS_Init`, `SDS_Edit`, `SDS_Save`, `SDS_Poll` | every service through the setters |
| messages, `modules/hl_msg` | partitions of message blocks and buffers, an OS_Q per service | `MsgDeal_Send`, `_Recv`, `_Free`, `_Clr` | every service |
| tcp service | `tcpconn`, its queue, reassembly buffer | connect, write, receive, close, reset | platform; data, update, register services |
| register service | `my_seq_id`, retry timer | log in (three waits, then the timer), log out and reset | tcp, data, heartbeat |
| heartbeat service | `heartbeat_counter`, periodic timer | start, beat, give up after three | tcp, data, register |
| data service | parameters of the device, `Datalock`, sequence number | requests and acknowledgements of the platform, upgrade request, reboot | all |
| update service | position in the download | receive packets, write the SPI flash, record `NEED_UPDAGRADE` | tcp, data, register, bootloader |
| event service | flags per sensor, one-shot timer | report alarms and faults, match acknowledgements, retry | DA, tcp, data, SDS |
| DA service | values, alarm and fault of each sensor; alarms persisted | poll sensors, compare with thresholds | event, SDS, USART interrupt |
| supervision service | alive flags and counters | count misses, feed the watchdog | all |
| shell, udp service | receive queue, serial buffer, command line; last sender | requests like the platform's, but served in every device state (`data_service.c:1188-1195`) | data, net |

Services are tasks with fixed priorities (net 2, update 3, tcp 4, data 5, report 7,
register 8, heartbeat 9, udp 11, event 12, DA 13, supervision 14). They share
`device_state` and the rows of SDS without a common lock, and otherwise send messages whose
failure is only logged. So the hard behaviours are preemption between any two kernel
calls, queues and pools that are full, power failures in the middle of flash operations, a
connection that comes and goes under requests that are being served, late answers, and
one-shot timers that everything waits for.

What makes each part correct:

* SDS: a power failure at any instant loses at most the edit under way; what counts as saved
  is stored; an erase that fails without being reported harms nothing but its row.
* bootloader: the processor never runs a half-copied application and always ends in one.
* messages: a block has one owner; what is posted arrives unchanged, once and in order.
* session: a device that is not at work is on its way to a login; one at work is watched.
* download: pages land in order and in place; success means the whole image, as far as the
  flash took what was written and nobody erased it meanwhile.
* alarms: an alarm reaches the platform in the end and is not lost in a power failure before;
  an acknowledgement ends the reporting of nothing the platform does not have.
* configuration: a copy is never half of a change; a request that was accepted takes effect;
  nobody waits for a mutex for ever, and a task that does is noticed.
* streams: a packet that arrived is passed on once and in order, whatever came before it.

The `hazards` of `PROJECT.json` list where each of these can go wrong.

## 2. Plan

1. `Sds` with the abstract `StableStore`: everything that survives a power failure rests on it.
2. `Boot` with the abstract `Firmware`: the behaviour that can turn the device into a brick.
   It takes the flag to be stored as `StableStore` promises.
3. `MsgDeal` with the abstract `Mailbox`: what every service is built from.
4. `Session`: tcp, data, register, heartbeat and update service around `device_state`.
5. `Upgrade`: the download, which `Boot` sees only from the flash side.
6. `Event`: DA, event and data service around alarms, `StableStore` again underneath.

7. `Config`: `Datalock` and `DAlock` around the setters, the error paths of `set_alarm`,
   `factory_resrt`, what the assertions after `OSMutexPend` are worth, and the supervision that
   should notice.
8. `Stream`: `parse_data_stream`, `parse_upgrade_stream` and the two buffers they work on; what
   `Session` and `Upgrade` take as whole packets.
9. `Ring` with the abstract `Fifo`: the shell's queue between interrupt and task.

All are written. What is left is `Modbus`, the exchange of the DA task with
`USART2_IRQHandler` (the input of `Event`): late answers, the three waits that count messages
instead of time, the debouncing of `IsValidStatus`.

Every safety property of the passing runs is proved; where a theorem has a hypothesis besides
the assumptions of its module, section 6 names it. `NeverForgotten` needs its bound on the
queue: for a shorter one it is false.

## 3. The models and the code

A step ends where another task, an interrupt or the loss of power can see or change what the
code uses: at kernel calls, flash operations and accesses to shared variables. What a task does
between two such points is one action.

**`Sds`** (`sds.c`). `ram`, `st`, `crc16`, `valid` are the rows of `SDS_Table` in RAM, `flash`
the two copies of each. `bpc`/`bi` are where `SDS_Init` stands: `Load` is `_load` of one row,
`CpyErase`, `CpyBody`, `CpyCrc` the flash operations of `_cpy`. `pc[t]` is where task `t`
stands in a setter (`Lock` … `Unlock`: `SDS_Edit`, the assignment, `SDS_Save`) and in
`SDS_Poll` (`PollFound`, `PollClaim`, the check before each write, `PollErase`, `PollBody`,
`PollCrc`, `PollSaved`). `Crash` may come between any two. `Failing` says what may time out:
erases, whose result `_SDS_Erase` drops (`sds_port.c:15-21`), so that SDS goes on over old or half
erased bytes (`Erase`); the writes of `_cpy`, which `_load` does not look at; those of `SDS_Poll`,
after which the row stays `SAVING`. A cell that was not erased completely is `Torn`, one that is
programmed while not erased may be (`Programmed`), and no CRC accepts it; the CRC of a value is
the value. `damaged` is a history: the copies whose last erase timed out, or whose last repair
ended in a write that did. `StableStore` is a register per row that changes from one committed
value to the next; of a row with a damaged copy (`weak`) it promises nothing until that copy is
erased again.

**`Boot`** (`SOABoot/APP/SOA/USER/app/main.c`, `update_service.c`). `mode` is what the
processor executes: `User_EventProcess` (`NothingToDo`, `CrcOk`, `CrcBad`, `SelfTestFailed`),
the copy (`ErasePage`, `ProgramPage`, `ProgramRefused`, `ProgramFails`, `Retry`,
`CopySucceeded`), the jump through a reset (`StartBoot`, `RunApp`), or the application, which
downloads and records the flag. `Firmware` has one installed image that changes at once.

**`MsgDeal`** (`hl_msgdeal.c`, `hl_malloc.c`). `freeMsg`, `freeBuf`, `queue` and `osMsg` are
the partitions and queues, `snd[t]` and `rcv[t]` where each task is in `MsgDeal_Send` and
in `MsgDeal_Recv`, the handler, `MsgDeal_Free` or `MsgDeal_Clr`. Each action is one kernel
call; `PostToReader` is an `OSQPost` that hands the message to a task that pends. `Mailbox` has
queues of payloads only.

**`Session`** (`tcp_service.c`, `register_service.c`, `heartbeat_service.c`, parts of
`data_service.c`, `net_service.c`, `update_service.c`). `tpc`, `dpc`, `rpc`, `hpc` are where
the tasks stand, `tcpq`, `dataq`, `regq`, `ackq`, `hbq` their queues, `wire` the packets the
platform has to answer. `counter` is read and written in separate steps (`Load`, `Store`), as
`heartbeat_counter++` is compiled. The platform answers, is silent, asks for an upgrade, or
the connection goes. The platform's requests are served in `DEVICE_STATE_WORK` only; those that
come over UDP or the serial line (`LocalUpgrades`) in every state, so that an upgrade may be
ordered before the first login, and end in `DEVICE_STATE_WORK` when it is aborted.

**`Upgrade`** (`update_service.c`, `tcp_service.c`, `data_service.c`). `cpkt`, `addr`, `errs`,
`ret`, `first` are the variables of `upgrade_handler` and `upgrade_data_handler`, each outcome
of a packet is an action (`TooManyErrors`, `BadPacket`, `BadHeader`, `OutOfOrder`,
`WritePage`), as is each outcome of a silence of five seconds (`KeepWaiting`, `Quit`, `Finish`).
`held` is a packet between the test of `device_state` and `MsgDeal_Send` in the tcp task. A
`Request` may come in every state, also while a download runs; its erase may time out
(`EraseFails`, which the platform is told) and a page write too (`WriteFails`, which
`update_service.c:231` does not look at). `MSG_ID_UPGRADE_IND`, `MSG_ID_LOG_OUT` and
`MSG_ID_UPGRADE_RESET` may find no buffer or no place (`Erase`, `Finish`, `ResetLost`), and setting
the flag may be refused by SDS. Two histories say what the code does not know: `hurt`, the pages
that were not blank when the download started, were erased during it or whose write failed, and
`unsent`, that the message which would end the upgrade was lost.

**`Event`** (`event_service.c`, `DA_service.c`, `data_service.c`). `da` is `Sensor_State` of the DA
service, `en` and `sys` are the configuration in RAM, `stored` the one in the flash, `conf` the
flags of `EventConf`. `Save` is `SDS_Edit` to `SDS_Poll` of the whole row, and may be refused since
another task is in `SDS_Poll`, as `sds_lost` shows (`refused`): the change is then in RAM, for
whatever save comes next (`SaveOther`, or one of this module), and no setter looks at that. The DA task finds an alarm, takes `DAlock`,
stores and sends it (`FindAlarm`, `LockState`, `SaveAlarm`, `SendAlarm`) and then may find a
fault; the event task goes through the flags (`SendReport`, `ClearAcks`, `ReceiveAck`,
`GiveUp`); the data task deletes and enables sensors, and is stopped in it by `DAlock` only.
`FactoryReset` zeroes the stored states under the DA and event service, which keep theirs.

**`Config`** (`data_service.c`, `os_mutex.c`, `supervision_service.c`). `owner` and `nest` are
the mutexes, `want` the one a task waits for; `Pend` and `Post` are `OSMutexPend` and
`OSMutexPost` with their errors for an owner that nests, which stop the task when the build has
`assert` (`asserts`). `pc` and `req` are where a task is in a setter: `CheckAlarm`,
`RefuseAlarm`, `WriteRecover` are one item of `set_alarm`, `SetSensor` to `EndSensor`
`set_sensor` with `set_sensor_State` under `DAlock`, `Clear` `factory_resrt`, `Leave` the end of
any of them. `StoreHalf` and `StoreRest` are `set_sys_sensor_State`, the one writer of the
configuration that does not take `Datalock`: the DA task may be preempted in the middle of its
element of `states`, by `get_config` or by what clears the element. The other setters assign one
field under `Datalock` and stand as `set_config_report`. `Round` and `Look` are the two sides of `task_alive_list`; `WatchdogReset`
follows when a stopped task keeps the supervision from running.

**`Stream`** (`tcp_service.c`, `service_shell.c`). A text is what the platform sends: packets of
both kinds, junk, false heads inside packets. `mem` is `packed_data`, whose elements are
positions of the text, so that stale bytes behind `len` stay what they were; `len` is
`netbuf_len`. `Receive` and `Overflow` take a segment, `NoHead`, `Wait`, `Drop`, `Find` are the
results of the parsers, `Deliver` asks `device_state` again for the receiver, as
`tcp_stream_handler` does, and shifts the buffer whether `MsgDeal_Send` took the packet or not
(`sent` in `out`). `Switch` changes `device_state` between any two steps, `Reconnect`
loses the rest of a packet. `Layout` has offset, guard, fixed length and limit of each parser.

**`Ring`** (`queue.c`, `com_shell.c`). `Push` is the interrupt, `PopTest`, `PopFront`, `PopRead`
the accesses of `queue_pop`, `InitFront` and `InitRear` those of `queue_init`, which the task runs
while the interrupt may push already. `Fifo` is a bounded queue that loses what does not fit.

Abstracted everywhere: contents of packets that nobody looks at, logging, checksums (a packet is
right or not), numbers that only have to be distinct (`seq_ID` takes the smallest number no
packet under way has, since a number comes back only after 65536 packets).

Definitions marked `Fault:` are not part of the models: each is a plausible mistake in the
definition that follows it, kept to show which property would notice it (`mutants` in
`PROJECT.json`).

## 4. The runs

| Run | Instance | Shows |
|---|---|---|
| `sds_one` | one task, two rows, of which row 0 takes both values and all damage; erases, writes of `_cpy` and writes of `SDS_Poll` may time out | `KeepsACopy`: no flash step, whatever power failure follows it, loses the last readable copy of a row, unless a copy of it was damaged unnoticed. `SavedIsStored`: what SDS calls saved is in every copy that is not damaged. `ImplementsStore`: a restart finds the last committed value of every row without damage, and a later erase repairs the others |
| `sds_two` | two tasks with different locks, one row; writes of `_cpy` may fail | `SavingHasSaver`: no row stays claimed, so `SDS_Edit` is not refused for ever. `SaveIsServed`: what is marked for saving is taken up by some `SDS_Poll` |
| `sds_lost` | two tasks, one lock, no failures | counterexample to `QuietIsStored`, the promise of `sds.h:109`: an edit refused because another task is in `SDS_Poll` is not stored, and its caller does not look |
| `boot` | images of two and three pages, every flash and power failure | `RunsWholeImage`, `Recoverable`, `FinishMeansInstalled`, `ImplementsFirmware`: an upgrade is atomic. `EndsInApp`: the device ends in an application unless a reset found `SELF_TEST_FAIL`, which `User_EventProcess` has no case for |
| `msg` | a reader of two queues, one of two places and one of one, a sender, three blocks, three buffers in two partitions, two `OS_MSG`s | `OneOwner`: however a send fails, nothing leaks and nothing is freed twice. `ImplementsMailbox`: unchanged, once, in order. `Received`: every posted message is taken, no task waits for a resource another one holds |
| `session` | two faults or commands at any moment, upgrades ordered locally in any state among them | `NeverForgotten`: a device that is not at work has a login ahead. `WorkIsAccepted`: only the answer to the last login takes it to work. `WorkIsWatched`: at work it has its heartbeat timer, or its first login is still ahead. `EndsInWork`: after the last fault it works again, unless it is left in an upgrade |
| `upgrade` | one file of three pages, four packets, three requests or reconnections, with a chip that times out and messages that are lost | `Prefix`: pages land in order and in place, with the exceptions `hurt` names. `FinishIsWhole`: success is told and the copy ordered only for a whole image, with the same exceptions. `UpgradeEnds`: however requests meet, the device leaves the upgrade unless the message that ends it is lost |
| `event` | a sensor with faults and one with alarms as well, two changes, a lost or late packet or a refused save, and a deletion, a factory reset or a power failure | `AckIsForState`: late and foreign acknowledgements end nothing. `UntoldIsStored`: an alarm the platform does not have is stored, or, when its save was refused, in RAM for the next one. `PlatformKnows`: it gets there |
| `event_index` | the same | counterexample to `StateOfSensor`, said of `Sensor_State` at `data_service.h:27`: an acknowledged alarm resets element 0 instead of its own and is reported again after every restart |
| `config` | the data task, the shell and the DA task, two sensors, two alarms (a second item may be refused when the first is written), two requests of the platform or the user, with and without assertions | `CopiesAreWhole`: `get_config` never copies half of a `set_alarm`, even when a refused one kept `Datalock`; a copy may hold half of a sensor's state, of the one element whose writer was preempted. `EnabledAsAsked`: an accepted `set_sensor` changes what is polled. `Served`: every wait for a mutex ends unless a refused `set_alarm` kept it. `HangIsReported`: a task that hangs in `OSMutexPend` is logged as dead |
| `stream` | seven texts of three packets, segments of 1 to 9 bytes, TCP with two changes of parser and a lost connection, or the serial port | `HealthyIsKept`: a packet that arrived whole is sent once and in order, whatever came before it; excused are packets some of which did not fit, which the other parser looked at, whose length field was cut, or which `MsgDeal_Send` refused in their turn. `FirstLossIsSplit`: on clean streams the first head that is dropped is that of a packet cut inside its length field. `RoomLeft`: over TCP the buffer never fills up |
| `ring` | four elements, ten characters | `ImplementsFifo`: without a lock, the queue is a FIFO that loses characters only when full or before `queue_init` |

Limits that the runs keep, with the reason for each:

* `sds_one` has one task because with two the properties do not hold: the setters of tasks run
  while another one is inside `SDS_Poll`, which takes no lock, and both may write the same copy
  (`hazards`). Row 1 (`Rows` in `MCSds`) is only written and loaded around row 0: what two rows
  have in common is the loops of `SDS_Init` and `SDS_Poll` and the task's variables.
* `MaxPages = 3` in `Boot` is the header and vector page, one page of a short image and one
  more of a long one: enough for pages of an older image to be left behind a newer one.
* `MsgDeal`: each of the resources can be the one that runs out, and each can run out alone. A
  queue of two places is the shortest in which an order can be lost: the mutant of
  `ImplementsMailbox` posts in front.
* `Session`: `RegCap = 3` is above `MaxLosses = 2`. With as many reboot commands pending as the
  register queue holds, `LOG_IN` is lost and the device forgotten; five such commands are needed
  in the code. Message blocks do not run out here, except that `MSG_ID_UPGRADE_IND` may be lost; if
  they did as `register_tmr` sends `LOG_IN`, the same would happen.
* `Upgrade`: `MaxEvents = 3`: a request, a second one under its download, and a reconnection
  between or behind them. What two of them can do to an image is in `hurt`: success is then told
  for an image with a hole, which the bootloader refuses (`Boot`). Three pages are a first one with
  a header, a last one, and one between them; the fourth packet repeats or replaces one. The run
  has one file, since a second one multiplies the states; a first page of another version is
  refused as a first page without a header is (`BadHeader`), and the proofs are for any files.
* `Event`: `EqCap = 3`, two changes: an alarm and its recovery, or an alarm and a fault. A full
  `event_service_q` ends reporting for good, since nothing starts `event_tmr` again, so
  `PlatformKnows` is about runs without it; it is also about runs without a deletion or a factory
  reset, after which the type of a sensor's state is 0, without a restart that finds a configuration
  older than a refused save (`stale`), and for faults without any restart, since they are not
  stored. `UntoldIsStored` excepts the sensors whose stored state a factory reset zeroed (`wiped`).
* `Config`: `MaxOrders = 2`: one request to leave something behind and one to meet it; the DA task
  calls in every round without limit. `MaxNest = 2` stands for the nesting counter of 8 bits,
  which is reported and not incremented at its end; `Wrap = 2` for the counters of 256
  rounds: a smaller modulus only makes a coincidence come sooner.
* `Stream`: headers are shortened (the length field of a data packet at 3 instead of 17, guard 3,
  limit 11), bytes have four values; the order of offset, guard, fixed length and limit is that
  of the code (17/17/22/300 and 7/5/11/267), as is that of the buffers: the TCP buffer holds a
  packet and a segment (1024, 300, 536), the serial one is shorter than a packet (256). A
  checksum accepts a packet that is complete and nothing else.
* `Ring`: `Size = 4` instead of 1024: empty, full and both wraps come up in ten characters.

`CHECK_DEADLOCK FALSE` stands where the bounds let a finite model stop: `Upgrade`, `Event`,
`Stream` and `Ring`.

## 5. Fairness

Each task has its own priority and every handler ends in a wait, so a task that can go on
does: weak fairness of each task's steps. Strong fairness is used in `MsgDeal` for the release
of blocks and the taking of messages, steps that other tasks can interrupt again and again
but, the load being finite, not for ever. Timers expire (the OS tick does not stop). Of the
outside world, `Session` and `Event` assume that the platform answers what was not lost and
that only finitely much is lost; `Boot` and `Upgrade` assume nothing: `Upgrade` is fair to "the reset
or its loss", never to the reset alone, nor to erases or writes that succeed. `Config` assumes that a
task which has a request goes on, that the supervision looks again and again (it may not when a
task is stopped in an assertion) and that the watchdog then resets; nobody has to call a setter,
and the outcome of a wait is not assumed. Power failures, commands and new alarms are never
fair.

## 6. Proofs

For every value of the constants, checked by TLAPS; the assumptions are those of the modules
(`BootAssumption`, `SdsAssumption`, `EventAssumption`, `SessionAssumption`, `ConfigAssumption`,
`RingAssumption`, `MsgDealAssumption`, `StreamAssumption` and `UpgradeAssumption`). Where a theorem has a hypothesis besides, it is named below with what the code makes
of it.

* `BootProofs`: `TypeCorrect`, `NeverRunsHalf`, `AlwaysRecoverable`, `FinishIsTrue` and
  `UpgradeIsAtomic`, the refinement of `Firmware`. `Recoverable` (a good image is flagged
  whenever the application is not whole) is not inductive by itself; `IInv` adds `ModeInv`:
  while a page is erased or programmed the flag is `NEED_UPDAGRADE` and the pages in front of it
  are the new image's, and `FINISH_UPDAGRADE` is about to be recorded only over a whole image.
* `SdsProofs`: for any tasks and whatever times out `TypeCorrect`, and `NoRowStaysClaimed`
  (`SavingHasSaver`) if no write of `SDS_Poll` times out: a write that does leaves the row in `SAVING`
  until the next restart. For one task (`SingleWriter`), and whatever times out, `LastCopySurvives`
  (`KeepsACopy`), `SavedIsTrue` (`SavedIsStored`) and `SdsIsStableStore`, the refinement of
  `StableStore`; with a second task they are false. One `IInv` serves the three. `CopyInv`: the source of a
  repair is readable and in RAM, and the copy as far as `bpc` says. `LoadedInv`: a row that is
  loaded, not being written and not given up has both copies, and they agree, or none (`Mirrored`).
  `ValueInv`: the row does not change between `SDS_Save` and the end of `SDS_Poll`. `WriteInv`: the
  copies that are done have the new value, the one being written is as far as `pc` says. All
  but the readable source is said of copies without damage only; that is enough, since SDS
  erases a copy before every write of it, and an erase that succeeds ends the damage. A step of
  the code is then an `Edit`, a `Commit` at the one write that completes the first copy, `Weaken`
  or `Shake` where a flash operation fails unnoticed or meets such a row, or nothing.
* `EventProofs`: for any sensors and queues and any number of losses, refused saves, commands and
  power failures, `AlarmIsStored` (`UntoldIsStored`), `TypeCorrect` and `OnlyAcceptedEnds`
  (`AckIsForState`). For `AlarmIsStored`, `IInv` says more than the property: an alarm that was
  found is in RAM or about to be, whether the platform has it or not, unless a factory reset took
  it (`WaterInv`), and what is in RAM is stored unless the last save was refused (`SavedInv`);
  that needs `PollInv` (it is the water sensor that is polled between the find and the send) and
  `OthersInv` (no other sensor has an alarm), and it rests on acknowledgements resetting
  element 0. Were they to reset the sensor's own element, the next alarm could be lost between
  its storing and its report: the mutant of `UntoldIsStored` shows the behaviour. `OnlyAcceptedEnds` needs `RInv`: the report that is waited for
  is the last in the network and unacknowledged, or lost, or accepted with nothing behind it
  (`ReportInv`). A new report must get a number that nothing under way carries, and only so many
  numbers exist: `UnderWay` bounds what is under way by the losses so far, and `FreshIsNew` counts.
* `SessionProofs`: `TypeCorrect` and `OnlyAcceptedWorks` (`WorkIsAccepted`), for any sizes of the
  queues and any number of losses. `WatchStays`: from the first login on the heartbeat timer, or
  the message that starts it, is there until the processor starts again, without a condition.
  Before the first login an upgrade that is ordered locally and aborted takes the device to
  `DEVICE_STATE_WORK` with no timer; so `AlwaysWatched` (`WorkIsWatched`) says that then the login
  is still ahead, as long as there is room in the queue of the register service, or a `LOG_IN` in it
  (`Room`). Under the same condition `RoomNeverForgets` (`NeverForgotten`): a device that is not
  logged in has a login under way (`PendInv`). `LogInNeverForgotten`: with fewer losses and orders
  than that queue has places (two and three in the run; the queue of the code has five) there
  is always room. `IInv` is `Budget` (every order under way was counted as a loss, which bounds
  the queue), `AckInv` (only an accepted login can have its number in an acknowledgement; a new
  number is new by counting) and `WatchInv` (only a timer that runs sends its message).
* `ConfigProofs`: `TypeCorrect`, `CopyIsWhole` (`CopiesAreWhole`) and `SensorsAsAsked`
  (`EnabledAsAsked`), for any tasks, priorities, sensors and requests, `set_sys_sensor_State`, which
  writes without `Datalock`, among the calls any task may make. `IInv` is `LInv` (a task
  inside `Datalock` owns it, whatever was refused before), `DAInv` (`DAlock` is never
  nested), `StatesInv` (an element of `states` is half only while its writer, who has `DAlock`, is in
  the middle of it), `DInv` (requests and thresholds are whole or being written by the task inside, and
  the sensors that are polled are those the accepted requests asked for) and the types of the
  rest.
* `RingProofs`: `TypeCorrect` and `QueueIsFifo`, the refinement of `Fifo`, for every size. Its
  facts are about modular arithmetic: the slots from front to rear are what the FIFO holds, and
  the producer's step touches none of them.
* `MsgDealProofs`: `TypeCorrect`, `EveryBlockOwned` (`OneOwner`) and `MsgDealIsMailbox`, the refinement
  of `Mailbox`. `OneOwner` counts and is not
  inductive; `IInv` says where a block may be: `Owners` (free list, sender, receiver and places in
  the queues exclude one another), `NoLeak` (it is in one of them), `BufInv` (a buffer is free, or
  of one message that notes its partition), `MemInv` (what a sender has done so far) and
  `CountInv` (every queued message has an `OS_MSG`). `OneOwner` follows since each of the sets it
  counts is then empty or a singleton. The heart of the refinement is that no step changes
  what a queued or handled message holds, except its own handler's: the block and the buffer
  have no other owner.
* `DownloadProofs`, about `Stream`: all four properties, for any texts, segments, layouts and changes
  of parser. `StreamAssumption` asks of the buffers that TCP's holds a segment and one byte less than the
  longest packet (1024, 536 and 300 in the code) and the serial one more than a header (256 and
  19), and of the texts that they are units one after the other, the packets among them with
  the length field that says how long they are (`IsText`). `TypeCorrect` and `TcpNeverFull`
  (`RoomLeft`) need `FoundInv` (a packet that was found stays in the buffer while another task changes
  the parser) and `RoomInv` (what waits for more bytes is less than a packet).
  `HealthyPacketsKept` (`HealthyIsKept`) is about whole packets only and not inductive: `KeptInv` says of
  every packet of which a byte has come that the bytes that came lie in the buffer one after
  the other, the head first (`From`), or that it was passed on, sent or refused by `MsgDeal_Send`, or excused. That needs
  `Rising` (the buffer has the bytes in their order, with gaps), from which it follows that
  nothing lies behind a packet that is not complete (`TailOf`), and `OutInv` (what was passed on
  is in front of all that is held). A parser that meets such a head with its length field there
  then waits or passes the packet on (`NotDropped`).
  `FirstLossIsHalfALength` (`FirstLossIsSplit`) says what the bytes behind the end of the buffer are
  until the first loss: at the place of the length field there is nothing, or the length field of
  a packet that was passed on (`Stale`), so that a length read too early is one of a packet
  and more than has come. With `AtFront` (the buffer begins with a packet and has no gaps)
  the parser waits, unless just one of the two bytes is there. `LostBehind` keeps the first
  loss the first.
* `DownloadProofs`, about `Upgrade`: for any files, pages and packets, and requests, erases,
  failures and reconnections at any moment, without a hypothesis, `UpTypeCorrect`, `DownloadIsWhole` (`Prefix`)
  and `SuccessIsWhole` (`FinishIsWhole`). With `hurt` in it, `Prefix` is inductive together with
  `PageInv` (`dataaddr` is on the page that comes next, and success is due for the last one
  only) and `RoomForInd` (a request under way was counted, which bounds `update_service_q`). What
  the code does not see to, that no request erases under a download and that every write
  succeeds, is not assumed: the pages it costs are the ones in `hurt`.

Only model-checked: all liveness (`SaveIsServed`, `EndsInApp`, `Received`, `EndsInWork`,
`UpgradeEnds`, `PlatformKnows`, `Served`, `HangIsReported`), which is outside what these provers
do; and that the texts of a run are texts (`MCStream` spells them with a fold, over which these
provers do no induction): TLC evaluates `StreamAssumption` for them.

## 7. Not modelled

Listed with reasons under `components`: lwIP, uC/OS-III, CMSIS and the HAL are present only by
what they promise; `dm9000`, `softi2c`, `delay`, `debug`, the lwIP ports and the log are register
access and printing; `hl_packet` and the checksums are conversions, which `Stream` uses by what
they accept; the udp service has no module: one datagram is one
packet, which the data service serves in every device state, and `Session` and `Upgrade` have its
upgrade requests. The exchange on RS-485 is not modelled
(section 2); `Event` takes any status from it.

Met while modelling, in this code for anyone who looks, but no property is about it: the table
of payload partitions (`hl_malloc.c:18`) counts four blocks over an array of two;
`factory_resrt` zeroes the types of all sensors, so that a later `set_sensor` changes the wrong
elements (`data_service.c:431`); a page that the platform repeats after the last one sets `ret`
back, and a download it was told to be complete is given up; the serial buffer of 256 bytes
is shorter than the longest packet; a connection that is lost and made again within the five
seconds before `NEED_UPDAGRADE` is recorded leaves a `LOG_IN` behind it that may set the flag back
(`update_service.c:348`), which costs the upgrade only; `data_len` of the RS-485 line is set when it
goes idle only, so that other interrupts send the last answer's length again
(`DA_service.c:749`).
