# Verification of the d4122 security probe

The probe (`d4122/code/security_probe`) stands between a local network and one
peer and moves the traffic of the peer between five channels: the main network,
two back-up networks and two serial lines. This directory holds TLA+ models of
that program and of the service that keeps it running, the TLC runs that check them
on small instances and TLAPS proofs of theorems about them. Paths below are relative
to `d4122/code`; `ts_module/` stands for
`security_probe/flux_control/source/ts_module/`.

## 1. Inventory

### The process and its threads

| Thread | Code | What it does |
|---|---|---|
| packet thread | `FluxControlObserver.cpp`, `PushPacket` | handles every packet, every serial packet and every one-second timer, one at a time: forwarding, detection, switch, update |
| command thread | `CConfigAndCtrlDoCmd.cpp` | answers the management station, one request at a time; starts an update by setting `m_nUpdateCfg` to 0 |
| statistics thread | `ts_module/TS_StatMgmt.cpp`, `svc` | copies states and counters to shared memory every five seconds; parked during an update |
| serial tasks | `packetio_wrappers/PacketIO/source/SerialDataSend.cpp`, `SerialDataRecv.cpp` | one sender and one receiver per line, with a ring of packets between each and the packet thread |
| service process | `unierm_ctrl_dll/MonitorSvc.cpp`, `ProbeDoCmd.cpp`, `MonitorManage/` | a timer thread that starts, checks and stops the programs each second, and a thread of commands; one mutex between them |

Nothing the first three threads share is protected by a lock, and the rings between
the packet thread and the serial tasks are used by both sides without one.

### Components

| Component | State | Operations | Interacts with | What makes it correct |
|---|---|---|---|---|
| back-up channel detection (`TS_BackNet.cpp`, `TS_Base.cpp`, `TS_OneWanLineStatusManager.h`) | thresholds, period, echo sequence; per peer: state, MAC, timer, probe table | check every period, ARP and echo answers, update | wire; its verdict drives the switch | counters equal the table; failure noticed in time; recovery on fresh evidence only; recovery happens |
| back-up network detection behind a gateway (`CTS_BackNetEoL3` in `TS_BackNet.cpp`) | the record of the gateway with its age, that of the peer | ARP and echo checks, ageing and asking again, update | wire, gateway; its verdict drives the switch | as above; no verdict without a gateway |
| main network detection (`TS_MainNet*.cpp`) | the same, plus the gateway with a table of one probe and, in L2 mode, the hosts heard of | as above; in L2 mode ARP answers in the name of a lost gateway, and their correction | wire, gateway, hosts of the network; its verdict drives the switch | as above; no verdict behind a lost gateway; its address is given back |
| serial line detection (`TS_BackCom.cpp`) | state, a table of one probe | heartbeat every fifth tick | the other end, the update (ticks stop) | silence noticed, no flapping |
| channel switch and forwarding (`FluxControlObserver.cpp`, `TS_PeerNode.cpp`, `TS_BackNetL3.cpp`) | the channel in use, a buffer per back-up network | timer, unicast, multicast, ARP, update | verdicts of all detections, buffers | best channel in use; nothing twice; a switch loses no recent packet |
| packet ring (`cpf/source/CommonQueueManager.cpp`) | bytes, two positions, two counters, mark of the packet last read | allocate, finish, read next, skip, clear | buffers of the peer, serial queues | it is a queue, at every boundary |
| configuration update (`FluxControlObserver.cpp`, `CConfigAndCtrlDoCmd.cpp`, `TS_StatMgmt.cpp`) | progress, task flag, configuration in force | apply, poll, tick, pause, rebuild, continue | three threads | statistics parked; progress honest; it ends |
| serial framing (`SerialDataSend.cpp`, `SerialDataRecv.cpp`) | frame being written; automaton and buffer of the receiver | frame, write, receive a byte | the line | packets arrive unchanged, whatever their bytes |
| serial queues (the same files, over `CommonQueueManager.cpp`) | a ring, a semaphore | allocate, copy, finish, post; wait, look, copy, skip | packet thread and serial tasks | whole packets in order; no wake-up lost |
| process supervision (`MonitorManage/MonitorTask.cpp`, `MonitorManager.cpp`, `cpf/source/processrunhelper.cpp`) | per program: state to be in, for now and for good; state seen, pid, two times; a process mutex and two named events | timer, existence and activity checks, start, stop, restart by command, scheduled stop | the program, the clock, the file of the states | what is to run runs, what is stopped stays off, a healthy program is spared |
| statistics, access management, mirror, cards, configuration files | counters, tables, an interface, parsed files | | | alignment with the filters after updates |
| management plane, packet input and output, decoding, tools | | | | outside the forwarding path |

What is hard here: results of probes that come late, twice or out of date;
thresholds and tables replaced while answers are under way; a ring that wraps
around while it evicts; a switch decided by a table of some thirty pairs;
hand-shakes over plain integers; stores to a shared ring that another thread sees
half done; events that outlive the process that signalled them; a byte stream whose two ends must agree on where
frames begin. `PROJECT.json` lists every such hazard with its line, and the
properties that cover it or the reason why none does yet.

## 2. Modules

| Module | Models | Correspondence |
|---|---|---|
| `TestWindow` | the probe table `COneTypeTestInfo` | a record with a function from slots to probes and the two counters; one operator per method. Times become three fates, because every caller passes a timeout of 0. The fill of a whole table is given by what it leaves (`FillWindow`), which lemma `FillByLoop` of `TestWindow_proofs` derives from the loop of the code |
| `HostDetect` | `CTS_BackNetEoSgl1` | one variable per member; `f_BackNetCheck` is one action per state of the peer; the wire (`link`, `arp`, `net`) is the environment |
| `MainNetL2` | `CTS_MainNetL2` and, when no host sends, `CTS_MainNetL3` | `gw*` are the record of the gateway, the others that of the peer; `f_MainNetCheck` is one action per state of the gateway and calls one operator per state of the peer; `arpTable` is `m_pArpTable`, `spoofed` what the hosts were told |
| `Channels`, `BestChannel` | the five channels and, abstractly, what the probe promises of them | `running` is the best of `usable` after every check |
| `PacketQueue` | a buffer as `f_PushPktQueue` and `f_FlushPktQueue` leave it | a sequence and a mark; a push has several outcomes because eviction depends on the ring: it finds room (`MakesRoom`), or gives up at the limit of its reads and drops the packet it brought (`GivesUp`) |
| `Failover` | `TS_HandleTimer`, `TS_ForwardIpOut`, `TS_ForwardArpOut`, `TS_UpdateConfig` as far as the switch sees it | `peerStat` is `m_vtPeerStat[0]`, `queue` the two `m_vtPeerPktQueue[0]`; the verdicts are inputs; `sent` is history |
| `PeerBuffer` | abstract specification of one buffer | `PacketQueue` as a behaviour: push or flush |
| `RingState`, `CommonQueue`, `RingBuffer` | the ring of bytes | the first is the memory and what must hold of it, the second what the code does with it, the third what it holds as an instance of `PeerBuffer`. Units of 8 bytes (header size and alignment); `mem`, `wp`, `rp`, `count`, `last` are the buffer, the positions, the difference of the counters and `m_nLastReadPktLen` |
| `UpdateState`, `ConfigUpdate` | the update across three threads | the first is the state and what must hold of it, the second what the threads do: each read or write of `m_nUpdateCfg` and `m_nTaskRun` is a step; `pkt` and `stat` are program counters |
| `FrameState`, `SerialFrame` | both `svc` of the serial tasks | the first is the framing and the state of both ends with what must be true of it, the second what the two tasks do. `frame`, `left`, `written` are the locals of the sender, `recv`, `buf` the members of the receiver; `failed` and `strayed` are history, the frames a write of which failed or began at a wrong byte |
| `SerialQueue` | the ring of `CommonQueue` between two threads | one access to shared memory is a step; `wpc`, `rpc` are program counters; the last stores of a write are made in any order the build may choose; `taken` is history, the packets that found room with the places they got |
| `BackNetEoL3` | `CTS_BackNetEoL3` | `gw*` are the record of the gateway, the others that of the peer; `f_BackNetCheck` is one action per state of the gateway, `f_PeerDetect` one operator per state of the peer |
| `Supervisor` | `CMonitorTask` with both of its classes, the thread of the commands, and the program as `CProcessRunHelper` makes it behave | `run`, `perm`, `stat`, `pid` are the members of the task; `exist` and `active` the two differences of times; `pc` and `todo` say where the holder of `m_Mutex` is in a start or stop, `os` what the processes do, and the events are shared memory |
| `SerialDetect` | `CTS_BackCom` at both ends of a line | per end one state, period and table; `TestWindow` with one slot |

`MCHostDetect`, `MCMainNetL2`, `MCBackNetEoL3`, `MCFailover`, `MCCommonQueue`,
`MCSerialFrame`, `MCSerialDetect` and `MCSupervisor` give constants their values and add
the history variables some properties need; where a run needs a history to be finite, its
counter stops at the last value the properties tell apart. `*_proofs` modules hold the
theorems, those about a component in one of its name. `Threads_proofs` holds those of
`SerialQueue` and of `ConfigUpdate`, the two whose threads share memory without a lock;
`Failover_proofs` holds those of `CommonQueue` too, the buffers of the networks that
`Failover` switches between, and `SerialDetect_proofs` those of `SerialFrame`, which
crosses the same line.

How they compose: `HostDetect`, `MainNetL2`, `BackNetEoL3` and `SerialDetect` use
`TestWindow`; the state they decide is the input `usable` of `Failover`; `Failover` uses `PacketQueue`, which
`PeerBuffer` turns into the abstract specification that `CommonQueue` implements, seen
through `RingBuffer`;
`SerialQueue` takes the operators of `CommonQueue` apart and carries the frames of
`SerialFrame` to the sender and from the receiver;
`Failover` implements `BestChannel`. `ConfigUpdate` says when the timer of
`Failover` runs (`m_nUpdateCfg = 100`) and when its `TS_UpdateConfig` happens.

An operator with a suffix, such as `CheckEchoOk_NoTimeout`, is not part of a model:
it is the definition it precedes with a plausible bug, and `PROJECT.json` names the
property that notices it.

## 3. Runs

| Run | Bounds | Shows |
|---|---|---|
| `host_detect` | 2 MACs, 4 ids, 1 update between a table of 3 and one of 2 with other thresholds, ageing after 2 s | `MacKnown`, `CountersAgree`; `DetectsFailure`: at most the configured loss of checks in silence; `FreshEvidence`: recovery only on answers booked since the failure; `LossIsFinal`: a late answer never turns a loss back; `Recovers`: once the wire stays good the channel comes back for good |
| `backnet_l3` | 2 MACs, 3 ids, tables of 1 and 2, a gateway forgotten after 3 s and asked again after 2, 1 update | `GatewayFirst`, `DetectsFailure`, `Recovers`: once the wire stays good the network comes back for good |
| `main_net` | 2 MACs, 2 ids, tables of 1, 2 hosts, ARP table of 1, 1 update | `GatewayFirst`: no verdict on the peer behind a lost gateway; `DetectsGatewayLoss`: at most one check in silence; `SpoofUndone`: no recorded host keeps the probe's MAC; `MacKnown`; `Recovers` |
| `failover` | 3 packets, buffers of 2 that keep 1, pushes that may give up at the second read | `ImplementsBest` (refinement of `BestChannel`), `OncePerNet`, `NoGap`: a switch down sends the newest packets buffered for the failed channel, but for those whose own push gave up |
| `packet_ring` | 17 units, packets of 1 and 4 units, 9 packets, of which at least 1 is kept, pushes that give up at the third read | `WellFormed`: the reader never finds the ring damaged; `EmptyIffMeet`: a full ring is never taken for an empty one; `IsPeerBuffer`: the ring implements `PeerBuffer` |
| `clear_queue` | 10 units, 6 packets | violation, see section 6 |
| `config_update` | 3 rewrites of the files | `ModulesQuiet`, `ProgressHonest`, `UpdateEnds` |
| `lost_apply` | 2 rewrites | violation |
| `serial_frame` | 2 packets of 1 or 2 bytes, any number of calls of write for a frame, each of which takes nothing, a part or all, or fails | `Transparent`: what arrives is what was sent, in order, until a write fails or strays; `EndsWellFormed`: even then the receiver never collects as many bytes as a frame has |
| `serial_queue` | 9 units, packets of 1 to 3 units, 6 packets, both directions | `FindsHeader`: the reader never takes the ring for damaged; `DeliveredInOrder`; `SignalPerPacket`: no wake-up lost; `EverythingRead` |
| `serial_detect` | 2 ends, checks every 5 ticks as in the code, any phases | `DetectsSilence`, `FreshEvidence`, `GoodLineIsUsed` |
| `supervisor` | one program of either type, 2 pids, 1 command or scheduled stop, 2 faults (crash, hang, start by hand or a failed or slow one, jump of the clock, restart of the service), intervals of 1 and 2 ticks | `DisabledStaysOff`; `SupervisionSpares`: a healthy program is not killed by the checks; `CommandsEnd`; `KeepsRunning`; `StopsForGood` |

Type invariants that are proved (section 5) are not checked again by the runs: those of
`HostDetect`, `MainNetL2`, `BackNetEoL3`, `Failover`, `ConfigUpdate`, `SerialDetect` and
`Supervisor`. The runs check those of `CommonQueue` (`WellFormed`), `SerialQueue` and
`SerialFrame` (`EndsWellFormed`), which are proved too.

Why the bounds are enough. A wire is good or lossy, and what is lossy may lose
everything: a dead wire is one of its behaviours. A table of three slots holds a
probe pending, one lost and one answered at once, wraps, and is larger than every
threshold. Four ids with three slots let an id be used again as soon as it may, as
16 bits do. Two updates of the same kind go through the same states as one. In
`main_net` the gateway is what matters: its table has one slot in the code too, the
peer's may be as small because `host_detect` covers larger ones, and two hosts with
room for one make one of them go unrecorded. Three packets and buffers of two
overflow a buffer and leave a packet for a second switch. Seventeen
units with packets of two and five units (header included) put the end of the ring
anywhere in a packet, with and without padding, and nine packets wrap it; a long packet
behind short ones needs more than the two reads a push has there, at the wrap and in the
middle, which stands for the 30 of the code and packets of 60 to 1514 bytes. Two
frames are what it takes for one to disturb the next, and frames of five to seven
bytes let a third call of write begin at any wrong byte (section 6), so that the receiver
collects more than any packet and its checksum; the four bytes of
`SerialFrame` are the flag, the escape and what they turn into. Three rewrites let
one fall before, during and after an update. In `backnet_l3` the gateway can be
forgotten before, at and after a check of the peer, whose periods are 1 and 2, and the
time in which it is asked again is shorter than the age it is forgotten at, as in the
code. Six packets wrap the ring of `serial_queue` with and without padding while the
reader is anywhere in the packet before. In `supervisor` two pids let a second
instance run into the first; two faults meet in every pair, such as a hang and a restart
of the service, or a failed start and a jump of the clock; one command may be
a stop and a start; and a jump of two ticks sets both times back beyond their intervals.

Deadlock is checked except where a bound stops the model (`failover`, `packet_ring`,
`clear_queue`, `serial_frame`, `serial_queue`, `supervisor`) or the model may wait for the
line only (`serial_detect`).

## 4. Fairness

`host_detect`, `main_net`: the timer of the packet thread fires every second and
packets that arrive are handled, by one thread that never blocks: weak fairness of
the check and of both receptions. Only `Recovers` needs it. Nothing is assumed of the
wire but what the property says ("once it stays good"), and an answer on a good wire arrives before
the next check, a period of at least a second later.

`config_update`: timers keep coming, the scheduler starves no thread, and the
command thread finishes a request it has begun: weak fairness of the packet
thread, of the statistics thread and of the reset. No request is ever forced.

`backnet_l3`: as `host_detect`, but strong fairness of the check. Handling an ARP packet
and the timer are events of one thread, and a gateway that sends without pause could
keep either from being continuously possible in the model; in the program the
timer is served between any two packets.

`serial_queue`: both threads run, so weak fairness of each. The end of the error path
of the reader (`QueueReadCurrentPacket` gives up what the ring holds) is left out, since
`FindsHeader` shows that it is never entered. The semaphore wakes the
sender; the packet thread polls the other direction.

`supervisor`: the timer of the service fires each second, whoever holds the mutex goes on,
the program runs and signals, the clock ticks: weak fairness. The thread of the commands
waits for the mutex: strong fairness of `TakeLock`. A start attempt holds the mutex for
about four seconds, so it may be taken most of the time, but it is free again before the
timer is called anew. That who waits then gets it in the end is assumed of the mutex; what
`CommandsEnd` shows is that no holder keeps it for good. No command, fault or
restart of the service is ever forced; a restart of the machine that the service has
ordered happens.

The other runs check safety only and assume none.

## 5. Proofs

| Theorem | States | Inductive invariant |
|---|---|---|
| `HostDetectSafety` | `[](TypeOK /\ CountersAgree /\ MacKnown)` | these three with the bounds on the table each update may install; lemmas of `TestWindow_proofs` show that each operation keeps the counters exact |
| `ChannelMacKnown` | `[]MacKnown` | part of the above |
| `LossStaysFinal` | `LossIsFinal` (with the history of `MCHostDetect`) | the same invariant; lemmas of `TestWindow_proofs` show of each operation that no slot goes from lost to answered |
| `ReplyIsRight` | if no two configurations differ in the size of the table only, the answers asked for (`chkReply`) belong to the configuration in force: `[]ReplyFollowsTable` | inductive by itself; `BackNetEoL3_proofs` has the same theorem |
| `DeadChannelGivenUp` | `[]DetectsFailure` of `MCHostDetect`, given `[]ReplyFollowsTable` | `Silence`: the latest probes of the table, as many as the channel has been silent for checks, have no answer; an answer may be booked out of turn, but only in a slot that still waits |
| `RecoveryNeedsAnswers` | `FreshEvidence` of `MCHostDetect`, given `[]ReplyFollowsTable` | `Evidence`: the table holds at most as many answers as a failed one may, and those booked since |
| `RoutedSafety` | `[](TypeOK /\ GatewayFirst)` of `BackNetEoL3` | with `GatewayHeard`: a gateway in use has a MAC and is younger than its age limit, so that a peer that starts to be probed has one too |
| `DeadNetworkGivenUp` | `[]DetectsFailure` of `MCBackNetEoL3`, given `[]ReplyFollowsTable` | `Silence`, as for `DeadChannelGivenUp`, through every loss and return of the gateway |
| `MainNetSafety` | `[](TypeOK /\ GatewayFirst /\ MacKnown)` | inductive by itself: every request empties the only slot of the gateway, so an answer counted there came after the reset that forgot its MAC |
| `GatewayMacKnown` | `[]MacKnown` of `MainNetL2` | part of the above |
| `SpoofingUndone` | `[]SpoofUndone` (with the history of `MCMainNetL2`) | `SpoofKnown`: every spoofed host is in the ARP table or astray, whatever the state of the gateway |
| `GatewayLossDetected` | `[]DetectsGatewayLoss` | `SilenceKnown`: how long the gateway has been silent bounds what its one slot may hold |
| `FailoverSafety` | `[](TypeOK /\ OncePerNet)` | what a network has sent and what its buffer still holds are packets without repetition, the buffer's in increasing order, and disjoint: a packet goes either way, never both |
| `FailoverImplementsBest` | `Spec => ImplementsBest` | by cases of `NextStat`: the channel taken is the first usable one of the order |
| `SwitchLeavesNoGap` | `NoGap` (with the history of `MCFailover`) | `Remembered`: a buffer ends with the newest packets noted since the last switch, up to `Keep` of them, behind a head that may be marked as sent, but for those whose push gave up; no push gives up another of these |
| `RingIsWellFormed` | `[]WellFormed` of `CommonQueue` | `RingInv`: the packets not yet read lie somewhere in the ring, as its reader needs them, below |
| `FullIsNotEmpty` | `[]EmptyIffMeet` | the same |
| `RingImplementsBuffer` | `IsPeerBuffer`, whatever the limit of a push | `BufferInv`, below |
| `RingTypeOK` | `[]TypeOK` of `SerialQueue`; the error path is one of the places it admits | all four `SerialQueue` theorems rest on one invariant, below |
| `HeaderFound` | `[]FindsHeader` | where the reader is about to look, the packet is complete or there is padding |
| `DeliveryInOrder` | `[]DeliveredInOrder` | the units the reader has seen are those of the packet it is due |
| `SignalForEach` | `[]SignalPerPacket` | `Signalled`: signals posted and not waited for, by the place of each thread |
| `ConfigUpdateSafety` | `[](TypeOK /\ ModulesQuiet /\ ProgressHonest)` | the hand-shake (where both program counters may be for each value of `m_nTaskRun`) and which configuration is in force at each place of the packet thread |
| `ProgressIsHonest` | `[]ProgressHonest` | part of the above |
| `SerialSafety` | `[](TypeOK /\ DetectsSilence)` (with the history of `MCSerialDetect`) | `SilenceKnown`: an answer in the slot came since the last check, and after the first check the slot holds a probe |
| `SerialEvidence` | `FreshEvidence` of `MCSerialDetect` | `HeardEnough`: what a booked packet adds to the count of the period before it, or of the failure |
| `GoodLineFound` | `[]GoodLineIsUsed` | `CalmInv`: for how many ticks an end has been checking on a calm line, and what it must have reached by then; `OutOfPhase`: the two ends do not check in the same round, and never come to |
| `FramesWellFormed` | `[]EndsWellFormed` of `SerialFrame`, whatever write does | `SizeInv`, and while nothing strayed `FrameInv`, below |
| `FramingTransparent` | `[]Transparent` | the same |
| `SupervisorTypes` | `[]TypeOK` of `Supervisor` | with `Allowed`, below |
| `RunsWhatIsAllowed` | `[]RunIsAllowed`: what is stopped for good is never to run now | part of `Allowed` |
| `StoppedForGoodStaysOff` | `DisabledStaysOff` | `Allowed`: `RunIsAllowed`, the change in work was not refused, and who let the mutex go has none left |
| `HealthyIsSpared` | `SupervisionSpares` | `SeenSince`: a program that has not signalled was last seen active no longer ago, by the clock, than it signalled in fact; `RunnerHolds`: who runs holds the process mutex, so that there is one |

`CountersAgree` by itself is inductive only with the type of the table: a fill or an
update must install a table of the size the configuration says, or a later send
would write a slot that the counters never counted. `OncePerNet` is not inductive at
all: nothing in it says that a packet about to be flushed was not sent, hence the
disjointness. `ModulesQuiet` needs the flag: the statistics thread may be reading
as long as it has not answered. `DisabledStaysOff` speaks of one step, but that the
timer does not take it rests on the whole history of the two states, of which
`ForceStartTask` and `ForceStopTask` change one long after the other was looked at.

`DetectsFailure` and `FreshEvidence` hold only of thresholds that belong together, and
what the code does at `ts_module/TS_BackNet.cpp:545` (section 6) can break that. Hence
two steps: they follow from `ReplyFollowsTable`, and that follows from a hypothesis
on the configurations, `TablesDifferInRecover`, which every set of one configuration
and every set whose updates change both meet. `NoGap` turned out stronger than
`PacketQueue` once said: for a buffer that must keep more than one packet, nothing
said that the head a push marks is not one of those to keep. The code does keep it,
and `PacketQueue` now says so. A push that gives up at its limit keeps the others too, but
not its own packet: `NoGap` names these packets (`dropped`) and excepts no other.

A push reads packets away until the new one fits, a flush until none is left, each in one
step, and nothing is erased: what was read, its payload included, stays in the memory
until it is written over. So no unit can be judged by itself. `RingInv` says that there
is a sequence of places (`Lies`) along which the reader comes from header to header to
the writer (`Linked`), in order, either before it (`Flat`) or with one turn at a padding
(`Wrapped`). One read takes the first place away, a write appends one (`ReadLies`,
`SkipLies`, `WriteLies`); `ReadsLie` carries this through a loop of any length. The
induction over the reads takes the least number of reads after which the claim fails
(`LeastOf`, from the well-foundedness of `<`), because the induction rule of the library
cannot be instantiated by the provers used here. That a flush ends needs `FewPackets`: packets
lie at different places, none where the next is written. For `WellFormed` and `EmptyIffMeet`
nothing is assumed of the size, the lengths or the limit; a push may also give up.

That the ring is a `PeerBuffer` adds the lengths. `Content` lists the packets at the places
of `RingInv` (`ContentIs`), so a read takes the oldest away and a write appends one.
`BufferInv` adds `Sized`: a header has the length that was pushed or one unit less (the
tag), a padding stands only where the longest packet would not fit, and while a packet is
marked the ring holds as many as it must keep. Since packets lie behind one another (`Stretch`),
those between reader and writer, or up to the padding and from the start, take a known
part of the ring (`FlatTotal`, `WrappedTotal`). This bounds their number from both sides:
at most `RingCap` of two units or more (`RingHolds`), and more than `RingKeep` in a ring
that finds no room for the longest (`NoRoomKeeps`), so that every eviction the code makes
is one `PeerBuffer` allows. The limit may end a push before there is room: the packets it
read are gone, its own is dropped, and those left are again the newest of the old ones
(`IdsLeft`), at least `RingKeep` of them because there was no room before its last read.

The invariant of `SerialQueue` says where every packet lies (`Laid`: behind the last one
or back at the start, one lap later), where both threads stand among them (`WriterAt`,
`ReaderAt`), that the reader is less than a lap behind and the packets it has not read are
out of the way of the writer (`Apart`), that these are in the memory whole and with
padding where a lap ends (`Intact`), and what the counters count (`Counted`,
`Signalled`). `DeliveredInOrder` needs all of it: `FitsAtEnd` and `FitsBefore` look at
the read position once, long before the bytes are written, and only the laps tell
that the reader has not moved into what was found free. No assumption is made of the
size of the ring: where no packet fits, none is taken.

`FrameInv` keeps all bytes that write ever took (`S`), where those of each packet begin
(`Framed`), and how many the receiver has had (`Received`). The receiver then is between
two frames, inside one, or `Misled`: it took the flag at the end of a frame for one that
opens the next, which only happens after a write that failed, and the next flag sets it
right. What it has inside a frame is the beginning of the packet and its checksum
(`Reading`). That a frame has a flag at either end and nowhere else, and that each of its
bytes comes out again, is `FrameShape`, by induction over the bytes of the packet: the
frame is built by a recursive function, and the least number of bytes for which the
claim fails cannot exist. Nothing is assumed of the packets but that they are not empty,
and of the checksum that it is two bytes. `FrameInv` holds as long as no write strayed:
the third write starts at the wrong byte (section 6). What holds whatever write does is
`SizeInv`: a flag is the first or the last byte of a frame, so a stretch of the line
between two flags lies within the bytes of one frame, however often some of them were
sent, and the receiver, which empties its buffer at the first flag, collects fewer bytes than the
frame has. Both ends reserve 1600 bytes (`import/PacketIO/SerialDataSend.h:31`,
`SerialDataRecv.h:44`), so what fits the buffer of the sender fits that of the receiver; the
size itself is not modelled. After a failure what is delivered is a sequence of bytes, not always a packet that was
sent: pieces of two frames may fit their checksum.

Assumptions, all of them named `ASSUME`s that TLC evaluates: thresholds fit the
table and recovery tolerates less loss than failure (`ConfigsOK`, `MainConfigsOK`; the program does
not check this, and other configurations are outside what it is meant for, see
the comments in `TS_Config.h` and the default file: 5 probes, loss 3, recovery 0);
the table is smaller than the sequence space; a gateway is asked again before it is
forgotten; bounds are natural numbers; a buffer holds more than it must keep; what a ring
holds and keeps fits its size and the longest packet (`BufferOK`); the value that stands
for no MAC or no pid is none of the others. The theorems about
the ring need no relation between the limit of a push and the lengths of the packets.

Only model-checked:

- Liveness: `Recovers` (three times), `UpdateEnds`, `EverythingRead`, `CommandsEnd`,
  `KeepsRunning`, `StopsForGood`. Fairness is out of reach of the prover used here.

## 6. Where the code departs from what it says

Two are runs that find the disagreement:

| Run | Code | Departure |
|---|---|---|
| `clear_queue` | `CommonQueueManager.cpp:127` | a cleared ring keeps the mark of the packet last read, and its assertion at line 290 fails at the next read |
| `lost_apply` | `CConfigAndCtrlDoCmd.cpp:265` | a request to apply during an update is answered with success and dropped |

The others were met while modelling and are kept out of the runs, by a bound or an
exclusion that is named here:

- An update that changes only the size of the table keeps the old number of answers
  for recovery (`ts_module/TS_BackNet.cpp:545`). The configurations of `host_detect` change both.
- A failed write loses the packets after it too, not just its own
  (`SerialDataSend.cpp:130`): `Transparent` is about the time before the first failure.
- The third write of one frame starts at the wrong byte (`SerialDataSend.cpp:127`), and so
  does one behind a call that took nothing after a part. This is modelled: it is `strayed`
  of `SerialFrame`, which `serial_frame` reaches; `Transparent` excepts it by name, and
  `EndsWellFormed` covers it.
- A push gives up after 31 reads (`ts_module/TS_BackNetL2.cpp:117`). Where the ring wraps around,
  a long packet behind short ones may need more, the packets at the end of the buffer and
  then those at its start; it is then dropped, the newest of all. This is modelled: it is
  `GivesUp` of `PacketQueue`, which `IsPeerBuffer` allows, `packet_ring` and `failover`
  reach, and `NoGap` excepts by name.
- The peer keeps the MAC of a gateway that was replaced between two checks
  (`ts_module/TS_MainNetL2.cpp:385`: `StaleRoute` in `Recovers`; `ts_module/TS_BackNet.cpp:2150`:
  no property says that the two MACs of `BackNetEoL3` agree).
- A reset zeroes the MAC of the gateway at once (`ts_module/TS_MainNetL2.cpp:82`) while
  `f_ForwardIp` asks for no state: until the next check packets carry six zero bytes.
  `MacKnown` is about every other state of the gateway.
- A reset while the gateway is lost skips the correction of the hosts
  (`ts_module/TS_MainNetL2.cpp:82`), and a host that found the ARP table full is not in it
  (line 275): both are `stray` in `SpoofUndone`.
- The permanent state of any program but the first is never written to the file
  (`MonitorManage/MonitorTaskRW.cpp:123`): the field `saved` of an entry.

## 7. Not modelled

The main network in LAN mode, statistics, access management, mirror and cards are not
modelled: the first is the gateway and peer detection of `BackNetEoL3` once more, in a mode
that is not the default; the others keep no state that the rest depends on. The parsing of
configuration files, the reporting part of the management plane, packet capture,
decoding and the tools with a user interface are left out for good: they are sequential
conversions or input and output. The reasons are in `PROJECT.json`. Abstracted in the
modules that exist:

- Payload: a packet is a number, so the second removal of a VLAN tag when a packet
  is pushed to both networks (`TS_BackNetL3.cpp:124`) does not show.
- `reboot -p`: a change of mode, queue size or interface ends the program.
- The probe's own spoofed packets: if the interface delivers what it sends, they
  would change the gateway's MAC (`ts_module/TS_MainNetL2.cpp:258`).
- Serial lines as carriers: they buffer nothing, so what they send is not recorded.
- Several peers: the configuration reader accepts exactly one.
- Memory of other threads: the old configuration is deleted after the statistics thread
  was let go (`FluxControlObserver.cpp:681`); what that thread may still read of it is not
  part of `ConfigUpdate`.
- Short packets that the other end of a serial line forwards: they count as its heartbeats
  (`FluxControlObserver.cpp:1262`), but only heartbeats are input of `SerialDetect`.
- The pairs of states of the channel switch (`FluxControlObserver.cpp:1281` to 1441): `NextStat`
  of `Failover` is the one rule they follow, compared with them by hand.
- Two instants of the supervisor: an event that cannot be opened, which the code takes for an
  active program (`MonitorManage/MonitorTask.cpp:915`), and a program that starts while the
  service tries its mutex (line 876), which ends as after a failed start.
- Several programs under one supervisor: each waits while another is started or stopped,
  which only delays it. Power off is the restart of the machine without the restart.

## 8. Plan

Done:

1. `TestWindow`, `HostDetect`: detection of a back-up channel. Proved.
2. `Failover` over `PacketQueue`, implementing `BestChannel`. Proved.
3. `CommonQueue`, implementing `PeerBuffer`. Proved.
4. `ConfigUpdate`. Proved.
5. `SerialFrame`, `SerialDetect`. Proved.
6. `MainNetL2`: gateway and peer detection, the spoofed answers while the gateway is
   gone and the restoring ones when it is back. Proved.
7. `SerialQueue`: the ring of `CommonQueue` between the packet thread and the serial tasks.
   Proved.
8. `BackNetEoL3`: BackNet2 behind a gateway whose MAC ages. Proved.
9. `Supervisor`: a program, the service that watches it and the commands. Proved.

Left, in this order:

10. `Probe`: composition of `MainNetL2`, whose verdict replaces the input
    `"main" \in usable`, `ConfigUpdate` and `Failover`, for what stands still while
    an update runs or has failed (`FluxControlObserver.cpp:363`); configuration files read
    one by one.
11. `Statistics`: counters stay aligned with the filters over updates.
