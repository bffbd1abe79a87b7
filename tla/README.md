# A TLA+ model of the hybrid WiFi/LTE handover simulation

The repository simulates voice calls of a UE with two network interfaces, WiFi
and LTE, in OMNeT++. Its own logic is in `src/src/handover`: the handover
manager, a voice source, a voice receiver and an extension of both for session
continuity. The rest is network descriptions, scenarios, recorded results and
the INET and Simu5G models it links against. This project models the logic as
TLA+ modules, checks them with TLC on small instances and proves the main
results about the handover manager, the voice source, the voice receiver,
session continuity and the call they make up with TLAPS for all parameter values.

## Inventory

| Component | State | Operations | Talks to |
|---|---|---|---|
| Handover manager (`HandoverManager.cc`) | active and target interface, in-progress flag, timer pointers, two counters | `initialize`, measurement timer, handover timer, `finish` | calls the NICs for signal levels; sets interface states and routes of the UE |
| Voice source (`CustomVoipSender.cc`) | talk/silence, talkspurt and packet numbers, two timers | talk/silence timer, packet timer | sends UDP packets that the active default route carries |
| Voice receiver (`CustomVoipReceiver.cc`) | the current talkspurt and its packets, playout delay, a timer | packet arrival, timer, `finish` | gets the source's packets from the network |
| Session continuity (`VoIPWithHandover.cc`) | sequence numbers, send buffer, reorder buffer, detection timer | detection, retransmission, ACK, reordering | extends source and receiver |
| Dual-interface UE (`DualUe.ned`), networks, ini files | none of their own | none | wire the above together |
| Simulation kernel, INET, Simu5G | not in the repository | `scheduleAt`, `cancelEvent`, interface state, routing table | everything |

The modules run in one thread, one event at a time. What is hard is not data
races but the order of events: two timers falling on the same instant, a timer
racing an arrival, messages scheduled by one function and cancelled by another,
packets lost, doubled and reordered by the network, and state a later event
relies on.

What makes each component correct:

* *Handover manager*: one usable data path at any time, and the one
  `currentActiveInterface` names; handovers one at a time, each executed, none
  on an outdated decision; hysteresis: no ping-pong; counters that tell the truth.
* *Voice source*: voice is sent once, in order, in talkspurts a receiver can
  put together from the numbers in the packets; at the stop time it ends with the
  packet under way, which the NED file does not say (see the findings).
* *Voice receiver*: each talkspurt is evaluated once and in order, its losses add
  up to what was not played, no packet in time is given up.
* *Session continuity*: packets are played once and in order, none that could be
  played waits, a missing one is skipped only after a silence, and what was not
  acknowledged stays in the send buffer and is sent again; a handover is reported
  when there was one. The code keeps the first three and not the others.
* *A whole call*: the losses the receiver reports are those that happened, and it
  waits for every packet, whatever path it takes and whatever overtakes it.

`PROJECT.json` lists under "hazards" where each of these can go wrong, and
which property would show it.

## Modules

| Module | Models |
|---|---|
| `EventQueue` | the kernel's pending timers: remaining time of each, and insertion order, which decides between equal times. External; modelled from how the modules use it |
| `HandoverManager` | `HandoverManager.cc`; one action per event: `HandleMeasurementTimer`, `HandleHandoverTimer`, `Finish` |
| `HandoverProperties` | its properties, the conjunction `Safe`, and the refinement mapping |
| `HandoverHistory` | the manager with a history variable, the last decision, for the statement about ping-pong |
| `ActivePath` | the abstract specification: one path, switched one decision at a time |
| `CustomVoipSender` | `CustomVoipSender.cc`; actions `HandleSelfSource`, `HandleSelfSender` |
| `TalkspurtEvaluation` | the loop of `evaluateTalkspurt` as a pure fold over the packets |
| `CustomVoipReceiver` | `CustomVoipReceiver.cc` and a lossy, duplicating, delaying, reordering network; actions `Arrive`, `HandleTalkspurtFinished`, `Finish` |
| `VoIPSenderWithHandover` | the sender of `VoIPWithHandover.cc`: detection, numbered packets, send buffer, retransmission, ACKs, socket errors |
| `VoIPReceiverWithHandover` | its receiver: ACKs, reordering, duplicates, the skipping timeout |
| `SessionContinuity` | both of them over a network that loses, doubles, delays and reorders packets and ACKs |
| `HybridCall` | source, shipped detection, `ActivePath`, two paths of different delay, and receiver in one call |
| `EventQueueProofs`, `HandoverManagerProofs`, `HandoverHistoryProofs`, `CustomVoipSenderProofs`, `TalkspurtEvaluationProofs`, `CustomVoipReceiverProofs`, `SessionContinuityProofs`, `HybridCallProofs` | theorems and proofs |
| `MC*` | instances for TLC |

Operators called `...` with a suffix and introduced by a comment "Fault:" are
plausible bugs of the definition below them. They are never part of a
specification; each stands for a mutation that the property named beside it in
`PROJECT.json` must notice.

### Time

Time is an integer. The handover manager never looks at absolute time, so its
queue holds remaining times and its state space is finite without a bound on
time. A timer event and the code it runs are one step, as in the kernel. The
source, the receiver and session continuity put times into packets, so they keep
an absolute `now`; the source's runs are bounded by its stop time, the receiver's
by the finite call, those of `SessionContinuity` and `HybridCall` by
`SimTimeLimit`, as the scenarios are by `sim-time-limit`.

In the two compositions every component keeps a queue of its own, and time passes
in all of them by the same amount (`RunsOn`): no component can be late for a timer.
The kernel has one queue, and orders timers of the same instant by insertion;
across components the compositions leave that order open and allow more than the
kernel does.

### Handover manager

State and code correspond one to one; `fes` is the kernel's queue, `ifState`
and `routes` are the UE's interface states and IPv4 routes, which
`updateRouting` changes. Two variables only observe: `measured` (the values
emitted as statistics) and `announced` (the interface in the notification of
`updateRouting`). That `HandoverManager.cc:130` drops the pointer to a delivered
message without deleting it has no effect on the behaviour and is left out.

A measurement is one of the ways `getLteRsrp` and `getWifiRssi` can obtain a
level: an absent NIC, an unassociated station, a real value, a fallback. The
value of the path loss formulas is an arbitrary level. `initialize` starts from
an unspecified `targetActiveInterface`, which the code does not initialize. It
throws unless both interfaces exist, which is `InterfaceAssumption`.

INET reacts to `updateRouting`: an interface that goes down loses its routes
(`WithoutInterface`), and one that comes up gets those of the configurator back
(`TableWithUp`, `ConfiguredRoutes`), since `DualUe.ned` has a node configurator and
the networks a network configurator. Neither is in the repository; both are
modelled as external. `StaticRoutes` are the configurator's routes.

The decision is written as a case distinction on the two signals. The code's two
nested conditions and the priority rule after them come to the same; with both
signals good only the priorities count, which is why the enable flags do not
appear in that case.

### Voice source

`sent` is every packet handed to the socket, and a packet's time stamp is the
start of its voice. Durations are drawn from a set, as the `volatile`
parameters draw them from a distribution. A talkspurt that starts while the last
packet of the previous one is pending takes over its time slot (`Overlap`).
The number of packets may then be zero or negative, and is stored in an unsigned
field: `UInt`. The stop time ends the alternation of talkspurts and silences; a
pending packet is sent all the same.

### Voice receiver

`currentTalkspurt` is the variables `status`, `talkspurtID`,
`talkspurtNumPackets` and `packets`. The voice duration is the same in every
packet and hence a constant. `last` remembers the last evaluation with its
inputs and `ignored` the packet the last step ignored; both only observe.
The network delivers each packet of `Call` up to `MaxDelay` after it was sent, in
any order, twice for at most `MaxDuplicates` packets, or never. `Call` is what
the source sends, without talkspurts too short for one packet: on these the
receiver reads outside an array (see the findings). `CallAssumption` says so,
and with it `checkPacket` never fails, so its exception is not modelled. The
E-model formula that turns delay and losses into a MOS is left out.

### Session continuity

As shipped almost nothing of `VoIPWithHandover.cc` runs. No code sets
`isAppActive`; `CustomVoipSender::sendVoIPPacket` is not virtual, so the base
class's packet timer calls the base class's; `VoIPReceiverWithHandover` does not
override `handleMessage`, so nothing calls `processReceivedPacket` or
`handleHandoverTimeout`; and `sendVoIPPacket` reads parameters no NED file
declares. The code is clearly meant for a subclass that supplies these, and is
modelled twice:

* In `SessionContinuity` it is driven as such a subclass would: `Start` makes the
  sender active and sends its first packet, arriving packets and the expired
  timeout reach the receiver's handlers. All else, from the dispatch of
  `handleMessage` to buffers, is the code's. `uplink` and `downlink` are the sets of
  packets and ACKs in flight: any may be delivered next, stay behind as a copy
  (`MaxDuplicates`), or be lost. `log` is what was sent, and only observes. If the
  destination of the first packet cannot be resolved the sender ends there
  (`SendNothing`, `VoIPWithHandover.cc:141-149`).
* In `HybridCall` the sender's part is there as shipped (`Startable` is FALSE): one
  detection.

The subclass is assumed to declare the parameters the code reads and no NED file has:
`numPackets`, `sampleBits`, `transmitBitrate` of the sender, `destPort` of the receiver
(`VoIPWithHandover.cc:397`), without which the first packet would end in an exception;
and to dispatch `handoverTimeoutTimer`, which the base receiver would take for its own
timer (`CustomVoipReceiver.cc:108`). As shipped none of this is reached.

`packetBuffer` and `receivedPackets` are maps in the code and sets here, with
`TypeOK` saying that the numbers in `packetBuffer` are unique. `reorderAndPlayPackets`
is a loop; here it plays everything up to `FirstMissing` in one step, and `played`
collects what it hands to the base class. `packetsReordered`, `numSent`,
`lastAckedSequence`, jitter and the codec fields are written and never read, and
are left out. `handleSocketError` and `handleIndication` do the same.

### The composed call

`HybridCall` is a call from the UE to the server. Which path a packet takes is
decided by the default route at the moment it is sent. Instead of the handover
manager with its signals the module has `ActivePath`, a path that may switch at any
time; the manager is proved to implement it (theorem `Refinement`), so what
holds here holds with the manager's choices. Each path has a range of delays
(`MinDelay`, `MaxDelay`) and may lose any packet. In
`simulations/Hybrid/internetCloud.xml` each packet's delay is 2 ms +
truncnormal(10ms, 5ms), drawn anew for every packet and without an upper bound. A
model with unbounded delays cannot promise that a timer waits long enough, so
`CallAssumption` bounds them: any two delays, of one path or of two, differ by less
than the packetization interval and `mosSpareTime` together, 1.02 s with the defaults
and 200 standard deviations. It is a bound on the calls considered and
no claim about the distribution; `TimerWaitsForTheCall` rests on it. Packets may
overtake each other on one path as well as across a handover, and do in the instance.
`CallAssumption` also leaves out talkspurts too short for a packet.
`ComponentsAssumption` collects the assumptions of the components and adds that the
source's `int` can count the packets of a talkspurt. The receiver is
`CustomVoipReceiver` without its own network. A packet is not lost because its
interface goes down while it is in flight: `Send` may lose any packet, which
includes those.

## Runs

| Run | Instance | What it shows |
|---|---|---|
| `handover_wifi_preferred` | parameters of the NED file in ticks of 0.1 s (interval 10), but delay 25; levels on, between and around the thresholds; fairness | with measurements while a handover is pending: timers, pending target, data path and counters agree, each decision takes effect once (`ActivePath`), no two successive handovers without a swing, a lasting WiFi signal is used, constant signals end handovers |
| `handover_lte_preferred` | equal priorities (LTE wins), delay = interval, two wlan interfaces | handover and measurement at the same instant: the handover is first; the inductive invariant `HistSafe` |
| `sender` | interval 3, periods of 1 to 8 ticks, stop time 18 | no voice twice, numbering in order, only the last packet of a talkspurt cut, at most one packet of voice from after the stop time |
| `receiver` | talkspurts of 3 and 2 packets, silence shorter than the network's delay, buffer of one packet, 4-bit unsigned | losses add up, no needless loss, the timer waits long enough, adaptation suffices, each talkspurt evaluated once, in order, eventually |
| `session_continuity` | three packets at interval 1, buffer time 1, detection every 3, timeout 2, seven ticks; one copy, one socket error | playout in order, what stays repairable, no skip without silence |
| `hybrid_call` | talkspurts of 2 and 3 packets, silences 1 and 8, interval 3, WiFi 0-4 and LTE 2-5 ticks, 18 ticks | the receiver's assumptions hold, reported losses are real, the timer waits |

Findings, each a run TLC must find violated:

| Run | The code | What the repository says |
|---|---|---|
| `finding_enable_flags` | with `enableLteToWifi = false` and both signals good the priorities still switch to WiFi | `HandoverManager.ned:32` "Allow switching from LTE to WiFi" |
| `finding_packet_range` | a packet 0 of 0 packets is sent when the overlap eats up a talkspurt | `CustomVoipPacket.msg:21` "0..talkspurtNumPackets-1" |
| `finding_stop_time` | the last packet of a talkspurt leaves up to an interval after the stop time, packet 0 of an eaten-up one later still | `CustomVoipSender.ned:47` "time of end of sending" |
| `finding_detection` | `lastPacketSent` is never assigned as shipped, so the one detection that runs reports a handover in every call | `VoIPWithHandover.cc:230` "Handover detected" |
| `finding_ack_detection` | missing ACKs are not detected while packets are sent | `VoIPWithHandover.cc:242` "based on lack of ACKs" |
| `finding_second_gap` | the timeout is not scheduled again, packets above a second gap stay stuck | `VoIPWithHandover.cc:491` "continue with available ones" |

`finding_detection` shows the first sign of a wider divergence: the packet timer of
the base class calls its own, non-virtual `sendVoIPPacket` and nothing sets
`isAppActive`, so with `enableSessionContinuity = true`, the default, no packet is
ever numbered, "buffered for potential retransmission" (`VoIPWithHandover.cc:154`),
acknowledged or sent again. No property is stated about that: in `HybridCall` the
send buffer is empty because its `Next` has, as the program, no step that fills it.

Other divergences met while modelling, visible in the model and without a run of their own:

* Once driven, the repair is worth less than its comments say. The receiver
  acknowledges single packets by their number, out of order or not
  (`VoIPWithHandover.cc:422`), and the sender takes the ACK for all lower numbers
  (`:289`), so a gap below an acknowledged packet is forgotten ("Retransmit packets
  that haven't been acknowledged", `:249`). Detection looks for a pause in sending and
  therefore starts after the last packet, when the buffer holds only what was sent
  within `bufferTime`. `TailRepairable` states what remains: the recent packets above
  all that arrived stay in the buffer, unacknowledged.
* Those packets are sent again at every detection without a limit, since the attempt
  is counted in the copy (`:257`); "lost after max retransmissions" (`:272`) is not reached.
* The notification "Now using" (`HandoverManager.cc:316-318`) is written before
  `currentActiveInterface` is assigned and names the interface that is left (`announced`).
* The packet loss rate is emitted (`CustomVoipReceiver.cc:191`) before duplicates are
  added back, which the note at `:187-188` promises (`emittedLoss`); the MOS uses the
  corrected number.

### Bounds

* Signal levels: five per interface, one on each threshold (with either sign of
  the hysteresis), one just above or below, one between. The decision only
  compares, so other levels behave like one of these.
* `MaxInt = 1`: the counters have two bits, so they wrap in every run.
* The interval and delay matter only by their order: the delay is longer in one run,
  equal in the other, and shorter, as in the NED file, in the finding; the proofs
  cover every delay.
* Sender: talkspurts of less than one packet, exactly one, and several; silences
  shorter than, equal to and longer than the packet interval; the stop time lets
  about four periods happen, enough for an overlap of an overlap.
* Receiver: three packets are the fewest in which one is lost between two that
  arrive and a third is doubled; two talkspurts are the fewest that can overlap.
  With one place the buffer overflows and is freed again; the 4-bit width makes
  the unsigned difference wrap. The runs reach each of: tail drop, two late
  packets, a wrapped difference, a packet ignored after the timer, and one
  ignored though in time because a newer talkspurt overtook it.
* Session continuity: three packets are the fewest with a gap and a tail at once;
  the limit of seven ticks lets a detection after the last packet (3 or 6), a
  retransmission and a timeout happen after each other. Buffer time 1 makes the
  buffer drop a packet while sending. One copy doubles a packet or an ACK,
  one socket error comes before, during or after the call. A second gap needs four
  packets, which its finding has.
* Composed call: delays on WiFi spread by four ticks, more than the interval of three,
  so packets of one talkspurt overtake each other on one path; LTE is slower by up to
  five, more than lies between the last packet of a talkspurt and the first of the
  next, so that a talkspurt overtakes the one before, across a handover or without.
  All differences stay below interval and spare time (six). Within 18 ticks there are
  several talkspurts, evaluated by timer, by a newer talkspurt and by `finish()`.

`CHECK_DEADLOCK FALSE` is set because the modelled simulation ends: `finish()` or,
for the source, the stop time; in the compositions, `SimTimeLimit`.

### Fairness

`handover_wifi_preferred` assumes weak fairness of `EventLoop`: as long as the simulation
is not ended the kernel takes the next event from its queue. The abstract
`WF(Commit)` follows from it. `receiver` assumes weak fairness of the timer's
arrival for the same reason. Packets and `finish()` are not assumed to come.

## Running

In this directory, `tlc -config receiver.cfg MCReceiver` checks a run (module and
configuration of each are in `PROJECT.json`), and `tlapm HandoverManagerProofs.tla`
checks the proofs of a module. No run takes more than about a minute.

## Proofs

`EventQueueProofs` gives one lemma per queue operation: what it leaves pending,
with which remaining time and in which order.

`HandoverManagerProofs` proves `Spec => []Safe` for all values of the
constants that satisfy the assumptions in `HandoverManager`. `Safe` is
inductive. The properties checked by the runs are not inductive by
themselves; what they need from each other:

* `PendingTargetIsOther` needs `TimersConsistent`: a pending timer message
  means a decision was recorded, so the target is not the uninitialized one.
* `CountersMatchPath` needs `PendingTargetIsOther`: only then does every
  executed handover count.
* `DataPathFollowsActive` says exactly which routes there are, the configured ones and
  the default route of the active interface; this makes the deletion of the inactive
  interface's routes leave none but those configured when the other one comes up.
* `ExecutionUsesLatestMeasurement` needs `HandoverArrivesFirst`, which was added to
  make it inductive: a pending handover timer has no more time left than the
  measurement timer and, if equal, was inserted first.

From `Safe` follow the theorems for the single properties and `Refinement`, that
every step of the manager is a step or a stutter of `ActivePath`. The mapping
takes the path from the routing table, not from `currentActiveInterface`.

`HandoverHistoryProofs` extends the invariant by what the last decision says about
the signals it was taken on, and proves `NoPingPongWithoutSwing`, an action
property: two successive decisions lead in opposite directions, and in between the
deciding signal has moved by more than twice the hysteresis.

`CustomVoipSenderProofs` proves that the source sends no voice twice and numbers it
as it is spoken. Neither is inductive. `SentBefore` strengthens them: every packet
sent ends before now, bears a smaller number than the next, and ends before
the *voice* of the next one begins, which while the packet timer is pending is one
interval before it expires. The overlap of talkspurts is the delicate step: the new
one's first packet takes over the slot of the pending one, so its voice begins
exactly there.

What the numbers in the packets mean is a second invariant, `NumbersInv`, in four
parts: `SpurtInv` (the talkspurt being sent has all numbers so far, and the packet timer
says where the next one's voice begins), `RegularSpurts` (packets of one talkspurt agree
and lie multiples of the interval apart), `TalkInv` (all packets but the last leave
before the talk ends, so only the last can be cut) and `StopInv` (the same for the stop
time). They hold as long as the number of packets fits the `int` it is computed in:
the hypothesis `[]NumberFits` of `CutLosesOnePacket`, `NumbersWithinTalkspurt` and
`SendingEndsAfterStop`, without which C++ gives the conversion no meaning. It is not empty:
`IntHoldsNumber` derives it, by the invariant `OverlapInv` on how far talkspurts
overlap, from `PeriodsFit`: a talk and the silence after it last for a packet, and no
talk has more packets than an `int` can count. Periods below one packet time can pile
overlap on overlap. `LongTalkspurtsStayInRange` turns the finding on packet numbers
around: with talks of at least one packet and no stop time, `CustomVoipPacket.msg` is
right.

`TalkspurtEvaluationProofs` is about `evaluateTalkspurt` for every sequence of packets,
delay, buffer and width. The library's induction theorems take an operator and cannot
be used, but induction over a *set* of naturals can (`NaturalInduction`, from the
well-foundedness of `<`). With it the fold of the model is shown to be a loop
(`EvaluationIsLoop`), and the loop to have an invariant (`LoopInvariant`): the losses
and the packets played add up modulo the width, the lateness is at least that of each
packet so far, each timely packet was played or met a full buffer.
The sum is all there is: a duplicate of a late or dropped packet counts as late or
dropped again, and the channel loss is one too low in return.
`EvaluationAccountsForEveryPacket` and the lemma `NothingDoubled` (without
duplicates the channel loss is what is expected less what came) follow.

`CustomVoipReceiverProofs` proves, for every call and network the constants
describe and with or without an adaptive playout delay, that timer and talkspurt agree
(the assertions of `evaluateTalkspurt`), that the timer waits for every timely packet,
that packets stay inside the array of the evaluation, that talkspurts are evaluated
once and in order, that the losses of every evaluation add up and none is
needless, and that the adapted delay would have been long enough. The key of the
invariant is `Due`: the pending timer expires when the talkspurt's last packet is due
plus the spare time, computed from whatever packet came first. `FoundInv` ties the
last result and the delay to the evaluation, so that the previous module applies; that
the adapted delay is a number, which the timer needs, comes from there as well.

`SessionContinuityProofs` proves every property of the session continuity run, for
any number of packets, losses, copies and reorderings. `ContinuityInv` is the
inductive invariant; its parts, and what they are needed for:

* `SenderClock`: while the packet timer is pending it expires one send interval
  after the last packet. A detection needs two intervals of silence, so none can come
  before the last packet: `DetectionIsPauseInSending`, the finding on missing ACKs for
  every parameter value.
* `ReceiverClock`: the pending timeout expires `handoverTimeout` after the last
  arrival, so nothing is skipped earlier (`SilenceBeforeSkip`). That the branches for
  arriving packets skip nothing is the lemma `ReceiveStep`.
* `PlayedBelow` and `NothingPlayableWaits`: what was played lies below what is
  expected, which is not stored; both are needed for the order (`PlayoutInOrder`). The
  lemma `FirstMissingFound` counts: among one more candidates than stored packets one
  is missing, so the search of `reorderAndPlayPackets` ends.
* `NetworkInv`: `ackSequenceNumber` and every acknowledgement in flight are numbers the
  receiver got, and it forgets none; `BufferComplete`: every recent packet above
  `ackSequenceNumber` is in the buffer. Together they keep the tail repairable
  (`TailKept`, which assumes `EnableSessionContinuity`).

`HybridCallProofs` proves every safety property of the composed call, for any number
of paths, any delays that `CallAssumption` allows, and handovers and losses at any time.
It instantiates the theorems of source and evaluation (`VP`, `TE`) with the call's
variables; that the definitions `HybridCall` uses are those these theorems are about are
the lemmas called `...Names`. A source that waits for another component is covered by
the lemma `IdleSource` of its module. `CallInv` is inductive; its parts:

* `VoiceInv`: the invariants of the source; its periods meet `PeriodsFit` and
  `RoomForAPacket`, so the first packet of a talkspurt fixes the time of all others.
* `NetworkInv`: a packet in flight left when its voice had been spoken.
* `HeardInv`: the talkspurt being collected is one the source began.
* `WaitInv`: the receiver's deadline is later than the arrival of any packet of its
  talkspurt, in flight or yet to be sent, by any path the packet may take. It is
  established when a talkspurt begins (`EnoughTime`, which needs the assumption on
  pairs of paths) and gives `TimerWaitsForTheCall`.
* `DetectionQueue`: the detection is idle.

`AccountInv` says where the packets are: those of a talkspurt not yet evaluated are
lost, in flight or heard, and no packet is two of these. Counting them by their numbers
(`CountedByNumber`) gives `ReportedLossIsReal`. TLC confirmed `CallInv` and `AccountInv`
on the `hybrid_call` instance before they were proved.

`OneReportPerCall` turns the finding on detection into a rule: with a detection interval
longer than two send intervals (`VoIPWithHandover.ned:58-59` has 1 s and 20 ms) every
call reports exactly one handover.

Model-checked only: liveness (`SettlesOnWifi`, `NoPingPongOnConstantSignals`,
`EveryTalkspurtEvaluated` and the fairness part of `ActivePath`), which is beyond
the prover. Of the findings those on packet numbers, detection and missing ACKs have a theorem
that says how general they are.

## Not modelled

* The arithmetic of path loss and of the E-model; file logging; statistics
  other than those that are properties' subjects.
* Of session continuity: the subclass that would activate it; the play-out of
  `played` by the base receiver, which needs numbers of talkspurts that
  `createVoIPPacketWithSeq` does not set (`talkspurtNumPackets` stays 0).
* Two wlan interfaces with different signals, of which the manager measures one
  and switches the other (`DualUe.ned:91`): the two-wlan instance covers the switch.
* Topologies, scenarios, the generated packet class, results and binaries.

## Plan

Done: event queue; handover manager and its abstract specification; source, receiver
and the evaluation; session continuity, driven and as shipped; the composed call; and
the proofs of the safety properties of all of them. Left:

1. `HybridCall` with the handover manager itself in place of `ActivePath`: the counted
   handovers against packets played; today this is the refinement's word.
2. Per-interface signals with two wlan interfaces, where the one measured is not the
   one switched.
