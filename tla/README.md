# Verification of the satellite base station's data link

The repository is a fork of srsRAN turned into a satellite cell ("wx"): a base
station with its own MAC and scheduler, a small core network, and a management
program that drives instruments. This directory holds TLA+ models of its
protocol logic, TLC runs, and TLAPS proofs. They cover the part everything else
relies on, the layers between the MAC and the users of radio bearers:

* the acknowledged mode of radio link control (RLC AM), which turns a channel
  that loses PDUs into one that does not;
* its unacknowledged mode (RLC UM), which puts SDUs together and in order, and
  gives up what is late;
* PDCP above them, which numbers SDUs, ciphers them under a COUNT both ends must
  agree on, and keeps copies for a handover;
* the timers all of them use.

Paths below are relative to `src/`.

## 1. Inventory

| Component | State it keeps | Operations | Talks to |
|---|---|---|---|
| RLC AM transmitter (`lib/src/rlc/rlc_am_lte.cc`, `rlc_am_lte_tx`) | SDU queue, SDU under transmission, VT(A), VT(MS), VT(S), POLL_SN, PDUs not acknowledged, retransmission queue, SDUs not fully acknowledged, poll timer | `write_sdu`, `discard_sdu`, `read_pdu`, `handle_control_pdu`, `timer_expired`, `empty_queue`, `reestablish`, `stop` | PDCP (SDUs, delivery notices), MAC (PDUs), RRC (max retransmissions, protocol failure), its own receiver (status PDUs) |
| RLC AM receiver (same file, `rlc_am_lte_rx`) | VR(R), VR(MR), VR(X), VR(MS), VR(H), PDUs out of order, segments, SDU under reassembly, poll and status flags, reordering timer | `write_pdu`, `timer_expired`, `get_status_pdu`, `reestablish`, `stop` | MAC, PDCP (SDUs in order) |
| RLC UM (`lib/src/rlc/rlc_um_base.cc`, `rlc_um_lte.cc`) | SDU queue, SDU under transmission, VT(US); VR(UR), VR(UX), VR(UH), PDUs out of order, SDU under reassembly and the SN it reached, reordering timer | `write_sdu`, `read_pdu`, `write_pdu`, `timer_expired`, `reestablish`, `empty_queue`, `stop` | as AM, without status PDUs |
| RLC TM, NR UM and AM (`rlc_tm.cc`, `rlc_um_nr.cc`, `rlc_am_nr.cc`) | a queue; a reassembly window; nothing | as above | as above |
| RLC bearer table (`lib/src/rlc/rlc.cc`) | LCID -> entity | add, remove, suspend, resume, and the calls passed on | RRC, PDCP, MAC |
| PDCP (`lib/src/pdcp/`) | next SN and HFN of both directions, last SN submitted, first missing COUNT and those received above it, undelivered SDUs with their discard timers | `write_sdu`, `write_pdu`, `notify_delivery`, `notify_failure`, `discard_callback`, `send_status_report`, `handle_status_report_pdu`, `reestablish`, `get_bearer_state`, `set_bearer_state`, `get_buffered_pdus` | RLC, RRC, GTP-U or the core network |
| MAC and scheduler (`srsenb/src/stack/mac/wx_mac.cc`, `wx_sched.cc`) | channel tables, users, slot by slot results, HARQ | slot indication, uplink PDU, buffer reports | PHY, RLC, RRC |
| RRC (`srsenb/src/stack/rrc/`) | user contexts, procedures, radio bearers | messages, `max_retx_attempted`, timers | everything in the stack |
| Core network (`srscnw/src/`) | NAS mobility and session contexts, timers | NAS messages, tunnels | RRC, user plane |
| S1AP, NGAP, GTP-U, SDAP | connection and tunnel tables | messages | core network of upstream srsRAN |
| Timers (`lib/include/srsran/common/timers.h`) | tick, wheel of lists of running timers, free timers | allocate, `set`, `run`, `stop`, release, `step_all` | all, through callbacks |
| Threads and queues (`lib/include/srsran/common/`) | multiqueue, block queue, task scheduler, thread pool | push, pop | all |
| Management (`mng/src/`, `lib/src/server/`) | running processes, instrument connections | SCPI commands | processes, sockets |
| Upstream programs (`srsue/`, `srsepc/`), generated ASN.1, PHY, radio, logging | - | - | - |

What is hard:

* **Two threads per bearer.** The stack thread writes SDUs, handles status PDUs
  and runs timer callbacks; the MAC reads PDUs. `handle_control_pdu` releases the
  mutex between sequence numbers, and a timer is marked expired before its
  callback has the mutex. In UM the check that there is something to send and the
  building of the PDU are two critical sections.
* **Loss, repetition, reordering.** PDUs and status PDUs get lost; poll timers
  repeat what may have arrived; segments of one PDU come from different
  retransmissions.
* **Sequence numbers modulo 1024** compared relative to a moving base; PDCP's
  modulo 4096 compared as plain integers, with an HFN that must move with them.
* **State that changes hands**: in a handover or a re-establishment, PDCP's
  counters and its SDUs take different ways, and status reports follow.
* **Grants of any size**, which cut PDUs into segments and status PDUs short.
* **Timeouts**: reordering, poll retransmission, status prohibit, discard; all from
  one wheel, whose lists callbacks and other threads change while it is walked.
* **Promises that take long**: everything accepted is delivered in the end.

What makes each part correct: an AM receiver delivers in order and its status PDUs
are true; an AM transmitter keeps what is not acknowledged, and tells PDCP once
and truthfully; together they deliver every SDU once, in order, in the end. A UM
bearer never puts parts of different SDUs together, loses none while nothing is
missing, and lets no PDU wait for ever. PDCP deciphers every PDU with the COUNT it
was ciphered with, delivers once and in order across a handover, and keeps no copy
for ever. A timer that runs expires at its tick, and one that was stopped does not.
The scheduler must not give a slot twice; NAS procedures must not outlive
their timers (section 8). `PROJECT.json` lists the hazards with their lines.

## 2. Modules

| Module | Models |
|---|---|
| `RlcAmCommon` | sequence numbers, `rlc_am_is_valid_status_pdu` |
| `RlcAmRx` | `rlc_am_lte_rx`, and `build_status_pdu` |
| `RlcAmTx` | `rlc_am_lte_tx` |
| `RlcAmService` | abstract: what an AM bearer promises PDCP |
| `RlcAmLink` | transmitter and peer receiver over a lossy link; implements `RlcAmService` |
| `RlcUmTx` | `rlc_um_base_tx`, `rlc_um_lte_tx` |
| `RlcUmRx` | `rlc_um_lte_rx` |
| `RlcUmService` | abstract: SDUs may be missing, but come whole, once and in order |
| `RlcUmLink` | both halves of a UM bearer over a lossy link; implements `RlcUmService` |
| `PdcpTx`, `PdcpRx` | the two directions of `pdcp_entity_lte` |
| `PdcpLink` | two PDCP entities over RLC's service, with RRC and GTP-U moving state and SDUs; implements `RlcUmService` for the users of PDCP |
| `Timers` | `timer_handler` and its `unique_timer`s |
| `MCRlcAmRx`, `MCRlcAmTx`, `MCRlcAmLink`, `MCRlcUmLink`, `MCPdcpLink`, `MCTimers` | small instances for TLC |
| `RlcAmCommonProofs` | arithmetic of sequence numbers, for the proofs about AM |
| `RlcAmRxProofs` | TLAPS proofs about `RlcAmRx` |
| `RlcAmTxProofs` | TLAPS proofs about `RlcAmTx` |
| `RlcAmLinkProofs` | TLAPS proofs about `RlcAmLink` |
| `TimersProofs` | TLAPS proofs about `Timers` |
| `RlcUmProofs` | TLAPS proofs about `RlcUmLink` |
| `PdcpProofs` | TLAPS proofs about `PdcpLink` |
| `PdcpCountProofs` | TLAPS proofs that both ends of `PdcpLink` agree on COUNTs, and that it implements `RlcUmService` |

Variables have the names of the members they stand for. An action is one
critical section of the entity's mutex.

**Payload of AM.** A PDU's payload is a sequence of cells `[s, k, e]`: the k-th run of
bytes of SDU s, e if the SDU ends there. The length fields (LI) and framing
info (FI) of the headers say where SDUs end; in the models that knowledge is in
the cells, so packing, re-packing for a segment (`build_segment`) and rebuilding
in the receiver (`add_segment_and_check`) are the same cut of a sequence. A
grant is a number of cells, or for a status PDU the number of NACKs that fit.

**AM receiver.** `WritePdu` is `handle_data_pdu` with `reassemble_rx_sdus` and the
timer update at its end. The three loops `while (has_sn(x)) x++` are `StopsAt`,
the SN where such a loop stops. `WriteOldSegment`, `WriteFirstSegment` and
`WriteNextSegment` are the three branches of `handle_data_pdu_segment`;
`Pruned`, `IsComplete` and `Concatenated` are the scan, the completeness test
and the copy of `add_segment_and_check`. `StatusPdus(k)` is what
`get_status_pdu` writes into a grant, and `StatusDoesNotFit` the grant below two
bytes, which forgets the request and sends nothing.

**AM transmitter.** `read_pdu` starts with work on the retransmission queue
(`Reschedules`, `ReadyRetxQueue`, `ReadyWindow`), then retransmits (`ReadRetx`),
or sends new data (`ReadData`), or returns nothing (`ReadNothing`), in each case
with the effects of what came before. `build_data_pdu` fills a PDU from the rest of
`tx_sdu` and the places of the queue: `Part(i)` is what the i-th of them has left,
`Before[i]` the cells that come before it, `Taken` what of it fits. `handle_control_pdu` is `ControlStart`,
then one `ControlNack` or `ControlAck` per SN, then `ControlDone`; the MAC reads
in between. The poll timer's expiry (`PollRetxExpires`, `timers.h`) and its
callback are separate steps for the same reason. `stack` says what the stack
thread is in the middle of; as it is one thread, its other operations wait.
The variables `written`, `accepted`, `notified` and `rrc_events` record what the
entity was given and what it has told others.

**AM link.** The MAC's part is taken from how `wx_mac.cc` reads PDUs and hands over
received ones; the air in between (loss, HARQ processes that overtake each
other) is external. Only PDUs with a good checksum arrive, and none is
duplicated by the link: repetitions come from the transmitter.

**UM.** Here the header matters, as the receiver decides from it what belongs
together: a PDU is its SN, its `parts` (each but the last has an LI field and ends
its SDU), and the two bits of FI (`start`, `end`). `ReadPduStart` is
`rlc_um_base_tx::build_data_pdu`, which releases the mutex before `BuildPdu(n)`
(the subclass, with room for n cells) takes it; `Parts`, `CellsOf` and `Left` are
what its loop over the queue fills in. In the receiver, `LowerEdgePdu` and
`InSequencePdu` are one round of the two loops of `reassemble_rx_sdus`, with their
different treatment of a missing start; `Repeat` runs them; `GiveUp` is the loop
of `timer_expired`. The record `[ur, win, sdu, last, lost, out]` is the state they
work on. `RxReestablish` lets a running timer expire first and then resets, as
the code does, without stopping the timer that expiry may have started.

**PDCP.** `COUNT` is HFN and SN put together, ciphering is modelled by the COUNT it
uses: a PDU carries `tx_count`, and what is delivered has the COUNT the receiver
took it for. An SRB's integrity check fails if they differ. `undelivered_sdus` is
the queue of that name with `fms`; `CanStore` is the tests of `store_sdu` and
`add_sdu`. `RxCount` is the four cases of `handle_am_drb_pdu`, `UpdateRxCounts`
is `update_rx_counts_queue`. Status reports are made (`StatusReport`) and read
(`AckedSns`) as the code does, including bits that are not read.
RLC below is what `RlcAmService` and `RlcUmService` promise: a queue, of which SDUs
can be discarded before they are started, PDUs under way in order, notices of
delivery and of failure. RRC's part: `ReestablishBoth` for SRBs and UM,
`ReplaceReceiver`, `ReestablishSender` and `HandOverSender` for AM, where a new entity
takes the counters over (`set_bearer_state`); in a handover GTP-U forwards the SDUs
of `get_buffered_pdus` in the order of their SNs (`WriteForwarded`).
`pdcp_accepted`, `pdcp_delivered` and `pdcp_refused` are history variables.

**Timers.** `time_wheel` has a list of running timers per position. `StartRun` is
`start_run_`, which moves a timer only if its position changes; `StopTimer` is
`stop_timer_`, which leaves the old timeout in the state. `step_all` is `StepStart`,
then `StepPasses` or `StepExpires` for each element, and `StepEnd`, which moves
the clock; `step.it` is its iterator, advanced before the timer is looked at
and kept while `StepExpires` has released the mutex and calls back. Until
`CallbackReturns`, every operation may be used, as by the callback or by another
thread. `defer_callback` is an `Allocate`, a `Set` and a `Run`, with a `Release` in
the callback.

Initial states are those of a bearer that has carried `s` PDUs and gone quiet,
`s \in Starts`; starting at 2W - 1 makes every run go through the wrap-around.
Counters are capped where larger values make no difference: `pdu_without_poll`
just past its threshold, `retx_count` at its threshold.

## 3. Runs

| Run | Result | Shows |
|---|---|---|
| `rx` | pass | order of the state variables, reordering timer, truth of status PDUs, gaps watched |
| `tx` | pass | window, SDU and PDU records agree, notices at most once, retransmission ranges (for NACKs of parts within the PDU), with the MAC between all critical sections |
| `link_wrap` | pass | refinement of `RlcAmService` up to empty SDUs, true notices, agreement of the windows; full windows, wrap-around, two losses, small grants, discarded SDUs |
| `link_seg` | pass | refinement of `RlcAmService` and the same, with segments, overtaking and polling by count |
| `link_live` | pass | eventual delivery with one loss |
| `um` | pass | refinement of `RlcUmService`, no SDU missing while nothing is, every waiting PDU timed and released in the end; loss, overtaking, wrap-around, re-establishment |
| `pdcp` | pass | COUNTs agree, only duplicates refused, delivery once and in order, soundness of the undelivered queue and of the COUNTs received, no copy for ever; all kinds of bearers, wrap-around, handover, re-establishment |
| `timers` | pass | wheel, counters and free list agree, no running timer is forgotten, only one that was running calls back; ticks that wrap, several turns of the wheel, operations during a callback |
| `tx_window`, `link_loss`, `pdcp_span`, `timers_stop` | violation | section 4 |

Bounds of the AM runs. W is 2, 3 or 4 instead of 512 and MOD is 2W, as in the
code. W = 2 is the smallest with a gap and a PDU above it; 3 allows two gaps and a
window whose middle is acknowledged; 4 keeps late copies from meeting reused
sequence numbers. In the code a PDU would have to be overtaken by hundreds of
others for that, so overtaking (`MaxOvertaken`) is in `link_seg` only, where the
sequence numbers in use are few. `MaxDelivered` ends the arrival of PDUs,
`MaxInFlight` limits what the MACs hold, `MaxLoss` the losses. Two SDUs, one of two
cells, are enough for a PDU with two SDUs and an SDU in two PDUs; three one-cell
SDUs fill a window of two and reuse none of its SNs too early; one SDU of three
cells gives two PDUs of which one can be re-segmented. Polling by count (`PollPdu`)
is on in `link_seg`, elsewhere `PollPeriodicity` decides; status prohibit is on in
`rx` and `link_live`.

The runs `tx`, `link_wrap` and `link_seg` use a specification that stops where
VT(S) would pass VT(MS) or the retransmission queue would overflow
(`TxBoundedSpec`, `LinkBoundedSpec`): both can happen (section 4), and beyond
either point sequence numbers or queue entries lose their meaning.
`link_live` needs no such restriction.

Bounds of `um`. W = 4, starts at 0 and at 7, the SN before the wrap; three SDUs of
two cells each, so that a PDU holds parts of two and an SDU needs several PDUs;
two losses, each PDU overtaken by at most one, one re-establishment. As long as
fewer than W PDUs are missing between two that arrive, a window of 4 behaves like
one of 512; were there more, SNs could no longer tell old from new, in the code as
well as here. `MacReadsOn` is FALSE: the MAC is not inside `read_pdu` during a
re-establishment. With TRUE an empty PDU comes out as an SDU of no bytes
and `UmServiceImplemented` fails (section 4). A running reordering timer expires:
RRC configures 480 ms or more, and the wheel makes at least one tick of any
duration that is set.

Bounds of `pdcp`. Four SNs (H = 2) instead of 4096, the first COUNT 3, so that five
SDUs go past a wrap; one replacement of an entity (`MaxMoves`). What keeps four SNs
enough are two bounds that say what 2048 SNs say in the code. `MaxDrops` = 1: fewer
than H PDUs are dropped for good, in the whole behaviour, although only a row of them
can mislead the receiver; with 2 a receiver takes a new SN for
an old one, and `OnlyDuplicatesRefused` fails. `MaxSpan` = H: the base station does
not go one SN beyond half of the SN space, where `CountsAgree` fails
(`pdcp_span`). `SplitMoves` is FALSE: no handover while the SDUs to be forwarded
straddle the wrap, where `CountsAgree` fails too.

Bounds of `timers`. Three timers, so that a callback of the first finds a next and one
after it in the list; two wheel positions, and durations of one tick (0 becomes
1) and of three, more than a turn of the wheel; ticks modulo three turns, where
the code's wrap at 2^32. `Careless` is FALSE, which keeps callers to two rules the
code does not state: during a callback nobody touches the timer that `step_all` looks
at next (`MayTouch`), and a timer is run with at least one tick, during a callback
two (`LongEnough`). Without the first, `OnlyExpiredCalled` fails (`timers_stop`), and
`NoneOverdue` as well: the iterator follows a timer that is run again into another
list, and the rest of its own is not looked at. Without the second, `NoneOverdue`
fails: the clock moves only when all callbacks have returned, so that a timer of
one tick is put into the list that has just been walked, or under a tick that
has passed, and waits for 2^32 ticks.

Deadlock is checked except in `link_wrap`, whose bound on deliveries can be used
up by empty PDUs, in `um` and `pdcp`, where all SDUs may be gone and nothing is
left to do, and in most runs that end in a violation. Expression coverage shows every
branch of every action taken in one of the passing runs, but for one: the
integrity check of an SRB fails only if COUNTs differ, and they do not.

Fairness of AM (`LinkFairness`). Weak fairness for the MAC's reading at full grant,
for the delivery of the oldest PDU, for the reading of status PDUs and for timers and
callbacks: the MAC runs every slot and `step_all` every TTI. Strong fairness for
handing over a status PDU: between two timer callbacks the stack thread returns
to its queues, so a status PDU waits for its turn but not for ever. Losses are
not forced and bounded by `MaxLoss`.

Fairness of UM (`UmLinkFairness`) is the same for reading, delivery and the timer,
and a re-establishment comes to its end. PDCP (`PdcpLinkFairness`) needs RLC to go on
sending, discard timers to expire and GTP-U to go on writing what is forwarded;
nothing is assumed of notifications and status reports, so `NoneLingers` rests on
the timers alone.

Each property of a passing run has a mutant of the code (`PROJECT.json`): an
operator next to the original, named `...Mutant`, under which the property fails.

## 4. Disagreements between the code and what it says

1. `tx_window`: "do not build any more PDU if window is already full"
   (`rlc_am_lte.cc:1374`), but the test counts PDUs, and is skipped for the rest
   of an SDU; VT(S) passes VT(MS).
2. `link_loss`: "Only AM will guarantee to deliver SDUs" (`rlc_stress_test.cc:356`),
   but the last retransmission carries no poll, as `poll_required` sees it still
   queued; if it is lost, nothing more happens.
3. `pdcp_span`: "Make sure we don't associate more than half of the PDCP SN space"
   (`pdcp_entity_lte.cc:1094`), but one more is let through. If the first of them
   arrived without being acknowledged and is sent again in a handover, the receiver
   takes it for the SN of the next HFN.
4. `timers_stop`: "calling stop() early, forbids the timer from getting expired"
   (`timer_test.cc:126`), and `stop` "does not call callback" (`timers.h:146`), but
   `step_all` goes on to the timer it had next in its list, whose timeout is
   still the present tick, and calls it back although a callback just before has
   stopped it. `rrc_ue.cc` stops its other radio link failure timers, which can
   be due at the same tick, from such a callback.

Behaviour worth knowing that contradicts no comment or test, or that a property
allows for:

* A queue of discarded SDUs only gives an empty PDU (`rlc_am_lte.cc:1590` logs it),
  and the peer's PDCP an empty SDU; `NonEmptyServiceImplemented` looks past them.
* The report for a poll out of order (`rlc_am_test.cc:348`) is dropped when the gap
  closes before the timer expires; the peer polls again.
* With a whole window missing, ACK_SN of a status PDU is also its first NACK
  (`rlc_am_lte.cc:2995` tries to rule this out); the transmitter drops it.
* With the window full, a late copy of the PDU of VT(A) that is overtaken by the one a
  window further is taken for a new PDU, as the receiver has only the window to tell
  them apart (`rlc_am_lte.cc:2103`). Nothing in the code rules this out but that HARQ
  delays a PDU by far less than a window; the theorems about the link assume `Slack`.
* UM drops, at the lower edge of its window, a whole PDU whose first part continues a
  lost SDU, complete SDUs in it included.
* UM's reading and re-establishing overlap without a common critical section.
* The poll timer queues VT(A) for retransmission again and again while segments of it
  are being read; the ring of the queue (`rlc_am_lte.h:309`) can be overrun, which
  `RetxQueueFits` keeps out of the runs.
* RRC's re-establishment takes over the counters of a PDCP entity and not its
  undelivered SDUs (`rrc_ue.cc:2712`), as `ReestablishSender` has it, although they are
  kept "for reestablishment, where unack'ed PDUs will be re-transmitted"
  (`pdcp_entity_lte.cc:333`).
* A `unique_timer` that is assigned to forgets the timer it held, which stays
  allocated and, if it runs, calls back (`timers.h:182`).
* Status reports are read from SN 0 up to FMS and one bit in eight is skipped
  (`pdcp_entity_lte.cc:1043`); `set_bearer_state` sets FMC one too low, and a turn too
  high if the next SN is 0 (`:1267`).
* Bearers set up with `s_configure` keep their configuration in `cofg`, while most
  of the entity reads `cfg`: the discard timer set there is never started (`:1124`).

## 5. Proofs

TLAPS checks the following for every value of the constants that satisfies the
assumptions; TLC checks the same invariants in the runs, and evaluates the
assumptions. Each proof is an induction over the steps of the specification, with an
inductive invariant that says more than the properties it shows. None of the properties
is inductive alone.

**AM receiver** (`RlcAmRxProofs`): `TypeCorrect`, `OrderHolds`,
`ReorderingHolds`, `StatusHolds`, `GapHolds`, that is `RxTypeOK`, `VrOrder`,
`ReorderingSound`, `StatusSound` and `GapHasTimer` for every window size W > 1, every
set of payloads and segments and every start. From `WindowAssumption` (W > 1; MOD = 2W
by definition), `StartsAssumption` and `RxAssumption` (poll bits are Boolean, segment
offsets natural numbers).

The inductive invariant `RxInv` is the conjunction of the first three.
`timer_expired` copies VR(X) into VR(MS), so that VR(MS) <=
VR(H) needs `ReorderingSound`; that in turn compares VR(X) with VR(H) relative
to a VR(R) that moves, and needs `VrOrder` to know that VR(R) stops at VR(H) at
the latest. The steps: offsets from VR(R) are at most W, so they compare as
integers; when VR(R) goes up by n, offsets of what it has not passed go down by
n (`Shift`); a loop over the window stops at VR(H) at the latest, as VR(H) is not
in it (`StopsBelow`); in `HandlePreserves`, a timer that goes on running has VR(X)
inside the new window or at its upper edge, so VR(R) has not overtaken it.
`StatusSound` follows from `RxInv` without a further induction (`StatusOfInv`).

`GapHasTimer` is not inductive over `RxInv`: completing a PDU takes its segments
out, and they might have been what the gap without a timer was waiting for.
`GapInv` adds that the segments it waits for belong to an SN the window does not
hold. If the PDU completed is new, `handle_data_pdu` starts the timer
(`HandleCloses`); if the window holds it, the waiting one is another, and stays.
That a list with a further segment is not empty (`PrunedNotEmpty`) rests on the
lowest offset, which no other segment can cover (`LowestOf`, from the library's
well-foundedness of the natural numbers).

**AM transmitter** (`RlcAmTxProofs`): `TxTypeCorrect`, `TxWindowAlwaysSound`,
`RetxAlwaysInPdu`, `UndeliveredAlwaysSound`, `NotifiedAlwaysOnce`, for every window
size, number and length of SDUs, grant and order of steps, and for every status PDU whose
NACKs of a part ask for one within the PDU (`NackedParts`, section 7), from
`WindowAssumption`, `StartsAssumption` and `TxAssumption`. They are theorems of
`TxBoundedSpec`, the specification the run uses; of its two restrictions (section 3) the
proofs need only that VT(S) stays in the window, and only for the step that moves it.
The inductive invariant `TxInv` adds to the types:

* `EdgesOK`: what `handle_control_pdu` remembers between two critical sections (its
  copy of VT(S), the SN it has come to, whether VT(A) still moves) lies between
  VT(A) and VT(S). Without it an acknowledgement might remove what the MAC has sent
  since.
* `RetxInv`: an entry of the retransmission queue behind a live one lies less than a
  window from it. `RetxInPdu` speaks of live entries only, and an outdated entry comes
  to life again when a new PDU takes its SN; that cannot be while it is queued behind
  a PDU of the window, and one with no live entry before it is dropped by the next
  read.
* `SduInv`: an SDU in PDCP's queue has never been sent and PDCP has not been told of it;
  the SDU under transmission is in the list of undelivered ones and not completely
  sent; the PDUs that list names and those of the window that carry it are the same. So
  an acknowledgement that completes an SDU is the last one.

How a PDU is filled from the queue is a matter of sums (`Before`, `Taken`,
`LastTaken`). That the sums exist and grow, and that each cell of a PDU lies in one
part, is shown by looking at a least counterexample (`SumsExist` and those after it),
which the prover can do where induction over data is out of its reach.

`PartOf`, the invariant's view of a queued part of a PDU, says that the part is not empty
unless the PDU is; the link's proofs need it.

**AM link** (`RlcAmLinkProofs`): `WindowsAgreeHolds`, `NoProtocolFailureHolds` and
`NotifiedReceivedHolds` are theorems of `LinkBoundedSpec`, the specification of the runs, for every window size, any
number of SDUs, losses, PDUs and status PDUs under way, grants, resegmentations and
orders of steps, under the hypothesis `Slack` (VT(S) - VT(A) + `MaxOvertaken` <= W):
there is room above VT(S) for as many PDUs as may overtake another. Without it they
are false: with W = 2 and one PDU overtaking, TLC finds the late copy of section 4. When
none overtakes, as in every run but `link_seg`, that is only that VT(S) stays in
the window, so `InOrderHolds` has no such hypothesis; in `link_seg`, with W = 4 and one
overtaking, no behaviour comes near the bound.

`LinkInv` is the invariants of both halves and `Link`, which is about PDUs and edges
of the windows as they would be numbered without wrap (`lo`, `mid` and `hi` for VT(A), VR(R)
and VT(S)), the set of those received and the payload of each:

* `Sent`, `Held`: what either window holds under an SN is the payload, or for segments a
  part of the payload, of the one PDU that the SN means there.
* `Channel`: each PDU under way was sent within a window of its own number, and of those
  sent after it no more have been received than have overtaken it. So it is less
  than a window behind VR(R) when it arrives (`NotTooLate`), and the receiver takes it for
  what it is, a duplicate or the PDU it lacks (`Arrival`).
* `Reports`: a status PDU acknowledges only what has been received, and
  says nothing below VR(R) as it was when built. Status PDUs arrive in the order they
  were built, and of what one reports as missing each earlier one that reaches as far has done
  so too (`Missed`).
* `Applying`: `handle_control_pdu` applies a status PDU in rounds while the MAC reads
  and sends; VT(A) moves with the loop until it meets the first NACK and stays there.

`NoProtocolFailure` is where all of them meet: the loop starts at VT(A), and the PDU
there must still be in the window, although reports before this one have taken others out.
A report can be older than the window only as far as what was VR(R) then, which the
reports before it have not acknowledged either (`Missed`).

`NotifiedReceived` joins both ends once more. At the receiver, no cell of a PDU received is
ever lost (`Kept`): `reassemble_rx_sdus` cuts what it has at the ends of SDUs, and
each cell is in a piece that is delivered or in what is left over, for each PDU that VR(R)
passes (`PiecesHold`, `ReassembleKeeps`). At the transmitter, every cell of an SDU under way has been received, is in a
PDU of the window, or has not been sent (`HeldBack`); a PDU leaves the window only when
it is acknowledged, and then it is one that the receiver has (`AckedReceived`). With
`TxInv`, an SDU that waits for no PDU any more and has been sent completely has been
received (`TellAcked`). `NotifyInv` says both for SDUs under way and for those PDCP is told of.

**Timers** (`TimersProofs`): `TimersTypeCorrect` and `WheelAlwaysSound` for any finite
set of timers, any size of the wheel and of the clock and any durations, whatever
callers do; `NoTimerForgotten` and `NoneCalledAfterStop` under ~`Careless`, the two
rules of section 3, without which they are false. `TimersInv` is the conjunction of the
types and of what `WheelSound` says, with "once in the list" in a form that a push and
a pop preserve. `CarefulInv` adds `ScanOK`: every timer of the list
that is due now and has not been looked at stands at the iterator or behind it. From
that, `StepEnd` leaves nobody overdue. A timer in the same list for a later turn of the
wheel is told apart by `NoneOverdue` itself, as no duration is longer than the clock.

**UM** (`RlcUmProofs`): `UmTypeCorrect` and `WaitingAlwaysTimed` for every window size, every
number and length of SDUs, and any grants, losses, overtaking and re-establishments,
with the MAC inside `read_pdu` during them or not (`MacReadsOn`), from `UmTxAssumption`.
The invariant `UmInv` measures SNs from the lower edge of the reordering window, as
RX_MOD_BASE does. It says that VR(UR) is not above VR(UH), that PDUs wait above VR(UR)
and below VR(UH), that the timer runs if one waits, and that a running timer was
started for an SN above the lower edge and not above VR(UH). The last part keeps
`timer_expired` from taking VR(UR) past VR(UH), and is the hard one: everything counts
as inside of an empty window, so `ReorderingDone` may leave the timer running for a
VR(UX) that a PDU beyond the window has pushed down. It has gone down by one SN only:
nothing is left waiting only if that PDU was the next one (`WriteBeyond`). The loops are
treated round by round: a round of either loop of
`reassemble_rx_sdus` moves VR(UR) by one SN and takes out the PDU there, whatever it
makes of its parts (`LowerAdvances`, `SequenceAdvances`), and as many rounds as there are
SNs are enough for each loop to end by itself (`LowerLoop`, `SequenceLoop`).

**PDCP** (`PdcpProofs`): `PdcpTypeCorrect`, `FmsAlwaysFirst`, `RxCountsAlwaysSound` for
every size of the SN space and all bounds, with `SplitMoves`, spans beyond half of the
SNs and any number of drops included. For `FmsIsFirst` the queue of undelivered SDUs must
be known to span at most half of the SNs (`QueueOK`), so that "first" means the same
before and after; `update_fms` then finds the first SDU left (`FmsFound`). For
`RxCountsSound`, COUNTs received must be below the next one expected (`RxInv`), which
needs that the next SN follows the last one submitted on AM bearers; division by the
number of SNs is handled by lemmas (`DivMod`, `ModUnique`).

`PdcpCountProofs` has `CountsAlwaysAgree`, `OnlyDuplicatesAlwaysRefused` and the
refinement `PdcpImplementsService`, for every size of the SN space, bearer and start,
and any number of SDUs, PDUs under way and moves. They have `Bounded` as a hypothesis:
* `MaxDrops` < H. The receiver sees SNs only; a run of H lost ones looks like a step back.
  The model counts losses over a whole behaviour, so the theorems are about behaviours with fewer
  than H of them.
* `MaxSpan` <= H. With one more the theorem is false, the finding `pdcp_span`.
* ~`SplitMoves`. SDUs forwarded get the HFN of the next SN (section 3), which is another one
  if they straddle the wrap.

The bounds of the run `pdcp` satisfy all three. A PDU, a forwarded SDU
and a copy in the queue are looked at as pairs of a COUNT and an SDU. The invariant
`Agreement` orders the pairs of the PDUs on the air, of those in RLC's queue and of the
SDUs forwarded (`InLine`) and places them against the next COUNT of either end
(`InRange`); what lies below the receiver's next COUNT has been delivered, and SDUs
ascend with COUNTs (`SdusOK`); COUNTs in between that nothing carries are at most as many
as were dropped (`FewMissing`). So the first PDU to arrive is less than half of the SNs
ahead (`NotFar`), or at most half behind, and `write_pdu` takes it for what it is
(`Recognized`). The part that is hardest to see: a copy of an SDU
not yet received must belong to a PDU under way, or a handover would send again what
nobody counted as lost. `FewMissing` is why `drops` must count exactly what each step loses,
for which the proofs of `DiscardsOne` and `HandOverKeeps` count list positions.

`RlcAmCommonProofs` has the arithmetic of sequence numbers that the AM proofs share.

The prover's translation to its SMT solver treats every value as a sequence once the
length of one occurs. All proofs have been replayed with that assumption taken out of
the solver's input; they do not depend on it.

## 6. Only model-checked

* The liveness properties (`EventuallyDelivered`, `WindowDrains`, `NoneLingers`): out of the
  prover's reach.
* That RLC implements `RlcAmService` and `RlcUmService`, and what reassembly computes over
  a whole run of PDUs (`IntactInOrder`): induction over data.

## 7. Not modelled

* Of RLC AM: `byte_without_poll`, the capacity of the segment pool and of
  `notify_info_vec`, the limit of 128 SDUs per PDU,
  `get_buffer_state` (reports only, and drops no entry a read would not drop),
  failed allocation of buffers, PDUs that no peer builds, the branches for
  conformance tests (`ttcn_*`). NACKs with a segment offset are modelled for
  ranges within the PDU; this code's receiver sends none. The checks of the offsets in
  `handle_control_pdu` (`rlc_am_lte.cc:1744-1776`) are therefore not in the model, and
  `RetxInPdu` holds only for peers that respect the length: with SO_end equal to
  it, which the check lets pass, `so_end` becomes one more than the length.
* `discard_sdu` runs under the queue's mutex and not the transmitter's; as an
  SDU is taken off the queue in one step of that queue, it is one action here, and a
  read takes its SDUs off in one action too: a discard comes before or after the
  whole of a read, and not between two SDUs the read takes.
* Of RLC UM: `stop`, buffer reports, SDUs longer than a buffer, `ttcn_*`, and the
  `iot_*` functions, which nothing calls; the MAC inside `read_pdu` during a
  re-establishment is in the model and switched off in the run.
* Of PDCP: header and cipher codecs, the moment security is switched on, `reset`,
  suspended bearers, the pass-through of `net_mode` 1, entities set up with
  `s_configure`, metrics. An entity replaced by the base station is that of one
  direction; of RRC's procedures only what they do to PDCP and RLC.
* Of the timers: growth of `timer_list` beyond its capacity, `stop_all`, which nothing
  calls, and the getters, which read without the mutex. In the other modules a timer
  is running, stopped or expired, and may expire at any time while it runs.
* The components of section 1 without a module; `PROJECT.json` says why. By lines
  nearly all of the repository is message code generated from ASN.1, signal
  processing, two upstream programs the satellite system does not run, and input
  and output; the models cover the protocol logic of a few files well, and cannot
  cover a large share of the lines.

## 8. Plan

1. *Done*: RLC AM (`RlcAmRx`, `RlcAmTx`, `RlcAmLink`, `RlcAmService`) with proofs of
   the receiver's invariants; RLC UM (`RlcUmTx`, `RlcUmRx`, `RlcUmLink`,
   `RlcUmService`); PDCP over both services (`PdcpTx`, `PdcpRx`, `PdcpLink`); the timer wheel
   (`Timers`).
2. Proofs. *Done*: the invariants of `RlcAmTx`, of `Timers`, of `RlcUmLink` but for
   the contents of SDUs, of `PdcpLink`, which is shown to implement its service, and of
   the AM link.
3. Segmentation of AM as an algorithm: LI and FI when `build_segment` cuts a PDU and
   `add_segment_and_check` puts it together, against the cut of cells used here;
   the segment pool and the lists through it.
4. Threads and queues: multiqueue, block queue: no lost wakeup, no push into a queue
   that has been erased and given away again; abstract: FIFO per queue.
5. NAS mobility and session management of `srscnw`: procedures, timers,
   retransmission; then `wx_sched`.
