------------------------------- MODULE RlcAmTx -------------------------------
(***************************************************************************)
(* The transmitting half of an RLC AM entity, class rlc_am_lte_tx in       *)
(* lib/src/rlc/rlc_am_lte.cc, for a bearer whose own receiver has no       *)
(* status PDU to send.                                                     *)
(*                                                                         *)
(* Two threads use it.  The stack thread writes and discards SDUs, handles *)
(* status PDUs, runs timer callbacks and re-establishes the entity; the    *)
(* MAC reads PDUs from another thread.  An action is one critical section  *)
(* of the transmitter's mutex: handle_control_pdu takes the mutex once per *)
(* sequence number, and a timer is marked expired before its callback gets *)
(* the mutex, so the MAC may read a PDU in between.                        *)
(***************************************************************************)
EXTENDS RlcAmCommon

CONSTANTS
  NSdu,             \* PDCP writes the SDUs 1, 2, ..., NSdu
  SduLen,           \* SduLen[s]: number of cells of SDU s
  QueueLen,         \* tx_queue_length
  MaxGrant,         \* largest number of cells the MAC asks for
  LiMax,            \* longest SDU part another SDU may follow (127 bytes)
  MaxRetx,          \* max_retx_thres_hold
  PollPdu,          \* poll_pdu, 0 when polling by count is off
  PollPeriodicity,  \* poll_periodicity, 8 in the code
  SmallGrants,      \* whether the MAC's grants may be too small for any segment
  Discardable,      \* SDUs whose PDCP discard timer may expire
  SoNacks           \* whether the peer's NACKs may ask for a part (within the PDU)

ASSUME TxAssumption ==
  /\ NSdu \in Nat /\ QueueLen \in Nat /\ MaxGrant \in Nat /\ LiMax \in Nat
  /\ MaxRetx \in Nat \ {0} /\ PollPdu \in Nat /\ PollPeriodicity \in Nat \ {0}
  /\ SduLen \in [1 .. NSdu -> Nat \ {0}]
  /\ Discardable \subseteq 1 .. NSdu /\ SoNacks \in BOOLEAN /\ SmallGrants \in BOOLEAN

VARIABLES
  tx_enabled,
  tx_sdu_queue,     \* SDUs waiting; 0 is the null pointer a discard leaves
  tx_sdu,           \* [s, k]: SDU s is being sent, its first k cells are gone
  vt_a,             \* lower edge of the window, next SN to be acknowledged
  vt_ms,            \* upper edge of the window
  vt_s,             \* next SN to be assigned
  poll_sn,          \* SN of the last new PDU with the poll bit
  pdu_without_poll,
  tx_window,        \* SN -> [cells, retx_count]: PDUs not yet acknowledged
  retx_queue,       \* <<[sn, is_segment, so_start, so_end], ...>>
  poll_retx_timer,  \* "stopped", "running" or "expired"
  undelivered,      \* undelivered_sdu_info_queue: SDU -> [fully_txed, segs]
  notify_info_vec,  \* SDUs fully acknowledged, PDCP not yet told
  stack,            \* what the stack thread is in the middle of
  written,          \* number of SDUs PDCP has written
  accepted,         \* the ones that went into the queue, in order
  notified,         \* SDUs reported to PDCP as delivered, in order
  rrc_events        \* what was signalled to RRC

txVars == <<tx_enabled, tx_sdu_queue, tx_sdu, vt_a, vt_ms, vt_s, poll_sn,
            pdu_without_poll, tx_window, retx_queue, poll_retx_timer,
            undelivered, notify_info_vec, stack, written, accepted, notified,
            rrc_events>>

NoSdu == [s |-> 0, k |-> 0]
Idle  == [pc |-> "idle"]

TxOff(x) == ModBase(x, vt_a)        \* TX_MOD_BASE

-----------------------------------------------------------------------------
(* The entity after a bearer has carried s PDUs and gone quiet; s = 0 is the *)
(* state of a new or re-established entity.                                  *)
TxQuiet(s) ==
  /\ tx_enabled = TRUE /\ tx_sdu_queue = << >> /\ tx_sdu = NoSdu
  /\ vt_a = s /\ vt_s = s /\ vt_ms = (s + W) % MOD
  /\ poll_sn = s /\ pdu_without_poll = 0
  /\ tx_window = NoEntries /\ retx_queue = << >> /\ poll_retx_timer = "stopped"
  /\ undelivered = NoEntries /\ notify_info_vec = << >> /\ stack = Idle
  /\ written = 0 /\ accepted = << >> /\ notified = << >> /\ rrc_events = {}

TxInit == \E s \in Starts : TxQuiet(s)

-----------------------------------------------------------------------------
(* PDCP side.                                                                *)

\* write_sdu: a full queue drops the SDU.
WriteSdu ==
  /\ stack = Idle /\ written < NSdu /\ tx_enabled
  /\ written' = written + 1
  /\ IF Len(tx_sdu_queue) < QueueLen
     THEN /\ tx_sdu_queue' = Append(tx_sdu_queue, written + 1)
          /\ accepted' = Append(accepted, written + 1)
     ELSE UNCHANGED <<tx_sdu_queue, accepted>>
  /\ UNCHANGED <<tx_enabled, tx_sdu, vt_a, vt_ms, vt_s, poll_sn, pdu_without_poll,
                 tx_window, retx_queue, poll_retx_timer, undelivered,
                 notify_info_vec, stack, notified, rrc_events>>

\* discard_sdu: the SDU's place in the queue is overwritten by a null pointer.
\* Mutant: it is not.
NulledMutant(s) == tx_sdu_queue

Nulled(s) == [i \in DOMAIN tx_sdu_queue |->
                IF tx_sdu_queue[i] = s THEN 0 ELSE tx_sdu_queue[i]]

DiscardSdu(s) ==
  /\ stack = Idle /\ tx_enabled
  /\ \E i \in DOMAIN tx_sdu_queue : tx_sdu_queue[i] = s
  /\ tx_sdu_queue' = Nulled(s)
  /\ \E i \in DOMAIN accepted : accepted[i] = s /\ accepted' = Drop(accepted, i)
  /\ UNCHANGED <<tx_enabled, tx_sdu, vt_a, vt_ms, vt_s, poll_sn, pdu_without_poll,
                 tx_window, retx_queue, poll_retx_timer, undelivered,
                 notify_info_vec, stack, written, notified, rrc_events>>

-----------------------------------------------------------------------------
(* Polling and retransmission counts.  Building a PDU threads the pair        *)
(* [count, timer] of pdu_without_poll and the state of the poll timer.         *)

Polling == [count |-> pdu_without_poll, timer |-> poll_retx_timer]

\* pdu_without_poll++ (past the threshold, and without one, its value is irrelevant).
CountPdu(pl) == [pl EXCEPT !.count = IF PollPdu > 0 /\ @ <= PollPdu THEN @ + 1 ELSE @]

\* poll_required, for the given window, SDU queue and retransmission queue.
\* Mutant: no poll when nothing is left to send.
PollRequiredMutant(pl, win, sdu_queue, retxq) ==
  \/ PollPdu > 0 /\ pl.count > PollPdu
  \/ pl.timer = "expired"
  \/ Cardinality(DOMAIN win) >= W
  \/ PollPdu = 0 /\ vt_s % PollPeriodicity = 0

PollRequired(pl, win, sdu_queue, retxq) ==
  \/ PollPdu > 0 /\ pl.count > PollPdu
  \/ pl.timer = "expired"
  \/ Cardinality(DOMAIN win) >= W
  \/ sdu_queue = << >> /\ retxq = << >>
  \/ PollPdu = 0 /\ vt_s % PollPeriodicity = 0

\* The poll bit is set: the counter restarts and so does the timer.
AfterPoll(pl, poll) == IF poll THEN [count |-> 0, timer |-> "running"] ELSE pl

SetPolling(pl) == pdu_without_poll' = pl.count /\ poll_retx_timer' = pl.timer

WholePdu(sn) == [sn |-> sn, is_segment |-> FALSE, so_start |-> 0,
                 so_end |-> Len(tx_window[sn].cells)]

\* pdu.retx_count++ (from the threshold on its value is irrelevant) ...
CountRetx(sn) ==
  [tx_window EXCEPT ![sn].retx_count = IF @ < MaxRetx THEN @ + 1 ELSE @]

\* ... and check_sn_reached_max_retx, called after it.
MaxRetxEvent(sn) == IF tx_window[sn].retx_count + 1 = MaxRetx
                    THEN {"max_retx_attempted"} ELSE {}

\* retransmit_pdu
RetransmitPdu(sn) ==
  IF sn \in DOMAIN tx_window
  THEN /\ tx_window' = CountRetx(sn)
       /\ rrc_events' = rrc_events \cup MaxRetxEvent(sn)
       /\ retx_queue' = Append(retx_queue, WholePdu(sn))
  ELSE UNCHANGED <<tx_window, rrc_events, retx_queue>>

-----------------------------------------------------------------------------
(* MAC side, read_pdu: the start of it, up to the front of retx_queue.          *)

\* build_retx_pdu drops the leading entries whose PDU was acknowledged meanwhile.
FirstLive(q) == CHOOSE i \in 1 .. Len(q) + 1 :
                  /\ i = Len(q) + 1 \/ q[i].sn \in DOMAIN tx_window
                  /\ \A j \in 1 .. i - 1 : q[j].sn \notin DOMAIN tx_window

\* retransmit_pdu(vt_a) is called when the window is full and nothing is to be
\* retransmitted, and when the queue held nothing but such entries.
Reschedules ==
  /\ vt_a \in DOMAIN tx_window
  /\ \/ retx_queue = << >> /\ Cardinality(DOMAIN tx_window) >= W
     \/ retx_queue # << >> /\ FirstLive(retx_queue) > Len(retx_queue)

ReadyRetxQueue ==
  IF Reschedules THEN <<WholePdu(vt_a)>>
  ELSE SubSeq(retx_queue, FirstLive(retx_queue), Len(retx_queue))

ReadyWindow == IF Reschedules THEN CountRetx(vt_a) ELSE tx_window

Rescheduled ==
  rrc_events' = rrc_events \cup (IF Reschedules THEN MaxRetxEvent(vt_a) ELSE {})

-----------------------------------------------------------------------------
(* build_retx_pdu and build_segment, with room for n cells.                     *)

\* The cells that are retransmitted: the whole PDU if it fits and was not asked
\* for in part, else a segment.
RetxSpan(n) ==
  LET r == Head(ReadyRetxQueue)
      max == r.so_start + n
  IN  [whole |-> ~r.is_segment /\ Len(tx_window[r.sn].cells) <= n,
       from  |-> r.so_start,
       to    |-> IF r.so_end <= max THEN r.so_end ELSE max]

\* Not even a segment of one cell fits.
RetxFits(n) == RetxSpan(n).whole \/ n > 0

\* The front of the queue has been retransmitted completely.
\* Mutant: the end of the part asked for is not looked at.
RetxDoneMutant(n) ==
  \/ RetxSpan(n).whole
  \/ RetxSpan(n).to = Len(tx_window[Head(ReadyRetxQueue).sn].cells)

RetxDone(n) == \/ RetxSpan(n).whole
               \/ RetxSpan(n).to = Len(tx_window[Head(ReadyRetxQueue).sn].cells)
               \/ RetxSpan(n).to = Head(ReadyRetxQueue).so_end

\* poll_required is asked before the entry is taken off the queue.
RetxPolls ==
  PollRequired(CountPdu(Polling), ReadyWindow, tx_sdu_queue, ReadyRetxQueue)

\* The PDU that ReadRetx(n) hands to the MAC.
RetxPdu(n) ==
  LET sn == Head(ReadyRetxQueue).sn
      cells == tx_window[sn].cells
      span == RetxSpan(n)
  IN  IF span.whole
      THEN [rf |-> FALSE, sn |-> sn, p |-> RetxPolls, cells |-> cells]
      ELSE [rf |-> TRUE, sn |-> sn, p |-> RetxPolls, so |-> span.from,
            lsf |-> span.to = Len(cells),
            cells |-> SubSeq(cells, span.from + 1, span.to)]

ReadRetx(n) ==
  /\ tx_enabled /\ ReadyRetxQueue # << >> /\ RetxFits(n)
  /\ retx_queue' =
       IF RetxDone(n) THEN Tail(ReadyRetxQueue)
       ELSE [ReadyRetxQueue EXCEPT ![1].is_segment = TRUE,
                                   ![1].so_start = RetxSpan(n).to]
  /\ SetPolling(AfterPoll(CountPdu(Polling), RetxPolls))
  /\ tx_window' = ReadyWindow
  /\ Rescheduled
  /\ UNCHANGED <<tx_enabled, tx_sdu_queue, tx_sdu, vt_a, vt_ms, vt_s, poll_sn,
                 undelivered, notify_info_vec, stack, written, accepted, notified>>

-----------------------------------------------------------------------------
(* build_data_pdu, reached when there is nothing to retransmit or when the grant *)
(* holds no segment (its header is longer than that of a whole PDU).             *)

ReachesDataPdu ==
  tx_enabled /\ (ReadyRetxQueue # << >> => SmallGrants /\ ~RetxFits(0))

\* A segment that did not fit has been counted, and polled for, nevertheless.
PollingThen == IF ReadyRetxQueue = << >> THEN Polling
               ELSE AfterPoll(CountPdu(Polling), RetxPolls)

\* There is an SDU, or the null pointer of a discarded one, and the window is not
\* full; the rest of an SDU is sent even if the window is full.
HasNewPdu == \/ tx_sdu # NoSdu
             \/ tx_sdu_queue # << >> /\ Cardinality(DOMAIN tx_window) < W

\* What new PDUs can be filled from, in order: the rest of tx_sdu at place 0, then
\* the places of the queue.  [s, k] is SDU s after k cells; there is none if s = 0.
Part(i) == IF i = 0 THEN tx_sdu ELSE [s |-> tx_sdu_queue[i], k |-> 0]

PartLen(i) == IF Part(i).s = 0 THEN 0 ELSE SduLen[Part(i).s] - Part(i).k

\* Number of cells in the parts before part i.
Before ==
  LET b[i \in 0 .. Len(tx_sdu_queue) + 1] ==
        IF i = 0 THEN 0 ELSE b[i - 1] + PartLen(i - 1)
  IN  b

\* The parts that a PDU with room for n cells takes: a part longer than LiMax has
\* no length field and ends the PDU.
Taken(n) == {i \in 0 .. Len(tx_sdu_queue) :
               /\ PartLen(i) > 0 /\ Before[i] < n
               /\ \A j \in 0 .. i - 1 : PartLen(j) <= LiMax}

\* The last of them, 0 if there is none (the queue held only null pointers) ...
LastTaken(n) == IF Taken(n) = {} THEN 0
                ELSE CHOOSE i \in Taken(n) : \A j \in Taken(n) : j <= i

\* ... and the number of cells the PDU takes from part i.
Moved(n, i) == IF PartLen(i) <= n - Before[i] THEN PartLen(i) ELSE n - Before[i]

\* The payload.
NewCells(n) ==
  LET of(c) == CHOOSE i \in Taken(n) : Before[i] < c /\ c <= Before[i + 1]
      at(c) == Part(of(c)).k + c - Before[of(c)]
  IN  [c \in 1 .. Before[LastTaken(n)] + Moved(n, LastTaken(n)) |->
         [s |-> Part(of(c)).s, k |-> at(c), e |-> at(c) = SduLen[Part(of(c)).s]]]

\* The SDU left over, and the queue after the last SDU that was read from it.
RestOfSdu(n) ==
  LET m == LastTaken(n)
  IN  IF Moved(n, m) = PartLen(m) THEN NoSdu
      ELSE [s |-> Part(m).s, k |-> Part(m).k + Moved(n, m)]

RestOfQueue(n) == SubSeq(tx_sdu_queue, LastTaken(n) + 1, Len(tx_sdu_queue))

NewWindow(n) == With(ReadyWindow, vt_s, [cells |-> NewCells(n), retx_count |-> 0])

DataPolls(n) == PollRequired(CountPdu(PollingThen), NewWindow(n), RestOfQueue(n),
                             ReadyRetxQueue)

\* The PDU that ReadData(n) hands to the MAC.
DataPdu(n) == [rf |-> FALSE, sn |-> vt_s, p |-> DataPolls(n), cells |-> NewCells(n)]

\* undelivered_sdu_info_queue and segment_pool.make_segment.
NewUndelivered(n) ==
  LET old(s) == IF s \in DOMAIN undelivered THEN undelivered[s]
                ELSE [fully_txed |-> FALSE, segs |-> {}]
      ends == {NewCells(n)[c].s : c \in {d \in DOMAIN NewCells(n) : NewCells(n)[d].e}}
      sdus == {Part(i).s : i \in Taken(n)} \ ({tx_sdu.s} \ DOMAIN undelivered)
  IN  [s \in DOMAIN undelivered \cup sdus |->
         IF s \in sdus THEN [fully_txed |-> s \in ends, segs |-> old(s).segs \cup {vt_s}]
                       ELSE undelivered[s]]

ReadData(n) ==
  /\ ReachesDataPdu /\ HasNewPdu /\ n >= 1
  /\ tx_window' = NewWindow(n)
  /\ undelivered' = NewUndelivered(n)
  /\ tx_sdu' = RestOfSdu(n)
  /\ tx_sdu_queue' = RestOfQueue(n)
  /\ SetPolling(AfterPoll(CountPdu(PollingThen), DataPolls(n)))
  /\ poll_sn' = IF DataPolls(n) THEN vt_s ELSE poll_sn
  /\ vt_s' = Inc(vt_s)
  /\ retx_queue' = ReadyRetxQueue
  /\ Rescheduled
  /\ UNCHANGED <<tx_enabled, vt_a, vt_ms, notify_info_vec, stack, written, accepted,
                 notified>>

\* No PDU comes out, but a retransmission may have been prepared for.
ReadNothing(n) ==
  /\ ReachesDataPdu /\ (n = 0 \/ ~HasNewPdu)
  /\ SetPolling(PollingThen)
  /\ tx_window' = ReadyWindow
  /\ retx_queue' = ReadyRetxQueue
  /\ Rescheduled
  /\ UNCHANGED <<tx_enabled, tx_sdu_queue, tx_sdu, vt_a, vt_ms, vt_s, poll_sn,
                 undelivered, notify_info_vec, stack, written, accepted, notified>>

-----------------------------------------------------------------------------
(* The poll timer.  step_all marks it expired, and calls timer_expired without  *)
(* holding a lock: until that has the mutex, the MAC may read PDUs.              *)

PollRetxExpires ==
  /\ stack = Idle /\ poll_retx_timer = "running"
  /\ poll_retx_timer' = "expired"
  /\ stack' = [pc |-> "timer_expired"]
  /\ UNCHANGED <<tx_enabled, tx_sdu_queue, tx_sdu, vt_a, vt_ms, vt_s, poll_sn,
                 pdu_without_poll, tx_window, retx_queue, undelivered,
                 notify_info_vec, written, accepted, notified, rrc_events>>

PollRetxCallback ==
  /\ stack.pc = "timer_expired"
  /\ stack' = Idle
  /\ IF \/ retx_queue = << >> /\ tx_sdu_queue = << >>
        \/ Cardinality(DOMAIN tx_window) >= W
     THEN RetransmitPdu(vt_a)
     ELSE UNCHANGED <<tx_window, rrc_events, retx_queue>>
  /\ UNCHANGED <<tx_enabled, tx_sdu_queue, tx_sdu, vt_a, vt_ms, vt_s, poll_sn,
                 pdu_without_poll, poll_retx_timer, undelivered, notify_info_vec,
                 written, accepted, notified>>

-----------------------------------------------------------------------------
(* handle_control_pdu: status = [ack_sn, nacks].                                *)

ValidAck(status) == TxOff(status.ack_sn) <= W /\ ModBase(vt_s, status.ack_sn) <= W

\* The first critical section.  stop() has no effect on an expired timer.
ControlStart(status) ==
  /\ stack = Idle /\ tx_enabled /\ ValidAck(status)
  /\ poll_retx_timer' = IF /\ TxOff(poll_sn) < TxOff(status.ack_sn)
                           /\ poll_retx_timer = "running"
                        THEN "stopped" ELSE poll_retx_timer
  /\ retx_queue' = IF status.nacks # {} THEN << >> ELSE retx_queue
  /\ stack' = [pc |-> "control", status |-> status, i |-> vt_a, vt_s_local |-> vt_s,
               update_vt_a |-> TRUE]
  /\ UNCHANGED <<tx_enabled, tx_sdu_queue, tx_sdu, vt_a, vt_ms, vt_s, poll_sn,
                 pdu_without_poll, tx_window, undelivered, notify_info_vec, written,
                 accepted, notified, rrc_events>>

\* A status PDU whose ACK_SN is out of the window, or that comes while the entity
\* is stopped, is dropped.
ControlDropped(status) ==
  /\ stack = Idle
  /\ ~tx_enabled \/ ~ValidAck(status)
  /\ UNCHANGED txVars

ControlMore == /\ stack.pc = "control"
               /\ TxOff(stack.i) < TxOff(stack.status.ack_sn)
               /\ TxOff(stack.i) < TxOff(stack.vt_s_local)

\* To the next SN; vt_a no longer moves once an SN was negatively acknowledged.
\* Mutant: it goes on moving.
NextRoundMutant(nacked) == [stack EXCEPT !.i = Inc(@)]

NextRound(nacked) == [stack EXCEPT !.i = Inc(@), !.update_vt_a = @ /\ ~nacked]

\* The entry a NACK of sn adds to the queue: the whole PDU or the part asked for,
\* which lies within the PDU.  What the code does with offsets beyond its end, which
\* no peer that has seen the PDU sends, is left out.
NackedParts(sn) ==
  {WholePdu(sn)} \cup
  IF ~SoNacks THEN {}
  ELSE {[sn |-> sn, is_segment |-> TRUE, so_start |-> so[1], so_end |-> so[2]] :
          so \in {x \in (0 .. Len(tx_window[sn].cells)) \X (1 .. Len(tx_window[sn].cells)) :
                    x[1] < x[2]}}

\* One round of the loop on a negatively acknowledged SN.
ControlNack ==
  /\ ControlMore /\ stack.i \in stack.status.nacks
  /\ LET i == stack.i IN
     IF /\ i \in DOMAIN tx_window
        /\ \A j \in 1 .. Len(retx_queue) : retx_queue[j].sn # i
     THEN /\ tx_window' = CountRetx(i)
          /\ rrc_events' = rrc_events \cup MaxRetxEvent(i)
          /\ \E part \in NackedParts(i) : retx_queue' = Append(retx_queue, part)
     ELSE UNCHANGED <<tx_window, rrc_events, retx_queue>>
  /\ stack' = NextRound(TRUE)
  /\ UNCHANGED <<tx_enabled, tx_sdu_queue, tx_sdu, vt_a, vt_ms, vt_s, poll_sn,
                 pdu_without_poll, poll_retx_timer, undelivered, notify_info_vec,
                 written, accepted, notified>>

\* update_notification_ack_info: SDUs whose last outstanding PDU is sn, and what
\* remains to be acknowledged.
\* Mutant: an SDU need not have been sent completely.
FullyAckedMutant(sn) == {s \in DOMAIN undelivered : undelivered[s].segs = {sn}}

FullyAcked(sn) == {s \in DOMAIN undelivered : /\ undelivered[s].fully_txed
                                              /\ undelivered[s].segs = {sn}}

\* Mutant: the PDU stays in the list of an SDU that waits for others too.
AckSegmentsMutant(sn) ==
  [s \in DOMAIN undelivered \ FullyAcked(sn) |-> undelivered[s]]

AckSegments(sn) ==
  [s \in DOMAIN undelivered \ FullyAcked(sn) |->
     [undelivered[s] EXCEPT !.segs = @ \ {sn}]]

\* The lists of some SDUs in their order (there is one).
InOrder(sdus) == {l \in [1 .. Cardinality(sdus) -> sdus] :
                    \A i, j \in DOMAIN l : i < j => l[i] < l[j]}

\* One round of the loop on an acknowledged SN.
ControlAck ==
  /\ ControlMore /\ stack.i \notin stack.status.nacks
  /\ LET i == stack.i IN
     IF i \in DOMAIN tx_window
     THEN /\ undelivered' = AckSegments(i)
          /\ \E acked \in InOrder(FullyAcked(i)) :
                notify_info_vec' = notify_info_vec \o acked
          /\ tx_window' = Without(tx_window, i)
     ELSE UNCHANGED <<undelivered, notify_info_vec, tx_window>>
  /\ vt_a'  = IF stack.update_vt_a THEN Inc(vt_a) ELSE vt_a
  /\ vt_ms' = IF stack.update_vt_a THEN Inc(vt_ms) ELSE vt_ms
  /\ stack' = NextRound(FALSE)
  /\ UNCHANGED <<tx_enabled, tx_sdu_queue, tx_sdu, vt_s, poll_sn, pdu_without_poll,
                 retx_queue, poll_retx_timer, written, accepted, notified, rrc_events>>

\* After the loop: vt_a is checked, and PDCP is told what was delivered.
ControlDone ==
  /\ stack.pc = "control" /\ ~ControlMore
  /\ rrc_events' = rrc_events \cup
       (IF tx_window # NoEntries /\ vt_a \notin DOMAIN tx_window
        THEN {"protocol_failure"} ELSE {})
  /\ notified' = notified \o notify_info_vec
  /\ notify_info_vec' = << >>
  /\ stack' = Idle
  /\ UNCHANGED <<tx_enabled, tx_sdu_queue, tx_sdu, vt_a, vt_ms, vt_s, poll_sn,
                 pdu_without_poll, tx_window, retx_queue, poll_retx_timer,
                 undelivered, written, accepted>>

ControlStep == ControlNack \/ ControlAck \/ ControlDone

-----------------------------------------------------------------------------
(* Upper layers.                                                               *)

\* empty_queue_nolock
Emptied == IF tx_sdu = NoSdu THEN undelivered ELSE Without(undelivered, tx_sdu.s)

EmptyQueue ==
  /\ stack = Idle
  /\ tx_sdu_queue' = << >> /\ tx_sdu' = NoSdu
  /\ undelivered' = Emptied
  /\ UNCHANGED <<tx_enabled, vt_a, vt_ms, vt_s, poll_sn, pdu_without_poll, tx_window,
                 retx_queue, poll_retx_timer, notify_info_vec, stack, written,
                 accepted, notified, rrc_events>>

\* stop, and reestablish, which enables the entity again.
StopTx(enabled) ==
  /\ stack = Idle
  /\ tx_enabled' = enabled
  /\ tx_sdu_queue' = << >> /\ tx_sdu' = NoSdu
  /\ vt_a' = 0 /\ vt_ms' = W /\ vt_s' = 0 /\ poll_sn' = 0
  /\ pdu_without_poll' = 0
  /\ tx_window' = NoEntries /\ retx_queue' = << >> /\ undelivered' = NoEntries
  /\ poll_retx_timer' = IF poll_retx_timer = "running" THEN "stopped"
                        ELSE poll_retx_timer
  /\ UNCHANGED <<notify_info_vec, stack, written, accepted, notified, rrc_events>>

-----------------------------------------------------------------------------
(* The transmitter on its own: a peer that may send a status PDU at any time,  *)
(* whose NACKs of a part ask for one that lies within the PDU.                 *)

\* vt_s has not overtaken vt_ms.
InWindow == TxOff(vt_s) <= W

\* pdu_retx_queue is a ring of RLC_AM_WINDOW_SIZE places, one of them always free.
RetxQueueFits == Len(retx_queue) <= W - 1

TxRead == \E n \in 0 .. MaxGrant : ReadRetx(n) \/ ReadData(n) \/ ReadNothing(n)

\* A status PDU acknowledges up to any SN and reports any of the SNs below it as
\* missing; vt_a - 1 stands for the SNs that an outdated report is about.
TxControl ==
  \/ \E k \in 0 .. W : \E nacks \in SUBSET {(vt_a + j) % MOD : j \in -1 .. k - 1} :
        ControlStart([ack_sn |-> (vt_a + k) % MOD, nacks |-> nacks])
  \/ \E ack_sn \in SN : ControlDropped([ack_sn |-> ack_sn, nacks |-> {}])
  \/ ControlStep

TxNext ==
  \/ WriteSdu
  \/ \E s \in Discardable : DiscardSdu(s)
  \/ TxRead
  \/ PollRetxExpires \/ PollRetxCallback
  \/ TxControl
  \/ EmptyQueue
  \/ \E enabled \in BOOLEAN : StopTx(enabled)

TxSpec == TxInit /\ [][TxNext]_txVars

\* As long as neither the window, which a run of its own shows, nor the ring of
\* the retransmission queue is overrun.
TxBoundedSpec == TxInit /\ [][TxNext /\ InWindow' /\ RetxQueueFits']_txVars

-----------------------------------------------------------------------------
Cell == [s : 1 .. NSdu, k : Nat, e : BOOLEAN]

\* Every state variable of the transmitter keeps its type.
TxTypeOK ==
  /\ tx_enabled \in BOOLEAN
  /\ tx_sdu_queue \in Seq(0 .. NSdu) /\ tx_sdu \in [s : 0 .. NSdu, k : Nat]
  /\ vt_a \in SN /\ vt_ms \in SN /\ vt_s \in SN /\ poll_sn \in SN
  /\ pdu_without_poll \in 0 .. PollPdu + 1
  /\ poll_retx_timer \in {"stopped", "running", "expired"}
  /\ DOMAIN tx_window \subseteq SN
  /\ tx_window \in [DOMAIN tx_window -> [cells : Seq(Cell), retx_count : 0 .. MaxRetx]]
  /\ retx_queue \in Seq([sn : SN, is_segment : BOOLEAN, so_start : Nat, so_end : Nat])
  /\ DOMAIN undelivered \subseteq 1 .. NSdu
  /\ undelivered \in [DOMAIN undelivered -> [fully_txed : BOOLEAN, segs : SUBSET SN]]
  /\ notify_info_vec \in Seq(1 .. NSdu) /\ notified \in Seq(1 .. NSdu)
  /\ written \in 0 .. NSdu /\ accepted \in Seq(1 .. NSdu)
  /\ rrc_events \subseteq {"max_retx_attempted", "protocol_failure"}
  /\ stack \in [pc : {"idle", "timer_expired"}] \cup
               [pc : {"control"}, status : [ack_sn : SN, nacks : SUBSET SN],
                i : SN, vt_s_local : SN, update_vt_a : BOOLEAN]

\* The PDUs that wait for an acknowledgement have the SNs from VT(A) up to VT(S)
\* (exclusive), also while a status PDU is applied SN by SN and the MAC adds new
\* PDUs in between.
TxWindowSound ==
  /\ vt_ms = (vt_a + W) % MOD
  /\ \A sn \in DOMAIN tx_window : TxOff(sn) < TxOff(vt_s)

\* What is recorded per SDU and what is recorded per PDU agree: an SDU waits for
\* exactly those unacknowledged PDUs that carry a part of it (two linked lists
\* over one pool of segments in the code), and for at least one of them once it
\* is sent completely.
UndeliveredSound ==
  \A s \in DOMAIN undelivered :
     /\ undelivered[s].segs =
          {sn \in DOMAIN tx_window :
             \E c \in DOMAIN tx_window[sn].cells : tx_window[sn].cells[c].s = s}
     /\ undelivered[s].fully_txed => undelivered[s].segs # {}
     /\ undelivered[s].fully_txed <=> tx_sdu.s # s

\* PDCP is told at most once that an SDU was delivered, and never while a part of
\* it is unsent or unacknowledged.
NotifiedOnce ==
  LET told == notified \o notify_info_vec IN
  /\ \A i, j \in DOMAIN told : i # j => told[i] # told[j]
  /\ \A i \in DOMAIN told :
       /\ \A sn \in DOMAIN tx_window : \A c \in DOMAIN tx_window[sn].cells :
             tx_window[sn].cells[c].s # told[i]
       /\ told[i] # tx_sdu.s
       /\ \A j \in DOMAIN tx_sdu_queue : tx_sdu_queue[j] # told[i]

\* What is left to retransmit of a PDU is a part of it, and not nothing, for peers
\* whose NACKs ask for no more than that, also when an entry outlives its PDU and the
\* SN is used again (handle_control_pdu, build_retx_pdu, build_segment).
RetxInPdu ==
  \A i \in DOMAIN retx_queue :
     LET r == retx_queue[i] IN
     r.sn \in DOMAIN tx_window =>
        LET len == Len(tx_window[r.sn].cells) IN
        /\ r.so_end <= len
        /\ r.so_start < r.so_end \/ len = 0
=============================================================================
