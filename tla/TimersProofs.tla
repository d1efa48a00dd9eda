---------------------------- MODULE TimersProofs ----------------------------
(***************************************************************************)
(* Proofs about the timer handler, for any number of timers, any size of   *)
(* the wheel and any durations.                                            *)
(***************************************************************************)
EXTENDS Timers, TLAPS, FiniteSetTheorems, FunctionTheorems, SequenceTheorems

-----------------------------------------------------------------------------
(* Lists.                                                                      *)

\* No element is in the list twice (a node has one next_node and one prev_node).
Once(list) == \A i, j \in DOMAIN list : list[i] = list[j] => i = j

\* a is at b or before it.
Before(list, a, b) ==
  \E i, j \in DOMAIN list : i <= j /\ list[i] = a /\ list[j] = b

\* push_front
LEMMA PushFront ==
  ASSUME NEW list \in Seq(Timer), NEW t \in Timer
  PROVE  LET new == <<t>> \o list IN
         /\ new \in Seq(Timer) /\ Len(new) = Len(list) + 1
         /\ new[1] = t
         /\ \A i \in DOMAIN list : i + 1 \in DOMAIN new /\ new[i + 1] = list[i]
         /\ \A i \in DOMAIN new : i = 1 \/ (i - 1 \in DOMAIN list /\ new[i] = list[i - 1])
OBVIOUS

\* intrusive_double_linked_list::pop
LEMMA PopElement ==
  ASSUME NEW list \in Seq(Timer), NEW k \in DOMAIN list
  PROVE  LET new == RemoveAt(list, k) IN
         /\ new \in Seq(Timer) /\ Len(new) = Len(list) - 1
         /\ \A i \in DOMAIN list : i < k => i \in DOMAIN new /\ new[i] = list[i]
         /\ \A i \in DOMAIN list : i > k => i - 1 \in DOMAIN new /\ new[i - 1] = list[i]
         /\ \A i \in DOMAIN new : IF i < k THEN i \in DOMAIN list /\ new[i] = list[i]
                                  ELSE i + 1 \in DOMAIN list /\ new[i] = list[i + 1]
<1> DEFINE a == SubSeq(list, 1, k - 1)
           b == SubSeq(list, k + 1, Len(list))
<1>1. /\ a \in Seq(Timer) /\ Len(a) = k - 1
      /\ \A i \in 1 .. k - 1 : a[i] = list[i]
  OBVIOUS
<1>2. /\ b \in Seq(Timer) /\ Len(b) = Len(list) - k
      /\ \A i \in 1 .. Len(list) - k : b[i] = list[k + i]
  OBVIOUS
<1>0. Len(list) \in Nat /\ DOMAIN list = 1 .. Len(list) /\ k \in 1 .. Len(list)
  OBVIOUS
<1> HIDE DEF a, b
<1>3. RemoveAt(list, k) = a \o b
  BY DEF RemoveAt, a, b
<1>4. /\ a \o b \in Seq(Timer) /\ Len(a \o b) = Len(list) - 1
      /\ \A i \in 1 .. Len(list) - 1 :
            (a \o b)[i] = IF i <= k - 1 THEN a[i] ELSE b[i - (k - 1)]
  <2>1. /\ a \o b \in Seq(Timer) /\ Len(a \o b) = Len(a) + Len(b)
        /\ \A i \in 1 .. Len(a) + Len(b) :
              (a \o b)[i] = IF i <= Len(a) THEN a[i] ELSE b[i - Len(a)]
    BY <1>1, <1>2, ConcatProperties
  <2>2. Len(a) + Len(b) = Len(list) - 1
    BY <1>0, <1>1, <1>2
  <2> QED
    BY <2>1, <2>2, <1>1
<1>5. \A i \in 1 .. Len(list) - 1 :
         (a \o b)[i] = IF i < k THEN list[i] ELSE list[i + 1]
  <2> TAKE i \in 1 .. Len(list) - 1
  <2>1. CASE i < k
    BY <2>1, <1>0, <1>1, <1>4
  <2>2. CASE ~(i < k)
    <3>1. i - (k - 1) \in 1 .. Len(list) - k /\ k + (i - (k - 1)) = i + 1
      BY <2>2, <1>0
    <3>2. (a \o b)[i] = b[i - (k - 1)]
      <4>1. ~(i <= k - 1)
        BY <2>2, <1>0
      <4> QED
        BY <4>1, <1>4
    <3>3. b[i - (k - 1)] = list[k + (i - (k - 1))]
      BY <3>1, <1>2
    <3> QED
      BY <2>2, <3>1, <3>2, <3>3
  <2> QED
    BY <2>1, <2>2
<1> DEFINE new == a \o b
<1>6. /\ new \in Seq(Timer) /\ Len(new) = Len(list) - 1
      /\ DOMAIN new = 1 .. Len(list) - 1 /\ DOMAIN list = 1 .. Len(list)
      /\ \A i \in 1 .. Len(list) - 1 : new[i] = IF i < k THEN list[i] ELSE list[i + 1]
      /\ Len(list) \in Nat
  BY <1>4, <1>5
<1> HIDE DEF new
<1> SUFFICES /\ \A i \in DOMAIN list : i < k => i \in DOMAIN new /\ new[i] = list[i]
             /\ \A i \in DOMAIN list : i > k => i - 1 \in DOMAIN new /\ new[i - 1] = list[i]
             /\ \A i \in DOMAIN new : IF i < k THEN i \in DOMAIN list /\ new[i] = list[i]
                                      ELSE i + 1 \in DOMAIN list /\ new[i] = list[i + 1]
  BY <1>3, <1>6 DEF new
<1> QED
  BY <1>6

\* push_front puts an element that was not in the list before all others.
LEMMA PushedList ==
  ASSUME NEW list \in Seq(Timer), NEW t \in Timer, Once(list), ~Contains(list, t)
  PROVE  LET new == <<t>> \o list IN
         /\ new \in Seq(Timer) /\ Once(new)
         /\ \A u : Contains(new, u) <=> u = t \/ Contains(list, u)
         /\ \A u, v : Before(list, u, v) => Before(new, u, v)
<1> DEFINE new == <<t>> \o list
<1>1. /\ new \in Seq(Timer) /\ Len(new) = Len(list) + 1
      /\ new[1] = t
      /\ \A i \in DOMAIN list : i + 1 \in DOMAIN new /\ new[i + 1] = list[i]
      /\ \A i \in DOMAIN new : i = 1 \/ (i - 1 \in DOMAIN list /\ new[i] = list[i - 1])
  BY PushFront
<1>2. /\ Len(list) \in Nat /\ DOMAIN list = 1 .. Len(list)
      /\ DOMAIN new = 1 .. Len(list) + 1
  BY <1>1
<1> HIDE DEF new
<1>3. Once(new)
  <2> SUFFICES ASSUME NEW i \in DOMAIN new, NEW j \in DOMAIN new, new[i] = new[j]
               PROVE  i = j
    BY DEF Once
  <2> QED
    BY <1>1, <1>2 DEF Once, Contains
<1>4. \A u : Contains(new, u) <=> u = t \/ Contains(list, u)
  <2> TAKE u
  <2>1. ASSUME Contains(new, u) PROVE u = t \/ Contains(list, u)
    BY <2>1, <1>1, <1>2 DEF Contains
  <2>2. ASSUME Contains(list, u) PROVE Contains(new, u)
    BY <2>2, <1>1, <1>2 DEF Contains
  <2>3. Contains(new, t)
    BY <1>1, <1>2 DEF Contains
  <2> QED
    BY <2>1, <2>2, <2>3
<1>5. \A u, v : Before(list, u, v) => Before(new, u, v)
  <2> SUFFICES ASSUME NEW u, NEW v, Before(list, u, v) PROVE Before(new, u, v)
    OBVIOUS
  <2>1. PICK i \in DOMAIN list, j \in DOMAIN list : i <= j /\ list[i] = u /\ list[j] = v
    BY DEF Before
  <2>2. /\ i + 1 \in DOMAIN new /\ j + 1 \in DOMAIN new /\ i + 1 <= j + 1
        /\ new[i + 1] = u /\ new[j + 1] = v
    BY <2>1, <1>1, <1>2
  <2> QED
    BY <2>2 DEF Before
<1> QED
  BY <1>1, <1>3, <1>4, <1>5 DEF new

\* pop takes out one element, and leaves the others in their order.
LEMMA PoppedList ==
  ASSUME NEW list \in Seq(Timer), NEW t \in Timer, Once(list), Contains(list, t)
  PROVE  LET new == Unlinked(list, t) IN
         /\ new \in Seq(Timer) /\ Once(new)
         /\ \A u : Contains(new, u) <=> u # t /\ Contains(list, u)
         /\ \A u, v : Before(list, u, v) /\ u # t /\ v # t => Before(new, u, v)
<1> DEFINE k == CHOOSE i \in DOMAIN list : list[i] = t
           new == RemoveAt(list, k)
<1>1. k \in DOMAIN list /\ list[k] = t
  BY DEF Contains
<1> HIDE DEF k
<1>2. /\ new \in Seq(Timer) /\ Len(new) = Len(list) - 1
      /\ \A i \in DOMAIN list : i < k => i \in DOMAIN new /\ new[i] = list[i]
      /\ \A i \in DOMAIN list : i > k => i - 1 \in DOMAIN new /\ new[i - 1] = list[i]
      /\ \A i \in DOMAIN new : IF i < k THEN i \in DOMAIN list /\ new[i] = list[i]
                               ELSE i + 1 \in DOMAIN list /\ new[i] = list[i + 1]
  BY <1>1, PopElement
<1>3. /\ Len(list) \in Nat /\ DOMAIN list = 1 .. Len(list)
      /\ DOMAIN new = 1 .. Len(list) - 1 /\ Len(new) = Len(list) - 1
  BY <1>2
<1>4. Unlinked(list, t) = new
  BY DEF Unlinked, k
<1> HIDE DEF new
<1>5. Once(new)
  <2> SUFFICES ASSUME NEW i \in DOMAIN new, NEW j \in DOMAIN new, new[i] = new[j]
               PROVE  i = j
    BY DEF Once
  <2> QED
    BY <1>1, <1>2, <1>3 DEF Once
<1>6. \A u : Contains(new, u) <=> u # t /\ Contains(list, u)
  <2> TAKE u
  <2>1. ASSUME Contains(new, u) PROVE u # t /\ Contains(list, u)
    <3>1. PICK i \in DOMAIN new : new[i] = u
      BY <2>1, <1>3 DEF Contains
    <3>2. PICK j \in DOMAIN list : j # k /\ list[j] = u
      BY <3>1, <1>1, <1>2, <1>3
    <3> QED
      BY <3>2, <1>1, <1>3 DEF Once, Contains
  <2>2. ASSUME u # t, Contains(list, u) PROVE Contains(new, u)
    <3>1. PICK i \in DOMAIN list : list[i] = u
      BY <2>2, <1>3 DEF Contains
    <3>2. i < k \/ i > k
      BY <3>1, <2>2, <1>1, <1>3
    <3> QED
      BY <3>1, <3>2, <1>2, <1>3 DEF Contains
  <2> QED
    BY <2>1, <2>2
<1>7. \A u, v : Before(list, u, v) /\ u # t /\ v # t => Before(new, u, v)
  <2> SUFFICES ASSUME NEW u, NEW v, Before(list, u, v), u # t, v # t PROVE Before(new, u, v)
    OBVIOUS
  <2>1. PICK i \in DOMAIN list, j \in DOMAIN list : i <= j /\ list[i] = u /\ list[j] = v
    BY DEF Before
  <2> DEFINE at(n) == IF n < k THEN n ELSE n - 1
  <2>2. ASSUME NEW n \in DOMAIN list, n # k
        PROVE  at(n) \in DOMAIN new /\ new[at(n)] = list[n]
    <3>1. n < k \/ (n > k /\ ~(n < k))
      BY <2>2, <1>1, <1>3
    <3> QED
      BY <3>1, <1>2
  <2>3. i # k /\ j # k
    BY <2>1, <1>1
  <2>4. at(i) <= at(j)
    <3>1. i \in Int /\ j \in Int /\ k \in Int
      BY <2>1, <1>1, <1>3
    <3> QED
      BY <3>1, <2>1, <2>3
  <2> HIDE DEF at
  <2> QED
    BY <2>1, <2>2, <2>3, <2>4 DEF Before
<1> QED
  BY <1>2, <1>4, <1>5, <1>6, <1>7

-----------------------------------------------------------------------------
(* The wheel.                                                                  *)

Positions == 0 .. WheelSize - 1

TimerState == [allocated : BOOLEAN, mode : {"stopped", "running", "expired"},
               duration : 0 .. TimeMod - 1, timeout : 0 .. TimeMod - 1,
               callback : BOOLEAN]

RunningIn(tm) == {t \in Timer : tm[t].mode = "running"}

\* Each timer that runs is in the list of its timeout, once, and in no other.
WheelOK(wheel, tm) ==
  /\ wheel \in [Positions -> Seq(Timer)]
  /\ \A p \in Positions :
       /\ Once(wheel[p])
       /\ \A t \in Timer : Contains(wheel[p], t)
                             <=> t \in RunningIn(tm) /\ Position(tm[t].timeout) = p

\* From old to new the order of the timers other than t stays what it was.
OrderKept(old, new, t) ==
  \A p \in Positions, u, v \in Timer :
    Before(old[p], u, v) /\ u # t /\ v # t => Before(new[p], u, v)

\* timeout & WHEEL_MASK
LEMMA PositionType ==
  ASSUME NEW x \in 0 .. TimeMod - 1
  PROVE  Position(x) \in Positions
<1>1. TimeMod \in Nat
  BY TimersAssumption DEF TimeMod
<1>2. x \in Nat
  BY <1>1
<1> QED
  BY <1>2, TimersAssumption DEF Position, Positions

\* A timer that leaves its list, if it is in one (pop in stop_timer_).
LEMMA PoppedWheel ==
  ASSUME WheelOK(time_wheel, timer), timer \in [Timer -> TimerState], NEW t \in Timer
  PROVE  /\ Popped(t) \in [Positions -> Seq(Timer)]
         /\ \A p \in Positions :
              /\ Once(Popped(t)[p])
              /\ \A u \in Timer : Contains(Popped(t)[p], u)
                                    <=> u # t /\ Contains(time_wheel[p], u)
         /\ OrderKept(time_wheel, Popped(t), t)
<1>1. CASE ~Running(t)
  <2>1. Popped(t) = time_wheel
    BY <1>1 DEF Popped
  <2>2. \A p \in Positions : ~Contains(time_wheel[p], t)
    BY <1>1 DEF WheelOK, RunningIn, Running
  <2> QED
    BY <2>1, <2>2 DEF WheelOK, OrderKept
<1>2. CASE Running(t)
  <2> DEFINE q == Position(timer[t].timeout)
             new == Unlinked(time_wheel[q], t)
  <2>1. q \in Positions
    BY PositionType DEF TimerState
  <2>2. /\ time_wheel \in [Positions -> Seq(Timer)]
        /\ \A p \in Positions : Once(time_wheel[p])
        /\ \A p \in Positions : Contains(time_wheel[p], t) <=> p = q
    BY <1>2 DEF WheelOK, RunningIn, Running
  <2>3. Popped(t) = [time_wheel EXCEPT ![q] = new]
    BY <1>2 DEF Popped
  <2>4. /\ new \in Seq(Timer) /\ Once(new)
        /\ \A u : Contains(new, u) <=> u # t /\ Contains(time_wheel[q], u)
        /\ \A u, v : Before(time_wheel[q], u, v) /\ u # t /\ v # t => Before(new, u, v)
    BY <2>1, <2>2, PoppedList
  <2> HIDE DEF new, q
  <2>5. /\ Popped(t) \in [Positions -> Seq(Timer)]
        /\ Popped(t)[q] = new
        /\ \A p \in Positions : p # q => Popped(t)[p] = time_wheel[p]
    BY <2>1, <2>2, <2>3, <2>4
  <2>6. OrderKept(time_wheel, Popped(t), t)
    BY <2>4, <2>5 DEF OrderKept
  <2>7. ASSUME NEW p \in Positions
        PROVE  /\ Once(Popped(t)[p])
               /\ \A u \in Timer : Contains(Popped(t)[p], u)
                                     <=> u # t /\ Contains(time_wheel[p], u)
    <3>1. CASE p = q
      BY <3>1, <2>4, <2>5
    <3>2. CASE p # q
      BY <3>2, <2>2, <2>5
    <3> QED
      BY <3>1, <3>2
  <2> QED
    BY <2>5, <2>6, <2>7
<1> QED
  BY <1>1, <1>2

\* The state of a timer after start_run_.
Started(t, d, cb) == [timer[t] EXCEPT !.mode = "running", !.duration = d,
                          !.timeout = (cur_time + d) % TimeMod, !.callback = cb]

\* start_run_ keeps the lists, the counter and the other timers as they should be.
LEMMA StartRunKeeps ==
  ASSUME WheelOK(time_wheel, timer), timer \in [Timer -> TimerState],
         cur_time \in 0 .. TimeMod - 1, nof_timers_running \in Int,
         NEW t \in Timer, NEW d \in 0 .. TimeMod - 1, NEW cb \in BOOLEAN,
         StartRun(t, d, cb)
  PROVE  /\ WheelOK(time_wheel', timer') /\ timer' \in [Timer -> TimerState]
         /\ OrderKept(time_wheel, time_wheel', t)
         /\ \A u \in Timer \ {t} : timer'[u] = timer[u]
         /\ timer'[t] = Started(t, d, cb)
         /\ nof_timers_running' = nof_timers_running + (IF Running(t) THEN 0 ELSE 1)
<1> DEFINE timeout == (cur_time + d) % TimeMod
           q == Position(timeout)
<1>0. TimeMod \in Nat \ {0}
  BY TimersAssumption DEF TimeMod
<1>1. timeout \in 0 .. TimeMod - 1
  BY <1>0
<1>2. q \in Positions
  BY <1>1, PositionType
<1>3. timer' = [timer EXCEPT ![t] = [timer[t] EXCEPT !.mode = "running", !.duration = d,
                                         !.timeout = timeout, !.callback = cb]]
  BY DEF StartRun
<1>4. /\ timer'[t] = [timer[t] EXCEPT !.mode = "running", !.duration = d,
                          !.timeout = timeout, !.callback = cb]
      /\ \A u \in Timer \ {t} : timer'[u] = timer[u]
      /\ timer' \in [Timer -> TimerState]
  BY <1>1, <1>3 DEF TimerState
<1>5. timer'[t].mode = "running" /\ timer'[t].timeout = timeout
  BY <1>4 DEF TimerState
<1>6. RunningIn(timer') = RunningIn(timer) \cup {t}
  BY <1>4, <1>5 DEF RunningIn
<1>7. CASE Running(t) /\ Position(timer[t].timeout) = q
  <2>1. UNCHANGED <<time_wheel, nof_timers_running>>
    BY <1>7 DEF StartRun
  <2>2. RunningIn(timer') = RunningIn(timer) /\ t \in RunningIn(timer)
    BY <1>6, <1>7 DEF RunningIn, Running
  <2>3. \A u \in Timer : Position(timer'[u].timeout) = Position(timer[u].timeout)
    BY <1>4, <1>5, <1>7
  <2>4. WheelOK(time_wheel', timer')
    BY <2>1, <2>2, <2>3 DEF WheelOK
  <2>5. nof_timers_running' = nof_timers_running + (IF Running(t) THEN 0 ELSE 1)
    BY <2>1, <1>7
  <2> QED
    BY <1>4, <2>1, <2>4, <2>5 DEF OrderKept, Started
<1>8. CASE ~(Running(t) /\ Position(timer[t].timeout) = q)
  <2> DEFINE pop == Popped(t)
             new == <<t>> \o pop[q]
  <2>1. /\ time_wheel' = [pop EXCEPT ![q] = new]
        /\ nof_timers_running' = nof_timers_running + (IF Running(t) THEN 0 ELSE 1)
    BY <1>8 DEF StartRun
  <2>2. /\ pop \in [Positions -> Seq(Timer)]
        /\ \A p \in Positions :
              /\ Once(pop[p])
              /\ \A u \in Timer : Contains(pop[p], u)
                                    <=> u # t /\ Contains(time_wheel[p], u)
        /\ OrderKept(time_wheel, pop, t)
    BY PoppedWheel
  <2> HIDE DEF pop
  <2>3. /\ new \in Seq(Timer) /\ Once(new)
        /\ \A u : Contains(new, u) <=> u = t \/ Contains(pop[q], u)
        /\ \A u, v : Before(pop[q], u, v) => Before(new, u, v)
    <3>1. pop[q] \in Seq(Timer) /\ Once(pop[q]) /\ ~Contains(pop[q], t)
      BY <1>2, <2>2
    <3> QED
      BY <3>1, PushedList
  <2> HIDE DEF new, q, timeout
  <2>4. /\ time_wheel' \in [Positions -> Seq(Timer)]
        /\ time_wheel'[q] = new
        /\ \A p \in Positions : p # q => time_wheel'[p] = pop[p]
    BY <1>2, <2>1, <2>2, <2>3
  <2>5. OrderKept(time_wheel, time_wheel', t)
    BY <2>2, <2>3, <2>4 DEF OrderKept
  <2>6. ASSUME NEW p \in Positions
        PROVE  /\ Once(time_wheel'[p])
               /\ \A u \in Timer : Contains(time_wheel'[p], u)
                     <=> u \in RunningIn(timer') /\ Position(timer'[u].timeout) = p
    <3>1. Once(time_wheel'[p])
      BY <2>2, <2>3, <2>4
    <3>2. ASSUME NEW u \in Timer, u # t
          PROVE  Contains(time_wheel'[p], u)
                   <=> u \in RunningIn(timer') /\ Position(timer'[u].timeout) = p
      <4>1. Contains(time_wheel'[p], u) <=> Contains(time_wheel[p], u)
        BY <3>2, <2>2, <2>3, <2>4
      <4> QED
        BY <4>1, <3>2, <1>4, <1>6 DEF WheelOK
    <3>3. Contains(time_wheel'[p], t) <=> p = q
      BY <2>2, <2>3, <2>4
    <3>4. t \in RunningIn(timer') /\ Position(timer'[t].timeout) = q
      BY <1>5, <1>6 DEF q
    <3> QED
      BY <3>1, <3>2, <3>3, <3>4
  <2>7. WheelOK(time_wheel', timer')
    BY <2>4, <2>6 DEF WheelOK
  <2> QED
    BY <1>4, <2>1, <2>5, <2>7 DEF timeout, Started
<1> QED
  BY <1>7, <1>8

\* A timer that stops running, whatever becomes of it, leaves its list (stop_timer_,
\* dealloc_timer_).
LEMMA LeavingKeeps ==
  ASSUME WheelOK(time_wheel, timer), timer \in [Timer -> TimerState], NEW t \in Timer,
         NEW tm \in [Timer -> TimerState], tm[t].mode # "running",
         \A u \in Timer \ {t} : tm[u] = timer[u]
  PROVE  /\ WheelOK(Popped(t), tm)
         /\ RunningIn(tm) = RunningIn(timer) \ {t}
<1>1. RunningIn(tm) = RunningIn(timer) \ {t}
  BY DEF RunningIn
<1>2. /\ Popped(t) \in [Positions -> Seq(Timer)]
      /\ \A p \in Positions :
            /\ Once(Popped(t)[p])
            /\ \A u \in Timer : Contains(Popped(t)[p], u)
                                  <=> u # t /\ Contains(time_wheel[p], u)
  BY PoppedWheel
<1>3. ASSUME NEW p \in Positions, NEW u \in Timer
      PROVE  Contains(Popped(t)[p], u)
               <=> u \in RunningIn(tm) /\ Position(tm[u].timeout) = p
  <2>1. CASE u = t
    BY <2>1, <1>1, <1>2
  <2>2. CASE u # t
    BY <2>2, <1>1, <1>2 DEF WheelOK
  <2> QED
    BY <2>1, <2>2
<1> QED
  BY <1>1, <1>2, <1>3 DEF WheelOK

\* next_node of a timer: the rest of the list is found from it on.
LEMMA NextKeeps ==
  ASSUME WheelOK(time_wheel, timer), timer \in [Timer -> TimerState], NEW t \in Timer
  PROVE  LET n == NextElement(t)
             p == Position(timer[t].timeout)
         IN  /\ n \in Timer \cup {NoTimer}
             /\ ~Running(t) => n = NoTimer
             /\ Running(t) /\ n = NoTimer =>
                  \A u \in Timer : Before(time_wheel[p], t, u) => u = t
             /\ Running(t) /\ n # NoTimer =>
                  /\ n # t /\ Contains(time_wheel[p], n)
                  /\ \A u \in Timer : Before(time_wheel[p], t, u) =>
                                        u = t \/ Before(time_wheel[p], n, u)
<1> DEFINE n == NextElement(t)
           q == Position(timer[t].timeout)
           list == time_wheel[q]
<1>0. DOMAIN time_wheel = Positions /\ q \in Positions
  BY PositionType DEF WheelOK, TimerState
<1>1. CASE ~Running(t)
  <2>1. \A p \in Positions : ~Contains(time_wheel[p], t)
    BY <1>1 DEF WheelOK, RunningIn, Running
  <2> QED
    BY <1>0, <1>1, <2>1 DEF NextElement
<1>2. CASE Running(t)
  <2>1. \A p \in Positions : Contains(time_wheel[p], t) <=> p = q
    BY <1>2 DEF WheelOK, RunningIn, Running
  <2>2. list \in Seq(Timer) /\ Once(list)
    BY <1>0 DEF WheelOK
  <2>3. ListOf(t) = list
    <3>1. \A p \in Positions : p = q <=> p = CHOOSE r \in DOMAIN time_wheel : Contains(time_wheel[r], t)
      BY <1>0, <2>1
    <3> QED
      BY <1>0, <3>1 DEF ListOf
  <2> DEFINE k == CHOOSE i \in DOMAIN list : list[i] = t
  <2>4. k \in DOMAIN list /\ list[k] = t
    BY <1>0, <2>1, <2>2 DEF Contains
  <2> HIDE DEF k
  <2>5. Len(list) \in Nat /\ DOMAIN list = 1 .. Len(list)
    BY <2>2
  <2>6. n = IF list[Len(list)] = t THEN NoTimer ELSE list[1 + k]
    BY <1>0, <2>1, <2>3 DEF NextElement, Last, k
  <2> HIDE DEF list, n, q
  <2>7. ASSUME NEW u \in Timer, Before(list, t, u)
        PROVE  \E j \in DOMAIN list : k <= j /\ list[j] = u
    BY <2>4, <2>5, <2>7, <2>2 DEF Before, Once
  <2>8. CASE list[Len(list)] = t
    <3>1. k = Len(list)
      BY <2>8, <2>4, <2>5, <2>2 DEF Once
    <3>2. \A u \in Timer : Before(list, t, u) => u = t
      BY <3>1, <2>4, <2>5, <2>7
    <3>3. n = NoTimer
      BY <2>8, <2>6
    <3> QED
      BY <1>2, <3>2, <3>3 DEF n, list, q
  <2>9. CASE list[Len(list)] # t
    <3>1. 1 + k \in DOMAIN list
      BY <2>9, <2>4, <2>5
    <3>2. n = list[1 + k] /\ n \in Timer
      BY <2>9, <3>1, <2>2, <2>6
    <3>3. n # t
      BY <3>1, <3>2, <2>4, <2>5, <2>2 DEF Once
    <3>4. Contains(list, n)
      BY <3>1, <3>2, <2>5 DEF Contains
    <3>5. ASSUME NEW u \in Timer, Before(list, t, u), u # t
          PROVE  Before(list, n, u)
      <4>1. PICK j \in DOMAIN list : k <= j /\ list[j] = u
        BY <3>5, <2>7
      <4>2. 1 + k <= j
        BY <4>1, <3>5, <2>4, <2>5
      <4> QED
        BY <4>1, <4>2, <3>1, <3>2 DEF Before
    <3>6. n # NoTimer
      BY <3>2, TimersAssumption
    <3> QED
      BY <1>2, <3>2, <3>3, <3>4, <3>5, <3>6 DEF n, list, q
  <2> QED
    BY <2>8, <2>9
<1> QED
  BY <1>1, <1>2

-----------------------------------------------------------------------------
(* The lists, the counter and the free list.                                   *)

FreeOK ==
  /\ free_list \in Seq(Timer) /\ Once(free_list)
  /\ \A t \in Timer : Contains(free_list, t) <=> ~timer[t].allocated

CountOK == nof_timers_running = Cardinality(RunningIn(timer))

TimersInv == TimersTypeOK /\ WheelOK(time_wheel, timer) /\ FreeOK /\ CountOK

\* nof_timers_running counts the timers that run, one more or one less.
LEMMA CountKeeps ==
  ASSUME CountOK, NEW t \in Timer
  PROVE  /\ nof_timers_running \in Nat
         /\ nof_timers_running + (IF Running(t) THEN 0 ELSE 1)
              = Cardinality(RunningIn(timer) \cup {t})
         /\ nof_timers_running - (IF Running(t) THEN 1 ELSE 0)
              = Cardinality(RunningIn(timer) \ {t})
<1>1. IsFiniteSet(RunningIn(timer))
  BY FS_Subset, TimersAssumption DEF RunningIn
<1>2. Cardinality(RunningIn(timer)) \in Nat
  BY <1>1, FS_CardinalityType
<1>3. Running(t) <=> t \in RunningIn(timer)
  BY DEF Running, RunningIn
<1>4. Cardinality(RunningIn(timer) \cup {t})
        = IF t \in RunningIn(timer) THEN Cardinality(RunningIn(timer))
                                    ELSE Cardinality(RunningIn(timer)) + 1
  BY <1>1, FS_AddElement
<1>5. Cardinality(RunningIn(timer) \ {t})
        = IF t \in RunningIn(timer) THEN Cardinality(RunningIn(timer)) - 1
                                    ELSE Cardinality(RunningIn(timer))
  BY <1>1, FS_RemoveElement
<1> QED
  BY <1>2, <1>3, <1>4, <1>5 DEF CountOK

\* alloc_timers: at first all timers are in the free list.
LEMMA TimersInvInit == TimersInit => TimersInv
<1> SUFFICES ASSUME TimersInit PROVE TimersInv
  OBVIOUS
<1>0. TimeMod \in Nat \ {0} /\ 0 \in 0 .. TimeMod - 1
  BY TimersAssumption DEF TimeMod
<1>1. timer \in [Timer -> TimerState] /\ timer = [t \in Timer |-> Unused]
  BY <1>0 DEF TimersInit, TimerState, Unused
<1>2. TimersTypeOK
  BY <1>0, <1>1 DEF TimersInit, TimersTypeOK, TimerState
<1>3. RunningIn(timer) = {}
  BY <1>1 DEF RunningIn, Unused
<1>4. CountOK
  BY <1>3, FS_EmptySet DEF CountOK, TimersInit
<1>5. WheelOK(time_wheel, timer)
  BY <1>3 DEF WheelOK, TimersInit, Once, Contains, Positions
<1>6. FreeOK
  <2> DEFINE D == 1 .. Cardinality(Timer)
  <2>1. Cardinality(Timer) \in Nat
    BY FS_CardinalityType, TimersAssumption
  <2>2. free_list \in [D -> Timer] /\ \A i, j \in D : i # j => free_list[i] # free_list[j]
    BY DEF TimersInit, SetToSeqs
  <2>3. free_list \in Seq(Timer) /\ Len(free_list) = Cardinality(Timer) /\ DOMAIN free_list = D
    BY <2>1, <2>2
  <2>4. free_list \in Injection(D, Timer)
    BY <2>2 DEF Injection, IsInjective
  <2>5. IsFiniteSet(D) /\ Cardinality(D) = Cardinality(Timer)
    BY <2>1, FS_Interval
  <2>6. free_list \in Surjection(D, Timer)
    BY <2>4, <2>5, FS_Injection, TimersAssumption
  <2>7. \A t \in Timer : \E i \in D : free_list[i] = t
    BY <2>6 DEF Surjection
  <2>8. \A t \in Timer : Contains(free_list, t) /\ ~timer[t].allocated
    BY <2>3, <2>7, <1>1 DEF Contains, Unused
  <2> QED
    BY <2>2, <2>3, <2>8 DEF FreeOK, Once
<1> QED
  BY <1>2, <1>4, <1>5, <1>6 DEF TimersInv

\* The free list, while the same timers stay allocated.
LEMMA FreeKeeps ==
  ASSUME FreeOK, UNCHANGED free_list,
         \A t \in Timer : timer'[t].allocated = timer[t].allocated
  PROVE  FreeOK'
BY DEF FreeOK

\* start_run_ with the mutex held, by set or by run.
LEMMA StartRunInv ==
  ASSUME TimersInv, NEW t \in Timer, NEW d \in 0 .. TimeMod - 1, NEW cb \in BOOLEAN,
         StartRun(t, d, cb), UNCHANGED <<cur_time, free_list, step>>
  PROVE  TimersInv'
<1>1. /\ timer \in [Timer -> TimerState] /\ cur_time \in 0 .. TimeMod - 1
      /\ nof_timers_running \in Nat /\ WheelOK(time_wheel, timer) /\ CountOK
  BY CountKeeps DEF TimersInv, TimersTypeOK, TimerState
<1>2. /\ WheelOK(time_wheel', timer') /\ timer' \in [Timer -> TimerState]
      /\ \A u \in Timer \ {t} : timer'[u] = timer[u]
      /\ timer'[t] = Started(t, d, cb)
      /\ nof_timers_running' = nof_timers_running + (IF Running(t) THEN 0 ELSE 1)
  <2>1. nof_timers_running \in Int
    BY <1>1
  <2> QED
    BY <1>1, <2>1, StartRunKeeps
<1>0. timer'[t].allocated = timer[t].allocated /\ timer'[t].mode = "running"
  <2>1. timer[t] \in TimerState
    BY <1>1
  <2> QED
    BY <2>1, <1>2 DEF TimerState, Started
<1>3. \A u \in Timer : timer'[u].allocated = timer[u].allocated
  BY <1>0, <1>2
<1>4. RunningIn(timer') = RunningIn(timer) \cup {t}
  BY <1>0, <1>2 DEF RunningIn
<1>5. CountOK'
  <2>1. nof_timers_running' = Cardinality(RunningIn(timer) \cup {t})
    BY <1>1, <1>2, CountKeeps
  <2> QED
    BY <1>4, <2>1 DEF CountOK
<1>6. FreeOK'
  BY <1>3, FreeKeeps DEF TimersInv
<1>7. TimersTypeOK'
  BY <1>2 DEF TimersInv, TimersTypeOK, TimerState
<1> QED
  BY <1>2, <1>5, <1>6, <1>7 DEF TimersInv

\* A timer stops running, and nothing else happens to the others.
LEMMA LeavingInv ==
  ASSUME TimersInv, NEW t \in Timer, timer' \in [Timer -> TimerState],
         timer'[t].mode # "running", \A u \in Timer \ {t} : timer'[u] = timer[u],
         time_wheel' = Popped(t),
         nof_timers_running' = nof_timers_running - (IF Running(t) THEN 1 ELSE 0)
  PROVE  WheelOK(time_wheel', timer') /\ CountOK'
<1>1. timer \in [Timer -> TimerState] /\ WheelOK(time_wheel, timer) /\ CountOK
  BY DEF TimersInv, TimersTypeOK, TimerState
<1>2. WheelOK(Popped(t), timer') /\ RunningIn(timer') = RunningIn(timer) \ {t}
  BY <1>1, LeavingKeeps
<1>3. CountOK'
  BY <1>1, <1>2, CountKeeps DEF CountOK
<1> QED
  BY <1>2, <1>3

\* stop_timer_, by stop or by step_all.
LEMMA StopTimerInv ==
  ASSUME TimersInv, NEW t \in Timer, NEW mode \in {"stopped", "expired"},
         StopTimer(t, mode), UNCHANGED <<free_list>>
  PROVE  /\ timer' \in [Timer -> TimerState] /\ time_wheel' = Popped(t)
         /\ timer'[t].mode # "running" /\ \A u \in Timer \ {t} : timer'[u] = timer[u]
         /\ WheelOK(time_wheel', timer') /\ CountOK' /\ FreeOK'
<1>1. timer \in [Timer -> TimerState]
  BY DEF TimersInv, TimersTypeOK, TimerState
<1>2. /\ Stopped(t, mode) \in TimerState
      /\ Stopped(t, mode).mode # "running"
      /\ Stopped(t, mode).allocated = timer[t].allocated
  BY <1>1 DEF Stopped, TimerState, Running
<1>3. /\ timer' \in [Timer -> TimerState] /\ timer'[t] = Stopped(t, mode)
      /\ \A u \in Timer \ {t} : timer'[u] = timer[u]
  BY <1>1, <1>2 DEF StopTimer
<1>4. /\ time_wheel' = Popped(t)
      /\ nof_timers_running' = nof_timers_running - (IF Running(t) THEN 1 ELSE 0)
  BY DEF StopTimer
<1>5. WheelOK(time_wheel', timer') /\ CountOK'
  BY <1>2, <1>3, <1>4, LeavingInv
<1>6. \A u \in Timer : timer'[u].allocated = timer[u].allocated
  BY <1>2, <1>3
<1>7. FreeOK'
  BY <1>6, FreeKeeps DEF TimersInv
<1> QED
  BY <1>2, <1>3, <1>4, <1>5, <1>7

\* The state set leaves a timer in that is not running.
LEMMA FreshState ==
  ASSUME NEW d \in 0 .. TimeMod - 1, NEW cb \in BOOLEAN
  PROVE  LET fresh == [Unused EXCEPT !.allocated = TRUE, !.duration = d, !.callback = cb]
         IN  fresh \in TimerState /\ fresh.mode = "stopped" /\ fresh.allocated = TRUE
<1>1. 0 \in 0 .. TimeMod - 1
  BY TimersAssumption DEF TimeMod
<1> QED
  BY <1>1 DEF Unused, TimerState

\* Every operation of timer_handler, and every step of step_all, keeps the lists,
\* the counter and the free list in step with the states of the timers.
LEMMA TimersInvNext == TimersInv /\ [TimersNext]_timersVars => TimersInv'
<1> SUFFICES ASSUME TimersInv, [TimersNext]_timersVars PROVE TimersInv'
  OBVIOUS
<1>0. /\ TimeMod \in Nat /\ TimeMod > 1
  BY TimersAssumption DEF TimeMod
<1>1. /\ timer \in [Timer -> TimerState] /\ cur_time \in 0 .. TimeMod - 1
      /\ WheelOK(time_wheel, timer) /\ FreeOK /\ CountOK /\ TimersTypeOK
      /\ step \in [pc : {"idle", "scan", "callback"}, it : Timer \cup {NoTimer}]
  BY DEF TimersInv, TimersTypeOK, TimerState
<1>2. CASE Allocate
  <2> DEFINE h == Head(free_list)
  <2>1. /\ free_list \in Seq(Timer) /\ free_list # << >> /\ free_list' = Tail(free_list)
        /\ timer' = [timer EXCEPT ![h].allocated = TRUE]
        /\ UNCHANGED <<cur_time, time_wheel, nof_timers_running, step>>
    BY <1>1, <1>2 DEF Allocate, FreeOK
  <2>2. h \in Timer /\ h = free_list[1]
    BY <2>1
  <2> HIDE DEF h
  <2>3. /\ timer' \in [Timer -> TimerState] /\ timer'[h].allocated
        /\ timer'[h].mode = timer[h].mode /\ timer'[h].timeout = timer[h].timeout
        /\ \A u \in Timer \ {h} : timer'[u] = timer[u]
    <3> DEFINE new == [timer[h] EXCEPT !.allocated = TRUE]
    <3>1. timer' = [timer EXCEPT ![h] = new]
      BY <2>1
    <3>2. timer[h] \in TimerState
      BY <1>1, <2>2
    <3>3. /\ new \in TimerState /\ new.allocated = TRUE
          /\ new.mode = timer[h].mode /\ new.timeout = timer[h].timeout
      BY <3>2 DEF TimerState
    <3> HIDE DEF new
    <3> QED
      BY <1>1, <2>2, <3>1, <3>3
  <2>4. RunningIn(timer') = RunningIn(timer)
    BY <2>2, <2>3 DEF RunningIn
  <2>5. WheelOK(time_wheel', timer')
    <3>1. \A u \in Timer : timer'[u].timeout = timer[u].timeout
      BY <2>3
    <3> QED
      BY <1>1, <2>1, <2>4, <3>1 DEF WheelOK
  <2>6. CountOK'
    BY <1>1, <2>1, <2>4 DEF CountOK
  <2>7. FreeOK'
    <3>1. /\ free_list' \in Seq(Timer) /\ Len(free_list') = Len(free_list) - 1
          /\ \A i \in 1 .. Len(free_list) - 1 : free_list'[i] = free_list[i + 1]
      BY <2>1
    <3>2. Len(free_list) \in Nat /\ Len(free_list) > 0
      BY <2>1
    <3>3. /\ DOMAIN free_list = 1 .. Len(free_list)
          /\ DOMAIN free_list' = 1 .. Len(free_list) - 1
      BY <3>1, <2>1
    <3>4. Once(free_list')
      <4> SUFFICES ASSUME NEW i \in DOMAIN free_list', NEW j \in DOMAIN free_list',
                          free_list'[i] = free_list'[j]
                   PROVE  i = j
        BY DEF Once
      <4>1. /\ i + 1 \in DOMAIN free_list /\ j + 1 \in DOMAIN free_list
            /\ free_list[i + 1] = free_list[j + 1] /\ i \in Int /\ j \in Int
        BY <3>1, <3>2, <3>3
      <4>2. i + 1 = j + 1
        BY <4>1, <1>1 DEF FreeOK, Once
      <4> QED
        BY <4>1, <4>2
    <3>5. ASSUME NEW u \in Timer
          PROVE  Contains(free_list', u) <=> u # h /\ Contains(free_list, u)
      <4>1. ASSUME Contains(free_list', u) PROVE u # h /\ Contains(free_list, u)
        <5>1. PICK i \in 1 .. Len(free_list) - 1 : free_list[i + 1] = u
          BY <4>1, <3>1 DEF Contains
        <5>2. i + 1 \in DOMAIN free_list /\ 1 \in DOMAIN free_list /\ i + 1 # 1
          BY <5>1, <3>2, <3>3
        <5> QED
          BY <5>1, <5>2, <2>2, <3>3, <1>1 DEF FreeOK, Once, Contains
      <4>2. ASSUME u # h, Contains(free_list, u) PROVE Contains(free_list', u)
        <5>1. PICK i \in 1 .. Len(free_list) : free_list[i] = u
          BY <4>2 DEF Contains
        <5>2. i - 1 \in 1 .. Len(free_list) - 1 /\ i = (i - 1) + 1
          BY <5>1, <4>2, <2>2, <3>2
        <5> QED
          BY <5>1, <5>2, <3>1 DEF Contains
      <4> QED
        BY <4>1, <4>2
    <3> QED
      BY <3>1, <3>4, <3>5, <2>3, <1>1 DEF FreeOK
  <2> QED
    BY <1>1, <2>1, <2>3, <2>5, <2>6, <2>7 DEF TimersInv, TimersTypeOK, TimerState
<1>3. ASSUME NEW t \in Timer, Run(t) PROVE TimersInv'
  <2>1. timer[t].duration \in 0 .. TimeMod - 1 /\ timer[t].callback \in BOOLEAN
    BY <1>1 DEF TimerState
  <2>2. /\ StartRun(t, timer[t].duration, timer[t].callback)
        /\ UNCHANGED <<cur_time, free_list, step>>
    BY <1>3 DEF Run
  <2> QED
    BY <2>1, <2>2, StartRunInv
<1>4. ASSUME NEW t \in Timer, Stop(t) PROVE TimersInv'
  <2>1. StopTimer(t, "stopped") /\ UNCHANGED <<cur_time, free_list, step>>
    BY <1>4 DEF Stop
  <2>2. timer' \in [Timer -> TimerState] /\ WheelOK(time_wheel', timer') /\ CountOK' /\ FreeOK'
    BY <2>1, StopTimerInv
  <2> QED
    BY <1>1, <2>1, <2>2 DEF TimersInv, TimersTypeOK, TimerState
<1>5. ASSUME NEW t \in Timer, Release(t) PROVE TimersInv'
  <2>1. /\ timer[t].allocated /\ timer' = [timer EXCEPT ![t] = Unused]
        /\ time_wheel' = Popped(t)
        /\ nof_timers_running' = nof_timers_running - (IF Running(t) THEN 1 ELSE 0)
        /\ free_list' = <<t>> \o free_list
        /\ UNCHANGED <<cur_time, step>>
    BY <1>5 DEF Release
  <2>2. Unused \in TimerState /\ Unused.mode # "running" /\ ~Unused.allocated
    BY <1>0 DEF Unused, TimerState
  <2>3. /\ timer' \in [Timer -> TimerState] /\ timer'[t] = Unused
        /\ \A u \in Timer \ {t} : timer'[u] = timer[u]
    BY <1>1, <2>1, <2>2
  <2>4. WheelOK(time_wheel', timer') /\ CountOK'
    BY <2>1, <2>2, <2>3, LeavingInv
  <2>5. FreeOK'
    <3>1. free_list \in Seq(Timer) /\ Once(free_list) /\ ~Contains(free_list, t)
      BY <1>1, <2>1 DEF FreeOK
    <3>2. /\ free_list' \in Seq(Timer) /\ Once(free_list')
          /\ \A u : Contains(free_list', u) <=> u = t \/ Contains(free_list, u)
      BY <3>1, <2>1, PushedList
    <3>3. ASSUME NEW u \in Timer PROVE Contains(free_list', u) <=> ~timer'[u].allocated
      BY <1>1, <2>2, <2>3, <3>2 DEF FreeOK
    <3> QED
      BY <3>2, <3>3 DEF FreeOK
  <2> QED
    BY <1>1, <2>1, <2>3, <2>4, <2>5 DEF TimersInv, TimersTypeOK, TimerState
<1>6. ASSUME NEW t \in Timer, NEW d \in Durations, NEW given \in BOOLEAN, Set(t, d, given)
      PROVE  TimersInv'
  <2> DEFINE duration == IF d = 0 THEN 1 ELSE d
             callback == given \/ timer[t].callback
  <2>1. duration \in 0 .. TimeMod - 1 /\ callback \in BOOLEAN
    BY <1>0, TimersAssumption
  <2>2. /\ timer[t].allocated /\ UNCHANGED <<cur_time, free_list, step>>
    BY <1>6 DEF Set
  <2>3. CASE Running(t)
    <3>1. StartRun(t, duration, callback)
      BY <1>6, <2>3 DEF Set
    <3> QED
      BY <2>1, <2>2, <3>1, StartRunInv
  <2>4. CASE ~Running(t)
    <3> DEFINE fresh == [Unused EXCEPT !.allocated = TRUE, !.duration = duration,
                                       !.callback = callback]
    <3>1. /\ timer' = [timer EXCEPT ![t] = fresh]
          /\ UNCHANGED <<time_wheel, nof_timers_running>>
      BY <1>6, <2>4 DEF Set
    <3>2. fresh \in TimerState /\ fresh.mode = "stopped" /\ fresh.allocated = TRUE
      BY <2>1, FreshState
    <3> HIDE DEF fresh
    <3>3. /\ timer' \in [Timer -> TimerState] /\ timer'[t] = fresh
          /\ \A u \in Timer \ {t} : timer'[u] = timer[u]
      BY <1>1, <3>1, <3>2
    <3>4. RunningIn(timer') = RunningIn(timer) /\ t \notin RunningIn(timer)
      BY <2>4, <3>2, <3>3 DEF RunningIn, Running
    <3>5. WheelOK(time_wheel', timer')
      BY <1>1, <3>1, <3>3, <3>4 DEF WheelOK
    <3>6. CountOK'
      BY <1>1, <3>1, <3>4 DEF CountOK
    <3>7. \A u \in Timer : timer'[u].allocated = timer[u].allocated
      <4>1. timer[t].allocated \in BOOLEAN /\ timer'[t].allocated \in BOOLEAN
        BY <1>1, <3>3 DEF TimerState
      <4>2. timer[t].allocated = timer'[t].allocated
        BY <4>1, <2>2, <3>2, <3>3, Zenon
      <4> QED
        BY <4>2, <3>3
    <3>8. FreeOK'
      BY <1>1, <2>2, <3>7, FreeKeeps
    <3> QED
      BY <1>1, <2>2, <3>3, <3>5, <3>6, <3>8 DEF TimersInv, TimersTypeOK, TimerState
  <2> QED
    BY <2>3, <2>4
<1>7. CASE StepExpires
  <2>1. /\ step.it \in Timer /\ StopTimer(step.it, "expired")
        /\ step' = [pc |-> IF timer[step.it].callback THEN "callback" ELSE "scan",
                    it |-> NextElement(step.it)]
        /\ UNCHANGED <<cur_time, free_list>>
    BY <1>1, <1>7 DEF StepExpires
  <2>2. timer' \in [Timer -> TimerState] /\ WheelOK(time_wheel', timer') /\ CountOK' /\ FreeOK'
    BY <2>1, StopTimerInv
  <2>3. NextElement(step.it) \in Timer \cup {NoTimer}
    BY <1>1, <2>1, NextKeeps
  <2>4. step' \in [pc : {"idle", "scan", "callback"}, it : Timer \cup {NoTimer}]
    BY <2>1, <2>3
  <2> QED
    BY <1>1, <2>1, <2>2, <2>4 DEF TimersInv, TimersTypeOK, TimerState
<1>8. ASSUME UNCHANGED <<timer, time_wheel, free_list, nof_timers_running>>,
             cur_time' \in 0 .. TimeMod - 1,
             step' \in [pc : {"idle", "scan", "callback"}, it : Timer \cup {NoTimer}]
      PROVE  TimersInv'
  <2>1. UNCHANGED timer /\ UNCHANGED time_wheel /\ UNCHANGED free_list
          /\ UNCHANGED nof_timers_running
    BY <1>8
  <2>2. FreeOK' /\ CountOK' /\ WheelOK(time_wheel', timer')
    BY <2>1, <1>1 DEF FreeOK, CountOK
  <2> QED
    BY <1>1, <1>8, <2>2 DEF TimersInv, TimersTypeOK
<1>9. Now \in 0 .. TimeMod - 1
  BY <1>0, <1>1 DEF Now
<1>10. CASE StepStart
  <2> DEFINE list == time_wheel[Position(Now)]
  <2>1. list \in Seq(Timer)
    BY <1>1, <1>9, PositionType DEF WheelOK
  <2>2. list # << >> => Head(list) \in Timer
    BY <2>1
  <2>3. step' \in [pc : {"idle", "scan", "callback"}, it : Timer \cup {NoTimer}]
    BY <1>10, <2>2 DEF StepStart
  <2> QED
    BY <1>1, <1>8, <1>10, <2>3 DEF StepStart
<1>11. CASE StepPasses
  <2>1. NextElement(step.it) \in Timer \cup {NoTimer}
    BY <1>1, <1>11, NextKeeps DEF StepPasses
  <2>2. step' \in [pc : {"idle", "scan", "callback"}, it : Timer \cup {NoTimer}]
    BY <1>1, <1>11, <2>1 DEF StepPasses
  <2> QED
    BY <1>1, <1>8, <1>11, <2>2 DEF StepPasses
<1>12. CASE CallbackReturns
  BY <1>1, <1>8, <1>12 DEF CallbackReturns
<1>13. CASE StepEnd
  BY <1>1, <1>8, <1>9, <1>13 DEF StepEnd
<1>14. CASE UNCHANGED timersVars
  BY <1>1, <1>8, <1>14 DEF timersVars
<1> QED
  BY <1>2, <1>3, <1>4, <1>5, <1>6, <1>7, <1>10, <1>11, <1>12, <1>13, <1>14 DEF TimersNext

\* Over all histories the state of the timer handler keeps its type, whatever
\* callers do to timers in callbacks.
THEOREM TimersTypeCorrect == TimersSpec => []TimersTypeOK
<1>1. TimersInv => TimersTypeOK
  BY DEF TimersInv
<1> QED
  BY <1>1, TimersInvInit, TimersInvNext, PTL DEF TimersSpec

\* The lists, the counter and the free list agree with the states of the timers
\* over all histories: no step of step_all, no callback and no other thread leaves a
\* timer in two lists, in the wrong one or in none, or miscounts.
THEOREM WheelAlwaysSound == TimersSpec => []WheelSound
<1>1. ASSUME TimersInv PROVE WheelSound
  <2>1. WheelOK(time_wheel, timer) /\ FreeOK /\ CountOK
    BY <1>1 DEF TimersInv
  <2>2. ASSUME NEW t \in Timer, NEW p \in DOMAIN time_wheel
        PROVE  Cardinality({i \in DOMAIN time_wheel[p] : time_wheel[p][i] = t})
                 = IF Running(t) /\ Position(timer[t].timeout) = p THEN 1 ELSE 0
    <3> DEFINE list == time_wheel[p]
               at == {i \in DOMAIN list : list[i] = t}
    <3>1. /\ list \in Seq(Timer) /\ Once(list)
          /\ Contains(list, t) <=> Running(t) /\ Position(timer[t].timeout) = p
      BY <2>1 DEF WheelOK, RunningIn, Running
    <3>2. DOMAIN list = 1 .. Len(list)
      BY <3>1
    <3> HIDE DEF list
    <3>3. CASE Contains(list, t)
      <4>1. PICK i \in DOMAIN list : list[i] = t
        BY <3>2, <3>3 DEF Contains
      <4>2. at = {i}
        BY <3>1, <4>1 DEF Once
      <4> QED
        BY <3>1, <3>3, <4>2, FS_Singleton DEF list
    <3>4. CASE ~Contains(list, t)
      <4>1. at = {}
        BY <3>2, <3>4 DEF Contains
      <4> QED
        BY <3>1, <3>4, <4>1, FS_EmptySet DEF list
    <3> QED
      BY <3>3, <3>4
  <2>3. nof_timers_running = Cardinality({t \in Timer : Running(t)})
    BY <2>1 DEF CountOK, RunningIn, Running
  <2> DEFINE D == 1 .. Len(free_list)
  <2>4. free_list \in Seq(Timer) /\ DOMAIN free_list = D /\ Len(free_list) \in Nat
    BY <2>1 DEF FreeOK
  <2>5. Range(free_list) = {t \in Timer : ~timer[t].allocated}
    <3>1. ASSUME NEW t \in Range(free_list) PROVE t \in Timer /\ Contains(free_list, t)
      BY <3>1, <2>4 DEF Range, Contains
    <3>2. ASSUME NEW t \in Timer, Contains(free_list, t) PROVE t \in Range(free_list)
      BY <3>2, <2>4 DEF Range, Contains
    <3> QED
      BY <3>1, <3>2, <2>1 DEF FreeOK
  <2>6. Len(free_list) = Cardinality(Range(free_list))
    <3> DEFINE R == Range(free_list)
    <3>1. free_list \in [D -> R] /\ \A y \in R : \E x \in D : free_list[x] = y
      BY <2>4 DEF Range
    <3>2. free_list \in Surjection(D, R)
      BY <3>1 DEF Surjection
    <3>3. free_list \in Injection(D, R)
      BY <3>1, <2>1, <2>4 DEF Injection, IsInjective, FreeOK, Once
    <3>4. IsFiniteSet(D) /\ Cardinality(D) = Len(free_list)
      BY <2>4, FS_Interval
    <3> HIDE DEF D, R
    <3>5. Cardinality(R) = Cardinality(D)
      BY <3>2, <3>3, <3>4, FS_Surjection
    <3> QED
      BY <3>4, <3>5 DEF R
  <2> QED
    BY <2>2, <2>3, <2>5, <2>6 DEF WheelSound
<1> QED
  BY <1>1, TimersInvInit, TimersInvNext, PTL DEF TimersSpec

-----------------------------------------------------------------------------
(* step_all and the time, if callers keep to MayTouch and LongEnough.          *)

\* The ticks from b until a (the test of timer_handler works on words that wrap).
LEMMA TicksFromTo ==
  ASSUME NEW a \in 0 .. TimeMod - 1, NEW b \in 0 .. TimeMod - 1
  PROVE  (a - b) % TimeMod = IF a >= b THEN a - b ELSE a - b + TimeMod
<1>1. TimeMod \in Nat \ {0}
  BY TimersAssumption DEF TimeMod
<1> QED
  BY <1>1

\* The tick d ticks after a: cur_time + duration in start_run_.
LEMMA TickAfter ==
  ASSUME NEW a \in 0 .. TimeMod - 1, NEW d \in 0 .. TimeMod - 1
  PROVE  /\ (a + d) % TimeMod \in 0 .. TimeMod - 1
         /\ (a + d) % TimeMod = IF a + d < TimeMod THEN a + d ELSE a + d - TimeMod
         /\ (((a + d) % TimeMod) - a) % TimeMod = d
<1>1. TimeMod \in Nat \ {0}
  BY TimersAssumption DEF TimeMod
<1>2. /\ (a + d) % TimeMod \in 0 .. TimeMod - 1
      /\ (a + d) % TimeMod = IF a + d < TimeMod THEN a + d ELSE a + d - TimeMod
  BY <1>1
<1>3. (((a + d) % TimeMod) - a) % TimeMod
        = IF (a + d) % TimeMod >= a THEN ((a + d) % TimeMod) - a
                                    ELSE ((a + d) % TimeMod) - a + TimeMod
  BY <1>2, TicksFromTo
<1> QED
  BY <1>1, <1>2, <1>3

\* cur_time_local of step_all is one tick ahead; only a timer for that very tick has
\* one tick left.
LEMMA OneTickLeft ==
  ASSUME cur_time \in 0 .. TimeMod - 1, NEW a \in 0 .. TimeMod - 1
  PROVE  /\ Now \in 0 .. TimeMod - 1
         /\ (a - cur_time) % TimeMod \in 0 .. TimeMod - 1
         /\ (a - cur_time) % TimeMod = 1 <=> a = Now
         /\ (a - cur_time) % TimeMod > 1 => (a - Now) % TimeMod = ((a - cur_time) % TimeMod) - 1
<1>1. TimeMod \in Nat /\ TimeMod > 1
  BY TimersAssumption DEF TimeMod
<1>2. 1 \in 0 .. TimeMod - 1
  BY <1>1
<1>3. /\ Now \in 0 .. TimeMod - 1
      /\ Now = IF cur_time + 1 < TimeMod THEN cur_time + 1 ELSE cur_time + 1 - TimeMod
  BY <1>2, TickAfter DEF Now
<1>4. (a - cur_time) % TimeMod = IF a >= cur_time THEN a - cur_time ELSE a - cur_time + TimeMod
  BY TicksFromTo
<1>5. (a - Now) % TimeMod = IF a >= Now THEN a - Now ELSE a - Now + TimeMod
  BY <1>3, TicksFromTo
<1> QED
  BY <1>1, <1>3, <1>4, <1>5

\* Between two steps step_all remembers no timer.  While it is under way, every
\* timer that expires in this tick is still to come in the list, from `it' on.
ScanOK ==
  /\ step.pc = "idle" => step.it = NoTimer
  /\ step.it # NoTimer => Contains(time_wheel[Position(Now)], step.it)
  /\ step.pc # "idle" => \A t \in Timer : Running(t) /\ timer[t].timeout = Now =>
         step.it # NoTimer /\ Before(time_wheel[Position(Now)], step.it, t)

CarefulInv == TimersInv /\ ScanOK /\ NoneOverdue

\* While the mutex is free, an operation on a timer that step_all is not about to
\* look at does not make it miss another (it is read after the callback returns).
LEMMA TouchKeepsScan ==
  ASSUME ~Careless, TimersInv, TimersInv', ScanOK, UNCHANGED <<cur_time, step>>,
         NEW t \in Timer, MayTouch(t),
         OrderKept(time_wheel, time_wheel', t),
         \A u \in Timer \ {t} : timer'[u] = timer[u],
         step.pc # "idle" => ~(timer'[t].mode = "running" /\ timer'[t].timeout = Now)
  PROVE  ScanOK'
<1>1. CASE step.pc = "idle"
  BY <1>1 DEF ScanOK
<1>2. CASE step.pc # "idle"
  <2> DEFINE p == Position(Now)
  <2>1. Now' = Now /\ step' = step /\ p \in Positions /\ step.it # t
    BY <1>2, OneTickLeft, PositionType DEF Now, MayTouch, TimersInv, TimersTypeOK
  <2>2. step.it \in Timer \cup {NoTimer}
    BY DEF TimersInv, TimersTypeOK
  <2>3. step.it # NoTimer => Contains(time_wheel'[p], step.it)
    <3> SUFFICES ASSUME step.it # NoTimer PROVE Contains(time_wheel'[p], step.it)
      OBVIOUS
    <3>1. step.it \in Timer /\ Contains(time_wheel[p], step.it)
      BY <2>2 DEF ScanOK
    <3>2. step.it \in RunningIn(timer) /\ Position(timer[step.it].timeout) = p
      BY <2>1, <3>1 DEF TimersInv, WheelOK
    <3>3. step.it \in RunningIn(timer') /\ Position(timer'[step.it].timeout) = p
      BY <2>1, <3>1, <3>2 DEF RunningIn
    <3>4. WheelOK(time_wheel', timer')
      BY DEF TimersInv
    <3> QED
      BY <2>1, <3>1, <3>3, <3>4 DEF WheelOK
  <2>4. ASSUME NEW u \in Timer, Running(u)', timer'[u].timeout = Now
        PROVE  step.it # NoTimer /\ Before(time_wheel'[p], step.it, u)
    <3>1. u # t
      BY <1>2, <2>4 DEF Running
    <3>2. Running(u) /\ timer[u].timeout = Now
      BY <3>1, <2>4 DEF Running
    <3>3. step.it # NoTimer /\ Before(time_wheel[p], step.it, u)
      BY <1>2, <3>2 DEF ScanOK
    <3> QED
      BY <2>1, <2>2, <3>1, <3>3 DEF OrderKept
  <2> HIDE DEF p
  <2>5. p = Position(Now)'
    BY <2>1 DEF p, Position
  <2> QED
    BY <1>2, <2>1, <2>3, <2>4, <2>5 DEF ScanOK
<1> QED
  BY <1>1, <1>2

\* Every step keeps the timers that expire in a tick ahead of step_all, and the
\* tick of every running timer ahead of cur_time.
LEMMA CarefulNext ==
  ASSUME ~Careless, CarefulInv, [TimersNext]_timersVars
  PROVE  CarefulInv'
<1>0. TimeMod \in Nat /\ TimeMod > 1
  BY TimersAssumption DEF TimeMod
<1>1. TimersInv /\ TimersInv' /\ ScanOK /\ NoneOverdue
  BY TimersInvNext DEF CarefulInv
<1>2. /\ timer \in [Timer -> TimerState] /\ cur_time \in 0 .. TimeMod - 1
      /\ WheelOK(time_wheel, timer)
      /\ step \in [pc : {"idle", "scan", "callback"}, it : Timer \cup {NoTimer}]
      /\ Now \in 0 .. TimeMod - 1 /\ Position(Now) \in Positions
  BY <1>1, OneTickLeft, PositionType DEF TimersInv, TimersTypeOK, TimerState
\* set and run of a timer: its tick is further ahead than the one under way
<1>3. ASSUME NEW t \in Timer, NEW d \in 0 .. TimeMod - 1, NEW cb \in BOOLEAN,
             MayTouch(t), LongEnough(d), StartRun(t, d, cb),
             UNCHANGED <<cur_time, free_list, step>>
      PROVE  ScanOK' /\ NoneOverdue'
  <2>0. nof_timers_running \in Int
    <3>1. CountOK
      BY <1>1 DEF TimersInv
    <3>2. nof_timers_running \in Nat
      BY <1>3, <3>1, CountKeeps
    <3> QED
      BY <3>2
  <2>1. /\ OrderKept(time_wheel, time_wheel', t)
        /\ \A u \in Timer \ {t} : timer'[u] = timer[u]
        /\ timer'[t] = Started(t, d, cb)
    BY <1>2, <1>3, <2>0, StartRunKeeps
  <2>2. /\ timer'[t].timeout = (cur_time + d) % TimeMod /\ timer'[t].duration = d
    <3>1. timer[t] \in TimerState
      BY <1>2
    <3> QED
      BY <2>1, <3>1 DEF Started, TimerState
  <2>3. d >= 1 /\ (step.pc # "idle" => d > 1)
    BY <1>3 DEF LongEnough
  <2>4. /\ (timer'[t].timeout - cur_time) % TimeMod = d
        /\ timer'[t].timeout \in 0 .. TimeMod - 1
    BY <1>2, <2>2, TickAfter
  <2>5. step.pc # "idle" => timer'[t].timeout # Now
    BY <1>2, <2>3, <2>4, OneTickLeft
  <2>6. ScanOK'
    BY <1>1, <1>3, <2>1, <2>5, TouchKeepsScan
  <2>7. NoneOverdue'
    <3> SUFFICES ASSUME NEW u \in Timer, Running(u)'
                 PROVE  (timer'[u].timeout - cur_time') % TimeMod \in 1 .. timer'[u].duration
      BY DEF NoneOverdue
    <3>1. CASE u = t
      BY <3>1, <1>3, <2>2, <2>3, <2>4
    <3>2. CASE u # t
      BY <3>2, <1>1, <1>3, <2>1 DEF NoneOverdue, Running
    <3> QED
      BY <3>1, <3>2
  <2> QED
    BY <2>6, <2>7
\* a timer that does not run afterwards
<1>4. ASSUME NEW t \in Timer, MayTouch(t), UNCHANGED <<cur_time, step>>,
             OrderKept(time_wheel, time_wheel', t), timer'[t].mode # "running",
             \A u \in Timer \ {t} : timer'[u] = timer[u]
      PROVE  ScanOK' /\ NoneOverdue'
  <2>1. ScanOK'
    BY <1>1, <1>4, TouchKeepsScan
  <2>2. NoneOverdue'
    BY <1>1, <1>4 DEF NoneOverdue, Running
  <2> QED
    BY <2>1, <2>2
<1>5. \A t \in Timer : OrderKept(time_wheel, Popped(t), t)
  BY <1>2, PoppedWheel
<1>6. CASE Allocate
  <2> DEFINE h == Head(free_list)
  <2>1. h \in Timer
    BY <1>1, <1>6 DEF Allocate, TimersInv, FreeOK
  <2>2. /\ timer' = [timer EXCEPT ![h].allocated = TRUE]
        /\ UNCHANGED <<cur_time, time_wheel, step>>
    BY <1>6 DEF Allocate
  <2> HIDE DEF h
  <2>3. timer[h] \in TimerState
    BY <1>2, <2>1
  <2>4. \A u \in Timer : /\ timer'[u].mode = timer[u].mode
                         /\ timer'[u].timeout = timer[u].timeout
                         /\ timer'[u].duration = timer[u].duration
    BY <1>2, <2>1, <2>2, <2>3 DEF TimerState
  <2>5. Now' = Now /\ \A u \in Timer : Running(u)' <=> Running(u)
    BY <2>2, <2>4 DEF Now, Running
  <2>6. ScanOK'
    BY <1>1, <2>2, <2>4, <2>5 DEF ScanOK, Position
  <2>7. NoneOverdue'
    BY <1>1, <2>2, <2>4, <2>5 DEF NoneOverdue
  <2> QED
    BY <1>1, <2>6, <2>7 DEF CarefulInv
<1>7. ASSUME NEW t \in Timer, Run(t) PROVE CarefulInv'
  <2>1. timer[t].duration \in 0 .. TimeMod - 1 /\ timer[t].callback \in BOOLEAN
    BY <1>2 DEF TimerState
  <2>2. /\ StartRun(t, timer[t].duration, timer[t].callback) /\ MayTouch(t)
        /\ LongEnough(timer[t].duration) /\ UNCHANGED <<cur_time, free_list, step>>
    BY <1>7 DEF Run
  <2> QED
    BY <1>1, <1>3, <2>1, <2>2 DEF CarefulInv
<1>8. ASSUME NEW t \in Timer, Stop(t) PROVE CarefulInv'
  <2>1. StopTimer(t, "stopped") /\ UNCHANGED <<cur_time, free_list, step>> /\ MayTouch(t)
    BY <1>8 DEF Stop
  <2>2. /\ time_wheel' = Popped(t) /\ timer'[t].mode # "running"
        /\ \A u \in Timer \ {t} : timer'[u] = timer[u]
    BY <1>1, <2>1, StopTimerInv
  <2> QED
    BY <1>1, <1>4, <1>5, <2>1, <2>2 DEF CarefulInv
<1>9. ASSUME NEW t \in Timer, Release(t) PROVE CarefulInv'
  <2>1. /\ timer' = [timer EXCEPT ![t] = Unused] /\ time_wheel' = Popped(t)
        /\ UNCHANGED <<cur_time, step>> /\ MayTouch(t)
    BY <1>9 DEF Release
  <2>2. timer'[t].mode # "running" /\ \A u \in Timer \ {t} : timer'[u] = timer[u]
    BY <1>2, <2>1 DEF Unused
  <2> QED
    BY <1>1, <1>4, <1>5, <2>1, <2>2 DEF CarefulInv
<1>10. ASSUME NEW t \in Timer, NEW d \in Durations, NEW given \in BOOLEAN, Set(t, d, given)
       PROVE  CarefulInv'
  <2> DEFINE duration == IF d = 0 THEN 1 ELSE d
             callback == given \/ timer[t].callback
  <2>1. duration \in 0 .. TimeMod - 1 /\ callback \in BOOLEAN
    BY <1>0, TimersAssumption
  <2>2. MayTouch(t) /\ UNCHANGED <<cur_time, free_list, step>>
    BY <1>10 DEF Set
  <2>3. CASE Running(t)
    <3>1. StartRun(t, duration, callback) /\ LongEnough(duration)
      BY <1>10, <2>3 DEF Set
    <3> HIDE DEF duration, callback
    <3>2. ScanOK' /\ NoneOverdue'
      BY <1>3, <2>1, <2>2, <3>1
    <3> QED
      BY <1>1, <3>2 DEF CarefulInv
  <2>4. CASE ~Running(t)
    <3> DEFINE fresh == [Unused EXCEPT !.allocated = TRUE, !.duration = duration,
                                       !.callback = callback]
    <3>1. timer' = [timer EXCEPT ![t] = fresh] /\ UNCHANGED time_wheel
      BY <1>10, <2>4 DEF Set
    <3>2. fresh.mode = "stopped"
      BY <2>1, FreshState
    <3> HIDE DEF fresh
    <3>3. timer'[t].mode # "running" /\ \A u \in Timer \ {t} : timer'[u] = timer[u]
      BY <1>2, <3>1, <3>2
    <3>4. OrderKept(time_wheel, time_wheel', t)
      BY <3>1 DEF OrderKept
    <3> QED
      BY <1>1, <1>4, <2>2, <3>3, <3>4 DEF CarefulInv
  <2> QED
    BY <2>3, <2>4
<1> DEFINE list == time_wheel[Position(Now)]
<1>11. list \in Seq(Timer) /\ Once(list)
  BY <1>2 DEF WheelOK
<1>12. \A t \in Timer : Running(t) /\ timer[t].timeout = Now => Contains(list, t)
  BY <1>2 DEF WheelOK, RunningIn, Running
<1>13. CASE StepStart
  <2>1. /\ step' = [pc |-> "scan", it |-> IF list = << >> THEN NoTimer ELSE Head(list)]
        /\ UNCHANGED <<cur_time, timer, time_wheel>>
    BY <1>13 DEF StepStart
  <2>2. list # << >> =>
          /\ Head(list) = list[1] /\ Head(list) \in Timer /\ 1 \in DOMAIN list
          /\ Contains(list, Head(list))
    BY <1>11 DEF Contains
  <2>3. ASSUME NEW t \in Timer, Contains(list, t)
        PROVE  list # << >> /\ Before(list, Head(list), t)
    <3>1. PICK j \in 1 .. Len(list) : list[j] = t
      BY <2>3 DEF Contains
    <3>2. DOMAIN list = 1 .. Len(list) /\ Len(list) \in Nat
      BY <1>11
    <3>3. list # << >>
      BY <3>1, <3>2
    <3>4. 1 <= j /\ j \in DOMAIN list
      BY <3>1, <3>2
    <3> HIDE DEF list
    <3> QED
      BY <2>2, <3>1, <3>3, <3>4 DEF Before
  <2> HIDE DEF list
  <2>4. Now' = Now /\ list' = list /\ \A u \in Timer : Running(u)' <=> Running(u)
    BY <2>1 DEF Now, Running, list, Position
  <2>5. step'.pc = "scan" /\ step'.it = IF list = << >> THEN NoTimer ELSE Head(list)
    BY <2>1
  <2>6. Head(list) \in Timer => Head(list) # NoTimer
    BY TimersAssumption
  <2>7. ScanOK'
    <3>1. step'.it # NoTimer => Contains(list', step'.it)
      BY <2>2, <2>4, <2>5
    <3>2. ASSUME NEW u \in Timer, Running(u)', timer'[u].timeout = Now'
          PROVE  step'.it # NoTimer /\ Before(list', step'.it, u)
      <4>1. list # << >> /\ Before(list, Head(list), u)
        BY <1>12, <2>1, <2>3, <2>4, <3>2
      <4> QED
        BY <4>1, <2>2, <2>4, <2>5, <2>6
    <3> QED
      BY <2>5, <3>1, <3>2 DEF ScanOK, list
  <2>8. NoneOverdue'
    BY <1>1, <2>1, <2>4 DEF NoneOverdue
  <2> QED
    BY <1>1, <2>7, <2>8 DEF CarefulInv
\* the element that step_all looks at, and the one after it
<1> DEFINE n == NextElement(step.it)
<1>14. ASSUME step.it # NoTimer
       PROVE  /\ step.it \in Timer /\ Running(step.it)
              /\ n \in Timer \cup {NoTimer}
              /\ n = NoTimer => \A u \in Timer : Before(list, step.it, u) => u = step.it
              /\ n # NoTimer =>
                   /\ n # step.it /\ Contains(list, n)
                   /\ \A u \in Timer : Before(list, step.it, u) =>
                                         u = step.it \/ Before(list, n, u)
  <2>1. step.it \in Timer /\ Contains(list, step.it)
    BY <1>1, <1>2, <1>14 DEF ScanOK
  <2>2. Running(step.it) /\ Position(timer[step.it].timeout) = Position(Now)
    BY <1>2, <2>1 DEF WheelOK, RunningIn, Running
  <2> QED
    BY <1>2, <2>1, <2>2, NextKeeps
<1> HIDE DEF n, list
<1>15. CASE StepPasses
  <2>1. /\ step.pc = "scan" /\ step.it # NoTimer /\ timer[step.it].timeout # Now
        /\ step'.pc = "scan" /\ step'.it = n
        /\ UNCHANGED <<cur_time, timer, time_wheel>>
    BY <1>2, <1>15 DEF StepPasses, n
  <2>2. Now' = Now /\ list' = list /\ \A u \in Timer : Running(u)' <=> Running(u)
    BY <2>1 DEF Now, Running, list, Position
  <2>3. ASSUME NEW u \in Timer, Running(u), timer[u].timeout = Now
        PROVE  n # NoTimer /\ Before(list, n, u)
    <3>1. Before(list, step.it, u)
      BY <1>1, <2>1, <2>3 DEF ScanOK, list
    <3> QED
      BY <1>14, <2>1, <2>3, <3>1
  <2>4. ScanOK'
    <3>1. step'.it # NoTimer => Contains(list', step'.it)
      BY <1>14, <2>1, <2>2
    <3>2. ASSUME NEW u \in Timer, Running(u)', timer'[u].timeout = Now'
          PROVE  step'.it # NoTimer /\ Before(list', step'.it, u)
      BY <2>1, <2>2, <2>3, <3>2
    <3> QED
      BY <2>1, <3>1, <3>2 DEF ScanOK, list
  <2>5. NoneOverdue'
    BY <1>1, <2>1, <2>2 DEF NoneOverdue
  <2> QED
    BY <1>1, <2>4, <2>5 DEF CarefulInv
<1>16. CASE StepExpires
  <2>1. /\ step.pc = "scan" /\ step.it # NoTimer /\ timer[step.it].timeout = Now
        /\ step'.pc \in {"scan", "callback"} /\ step'.it = n
        /\ StopTimer(step.it, "expired") /\ UNCHANGED <<cur_time, free_list>>
    BY <1>2, <1>16 DEF StepExpires, n
  <2>2. /\ time_wheel' = Popped(step.it) /\ timer'[step.it].mode # "running"
        /\ \A u \in Timer \ {step.it} : timer'[u] = timer[u]
    BY <1>1, <1>14, <2>1, StopTimerInv
  <2>3. /\ \A u \in Timer : Contains(list', u) <=> u # step.it /\ Contains(list, u)
        /\ \A u, v \in Timer : Before(list, u, v) /\ u # step.it /\ v # step.it
                                 => Before(list', u, v)
        /\ Now' = Now
    <3>1. Now' = Now /\ list' = Popped(step.it)[Position(Now)]
      BY <2>1, <2>2 DEF Now, list, Position
    <3> QED
      BY <1>2, <1>14, <2>1, <3>1, PoppedWheel DEF OrderKept, list
  <2>4. ScanOK'
    <3>1. step'.it # NoTimer => Contains(list', step'.it)
      BY <1>14, <2>1, <2>3
    <3>2. ASSUME NEW u \in Timer, Running(u)', timer'[u].timeout = Now'
          PROVE  step'.it # NoTimer /\ Before(list', step'.it, u)
      <4>1. u # step.it /\ Running(u) /\ timer[u].timeout = Now
        BY <2>2, <2>3, <3>2 DEF Running
      <4>2. Before(list, step.it, u)
        BY <1>1, <2>1, <4>1 DEF ScanOK, list
      <4>3. n # NoTimer /\ n \in Timer /\ n # step.it /\ Before(list, n, u)
        BY <1>14, <2>1, <4>1, <4>2
      <4> QED
        BY <2>1, <2>3, <4>1, <4>3
    <3> QED
      BY <2>1, <3>1, <3>2 DEF ScanOK, list
  <2>5. NoneOverdue'
    BY <1>1, <2>1, <2>2 DEF NoneOverdue, Running
  <2> QED
    BY <1>1, <2>4, <2>5 DEF CarefulInv
<1>17. CASE CallbackReturns
  <2>1. /\ step.pc = "callback" /\ step'.pc = "scan" /\ step'.it = step.it
        /\ UNCHANGED <<cur_time, timer, time_wheel>>
    BY <1>2, <1>17 DEF CallbackReturns
  <2>2. Now' = Now /\ list' = list /\ \A u \in Timer : Running(u)' <=> Running(u)
    BY <2>1 DEF Now, Running, list, Position
  <2>3. ScanOK'
    BY <1>1, <2>1, <2>2 DEF ScanOK, list
  <2>4. NoneOverdue'
    BY <1>1, <2>1, <2>2 DEF NoneOverdue
  <2> QED
    BY <1>1, <2>3, <2>4 DEF CarefulInv
<1>18. CASE StepEnd
  <2>1. /\ step.pc = "scan" /\ step.it = NoTimer /\ step'.pc = "idle" /\ step'.it = NoTimer
        /\ cur_time' = Now /\ UNCHANGED timer
    BY <1>2, <1>18 DEF StepEnd
  <2>2. ScanOK'
    BY <2>1 DEF ScanOK
  <2>3. NoneOverdue'
    <3> SUFFICES ASSUME NEW u \in Timer, Running(u)
                 PROVE  (timer[u].timeout - Now) % TimeMod \in 1 .. timer[u].duration
      BY <2>1 DEF NoneOverdue, Running
    <3>1. timer[u].timeout # Now
      BY <1>1, <2>1 DEF ScanOK
    <3>2. /\ (timer[u].timeout - cur_time) % TimeMod \in 1 .. timer[u].duration
          /\ timer[u].duration \in 0 .. TimeMod - 1 /\ timer[u].timeout \in 0 .. TimeMod - 1
      BY <1>1, <1>2 DEF NoneOverdue, TimerState
    <3>3. /\ (timer[u].timeout - cur_time) % TimeMod \in 0 .. TimeMod - 1
          /\ (timer[u].timeout - cur_time) % TimeMod # 1
          /\ (timer[u].timeout - cur_time) % TimeMod > 1 =>
               (timer[u].timeout - Now) % TimeMod = ((timer[u].timeout - cur_time) % TimeMod) - 1
      BY <1>2, <3>1, <3>2, OneTickLeft
    <3> QED
      BY <1>0, <3>2, <3>3
  <2> QED
    BY <1>1, <2>2, <2>3 DEF CarefulInv
<1>19. CASE UNCHANGED timersVars
  <2>1. UNCHANGED cur_time /\ UNCHANGED timer /\ UNCHANGED time_wheel /\ UNCHANGED step
    BY <1>19 DEF timersVars
  <2>2. ScanOK' /\ NoneOverdue'
    BY <1>1, <2>1 DEF ScanOK, NoneOverdue, Running, Now, Position
  <2> QED
    BY <1>1, <2>2 DEF CarefulInv
<1> QED
  BY <1>6, <1>7, <1>8, <1>9, <1>10, <1>13, <1>15, <1>16, <1>17, <1>18, <1>19
  DEF TimersNext

\* At first no timer runs (the constructor of timer_handler).
LEMMA CarefulInit == TimersInit => CarefulInv
<1> SUFFICES ASSUME TimersInit PROVE CarefulInv
  OBVIOUS
<1>1. TimersInv
  BY TimersInvInit
<1>2. \A t \in Timer : ~Running(t)
  BY DEF TimersInit, Unused, Running
<1> QED
  BY <1>1, <1>2 DEF CarefulInv, ScanOK, NoneOverdue, TimersInit

\* If callers keep to MayTouch and LongEnough, no running timer is ever forgotten:
\* step_all reaches it in the tick for which it was started, also when callbacks
\* stop, release and restart others while it walks the list.
THEOREM NoTimerForgotten ==
  ASSUME ~Careless
  PROVE  TimersSpec => []NoneOverdue
<1>1. CarefulInv /\ [TimersNext]_timersVars => CarefulInv'
  BY CarefulNext
<1>2. CarefulInv => NoneOverdue
  BY DEF CarefulInv
<1> QED
  BY <1>1, <1>2, CarefulInit, PTL DEF TimersSpec

\* Under the same rules step_all calls back only timers that were running until it
\* stopped them itself: one stopped or released by an earlier callback is silent.
THEOREM NoneCalledAfterStop ==
  ASSUME ~Careless
  PROVE  TimersSpec => OnlyExpiredCalled
<1>1. CarefulInv /\ [TimersNext]_timersVars => CarefulInv'
  BY CarefulNext
<1>2. ASSUME CarefulInv, [TimersNext]_timersVars
      PROVE  [step.pc = "scan" /\ step'.pc = "callback" => Running(step.it)]_timersVars
  <2> SUFFICES ASSUME step.pc = "scan", step'.pc = "callback" PROVE Running(step.it)
    OBVIOUS
  <2>0. step \in [pc : {"idle", "scan", "callback"}, it : Timer \cup {NoTimer}]
    BY <1>2 DEF CarefulInv, TimersInv, TimersTypeOK
  <2>1. step.it # NoTimer
    BY <1>2, <2>0 DEF TimersNext, Allocate, Run, Stop, Release, Set, StepStart, StepPasses,
       StepExpires, CallbackReturns, StepEnd, timersVars
  <2>2. step.it \in Timer /\ Contains(time_wheel[Position(Now)], step.it)
    BY <1>2, <2>0, <2>1 DEF CarefulInv, ScanOK
  <2>3. Position(Now) \in Positions
    BY <1>2, OneTickLeft, PositionType DEF CarefulInv, TimersInv, TimersTypeOK
  <2> QED
    BY <1>2, <2>2, <2>3 DEF CarefulInv, TimersInv, WheelOK, RunningIn, Running
<1> QED
  BY <1>1, <1>2, CarefulInit, PTL DEF TimersSpec, OnlyExpiredCalled
=============================================================================
