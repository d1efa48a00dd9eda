------------------------------- MODULE Timers -------------------------------
(***************************************************************************)
(* timer_handler in lib/include/srsran/common/timers.h: timers in a wheel  *)
(* of lists, indexed by the low bits of the tick at which they expire.     *)
(*                                                                         *)
(* Every operation holds the mutex.  step_all releases it only while it    *)
(* calls back; then the callback itself, or another thread, may use any    *)
(* timer, while step_all remembers the next element of its list.           *)
(***************************************************************************)
EXTENDS Integers, Sequences, FiniteSets, SequencesExt

CONSTANTS
  Timer,            \* timers in timer_list
  NoTimer,          \* nullptr
  WheelSize,        \* WHEEL_SIZE, 2^16
  Turns,            \* turns of the wheel until ticks wrap around, 2^16
  Durations,        \* values given to set
  Careless          \* callers need not keep to MayTouch and LongEnough

\* Ticks are words of 32 bits in the code.
TimeMod == Turns * WheelSize

ASSUME TimersAssumption ==
  /\ NoTimer \notin Timer /\ IsFiniteSet(Timer)
  /\ WheelSize \in Nat \ {0} /\ Turns \in Nat /\ TimeMod > 1
  /\ Durations \subseteq 0 .. TimeMod - 1
  /\ Careless \in BOOLEAN

VARIABLES
  cur_time,
  timer,            \* Timer -> [allocated, mode, duration, timeout, callback]
  time_wheel,       \* wheel position -> its list of timers
  free_list,
  nof_timers_running,
  step              \* step_all: [pc, it], it being the element it looks at next

timersVars == <<cur_time, timer, time_wheel, free_list, nof_timers_running, step>>

Position(timeout) == timeout % WheelSize

Unused == [allocated |-> FALSE, mode |-> "stopped", duration |-> 0, timeout |-> 0,
           callback |-> FALSE]

TimersInit ==
  /\ cur_time = 0
  /\ timer = [t \in Timer |-> Unused]
  /\ time_wheel = [p \in 0 .. WheelSize - 1 |-> << >>]
  /\ free_list \in SetToSeqs(Timer)
  /\ nof_timers_running = 0
  /\ step = [pc |-> "idle", it |-> NoTimer]

-----------------------------------------------------------------------------
Running(t) == timer[t].mode = "running"

\* The list t is in, and the element after t; an element in no list has no next.
ListOf(t) == time_wheel[CHOOSE p \in DOMAIN time_wheel : Contains(time_wheel[p], t)]

NextElement(t) ==
  IF \A p \in DOMAIN time_wheel : ~Contains(time_wheel[p], t) \/ Last(time_wheel[p]) = t
  THEN NoTimer
  ELSE ListOf(t)[1 + CHOOSE i \in DOMAIN ListOf(t) : ListOf(t)[i] = t]

\* Mutant: a timer that is stopped stays in its list.
PoppedMutant(t) == time_wheel

\* The list without the element t that is in it.
Unlinked(list, t) == RemoveAt(list, CHOOSE i \in DOMAIN list : list[i] = t)

\* The wheel without t, if it was running.
Popped(t) ==
  IF Running(t) THEN [time_wheel EXCEPT ![Position(timer[t].timeout)] = Unlinked(@, t)]
                ELSE time_wheel

\* Mutant: a running timer is pushed again without being popped.
StartRunMutant(t, d, callback) ==
  LET timeout == (cur_time + d) % TimeMod
  IN  /\ timer' = [timer EXCEPT ![t] = [@ EXCEPT !.mode = "running", !.duration = d,
                                             !.timeout = timeout, !.callback = callback]]
      /\ IF Running(t) /\ Position(timer[t].timeout) = Position(timeout)
         THEN UNCHANGED <<time_wheel, nof_timers_running>>
         ELSE /\ time_wheel' = [time_wheel EXCEPT ![Position(timeout)] = <<t>> \o @]
              /\ nof_timers_running' = nof_timers_running + (IF Running(t) THEN 0 ELSE 1)

\* start_run_: the lists change only if the position does.
StartRun(t, d, callback) ==
  LET timeout == (cur_time + d) % TimeMod
  IN  /\ timer' = [timer EXCEPT ![t] = [@ EXCEPT !.mode = "running", !.duration = d,
                                             !.timeout = timeout, !.callback = callback]]
      /\ IF Running(t) /\ Position(timer[t].timeout) = Position(timeout)
         THEN UNCHANGED <<time_wheel, nof_timers_running>>
         ELSE /\ time_wheel' = [Popped(t) EXCEPT ![Position(timeout)] = <<t>> \o @]
              /\ nof_timers_running' = nof_timers_running + (IF Running(t) THEN 0 ELSE 1)

\* stop_timer_: the state keeps the old timeout.
Stopped(t, mode) == IF Running(t) THEN [timer[t] EXCEPT !.mode = mode] ELSE timer[t]

StopTimer(t, mode) ==
  /\ timer' = [timer EXCEPT ![t] = Stopped(t, mode)]
  /\ time_wheel' = Popped(t)
  /\ nof_timers_running' = nof_timers_running - (IF Running(t) THEN 1 ELSE 0)

-----------------------------------------------------------------------------
(* The operations of unique_timer, in a callback of step_all or outside of it. *)

MutexFree == step.pc \in {"idle", "callback"}

\* step_all is not about to look at t.
MayTouch(t) == Careless \/ step.pc = "idle" \/ step.it # t

\* The tick at which a timer of d ticks expires is yet to be looked at.
LongEnough(d) == Careless \/ d > (IF step.pc = "idle" THEN 0 ELSE 1)

Allocate ==
  /\ MutexFree /\ free_list # << >>
  /\ free_list' = Tail(free_list)
  /\ timer' = [timer EXCEPT ![Head(free_list)].allocated = TRUE]
  /\ UNCHANGED <<cur_time, time_wheel, nof_timers_running, step>>

\* set, with a callback or leaving the one there is: extends a timer that is running.
Set(t, d, given) ==
  LET duration == IF d = 0 THEN 1 ELSE d
      callback == given \/ timer[t].callback
  IN  /\ MutexFree /\ timer[t].allocated /\ MayTouch(t)
      /\ IF Running(t)
         THEN LongEnough(duration) /\ StartRun(t, duration, callback)
         ELSE /\ timer' = [timer EXCEPT ![t] = [Unused EXCEPT !.allocated = TRUE,
                                                !.duration = duration, !.callback = callback]]
              /\ UNCHANGED <<time_wheel, nof_timers_running>>
      /\ UNCHANGED <<cur_time, free_list, step>>

Run(t) ==
  /\ MutexFree /\ timer[t].allocated /\ MayTouch(t) /\ LongEnough(timer[t].duration)
  /\ StartRun(t, timer[t].duration, timer[t].callback)
  /\ UNCHANGED <<cur_time, free_list, step>>

Stop(t) ==
  /\ MutexFree /\ timer[t].allocated /\ MayTouch(t)
  /\ StopTimer(t, "stopped")
  /\ UNCHANGED <<cur_time, free_list, step>>

\* release and dealloc_timer_
Release(t) ==
  /\ MutexFree /\ timer[t].allocated /\ MayTouch(t)
  /\ timer' = [timer EXCEPT ![t] = Unused]
  /\ time_wheel' = Popped(t)
  /\ nof_timers_running' = nof_timers_running - (IF Running(t) THEN 1 ELSE 0)
  /\ free_list' = <<t>> \o free_list
  /\ UNCHANGED <<cur_time, step>>

-----------------------------------------------------------------------------
(* step_all                                                                    *)

\* Mutant: the count of ticks does not wrap around.
NowMutant == cur_time + 1

\* The tick that step_all brings, cur_time_local.
Now == (cur_time + 1) % TimeMod

StepStart ==
  /\ step.pc = "idle"
  /\ LET list == time_wheel[Position(Now)]
     IN  step' = [pc |-> "scan", it |-> IF list = << >> THEN NoTimer ELSE Head(list)]
  /\ UNCHANGED <<cur_time, timer, time_wheel, free_list, nof_timers_running>>

\* A timer that expires a turn of the wheel later, or more, stays.
StepPasses ==
  /\ step.pc = "scan" /\ step.it # NoTimer /\ timer[step.it].timeout # Now
  /\ step' = [step EXCEPT !.it = NextElement(@)]
  /\ UNCHANGED <<cur_time, timer, time_wheel, free_list, nof_timers_running>>

\* Mutant: the next element is looked up when the timer has left the list.
StepExpiresMutant ==
  /\ step.pc = "scan" /\ step.it # NoTimer /\ timer[step.it].timeout = Now
  /\ step' = [pc |-> IF timer[step.it].callback THEN "callback" ELSE "scan", it |-> NoTimer]
  /\ StopTimer(step.it, "expired")
  /\ UNCHANGED <<cur_time, free_list>>

\* The timer is stopped before its callback is called without the mutex.
StepExpires ==
  /\ step.pc = "scan" /\ step.it # NoTimer /\ timer[step.it].timeout = Now
  /\ step' = [pc |-> IF timer[step.it].callback THEN "callback" ELSE "scan",
              it |-> NextElement(step.it)]
  /\ StopTimer(step.it, "expired")
  /\ UNCHANGED <<cur_time, free_list>>

CallbackReturns ==
  /\ step.pc = "callback"
  /\ step' = [step EXCEPT !.pc = "scan"]
  /\ UNCHANGED <<cur_time, timer, time_wheel, free_list, nof_timers_running>>

StepEnd ==
  /\ step.pc = "scan" /\ step.it = NoTimer
  /\ step' = [step EXCEPT !.pc = "idle"]
  /\ cur_time' = Now
  /\ UNCHANGED <<timer, time_wheel, free_list, nof_timers_running>>

TimersNext ==
  \/ Allocate
  \/ \E t \in Timer : \/ Run(t) \/ Stop(t) \/ Release(t)
                     \/ \E d \in Durations, given \in BOOLEAN : Set(t, d, given)
  \/ StepStart \/ StepPasses \/ StepExpires \/ CallbackReturns \/ StepEnd

TimersSpec == TimersInit /\ [][TimersNext]_timersVars

-----------------------------------------------------------------------------
\* Types and ranges of the state variables.
TimersTypeOK ==
  /\ cur_time \in 0 .. TimeMod - 1
  /\ timer \in [Timer -> [allocated : BOOLEAN, mode : {"stopped", "running", "expired"},
                          duration : 0 .. TimeMod - 1, timeout : 0 .. TimeMod - 1,
                          callback : BOOLEAN]]
  /\ step \in [pc : {"idle", "scan", "callback"}, it : Timer \cup {NoTimer}]

\* A running timer is in the list of its timeout, once, and in no other list; the
\* others are in none.  The counter agrees, and the free ones are in the free list.
WheelSound ==
  /\ \A t \in Timer, p \in DOMAIN time_wheel :
       Cardinality({i \in DOMAIN time_wheel[p] : time_wheel[p][i] = t})
         = IF Running(t) /\ Position(timer[t].timeout) = p THEN 1 ELSE 0
  /\ nof_timers_running = Cardinality({t \in Timer : Running(t)})
  /\ Range(free_list) = {t \in Timer : ~timer[t].allocated}
  /\ Len(free_list) = Cardinality(Range(free_list))

\* No running timer is forgotten: the tick at which it expires lies ahead.
NoneOverdue ==
  \A t \in Timer :
    Running(t) => (timer[t].timeout - cur_time) % TimeMod \in 1 .. timer[t].duration

\* Only a timer that was running until now is called back: one that is stopped or
\* released first, even in the same tick by another callback, stays silent.
OnlyExpiredCalled ==
  [][step.pc = "scan" /\ step'.pc = "callback" => Running(step.it)]_timersVars
=============================================================================
