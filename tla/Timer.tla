-------------------------------- MODULE Timer --------------------------------
(***************************************************************************)
(* CTimer (xbmc/threads/Timer.cpp): a thread that sleeps until m_endTime   *)
(* and calls back, once or at intervals, while others restart or stop it.  *)
(* m_timeout and m_endTime are written without a lock, and the clock is    *)
(* the 32-bit millisecond counter that wraps.                              *)
(***************************************************************************)
EXTENDS Integers, FiniteSets

CONSTANTS ClockModulus,  \* 2^32
          Timeouts,      \* the timeouts clients ask for
          MaxLate        \* bound: how late the timer's thread gets to run

ASSUME ClockAssumption == ClockModulus \in Nat \ {0} /\ MaxLate \in Nat
ASSUME TimeoutsAssumption ==
  Timeouts \subseteq 1 .. ClockModulus - 1 - MaxLate

VARIABLES
  clock,           \* SystemClockMillis
  m_timeout,
  m_interval,
  m_endTime,
  m_eventTimeout,  \* the auto-reset event is signaled
  timerStop,       \* m_bStop
  thread,          \* where the timer's thread is
  currentTime,     \* its local variable
  left,            \* what is left of its WaitMSec; negative: it is late
  restart          \* where the thread in RestartAsync is

timerVars == <<clock, m_timeout, m_interval, m_endTime, m_eventTimeout,
               timerStop, thread, currentTime, left, restart>>

Clock == 0 .. ClockModulus - 1

(***************************************************************************)
(* The thread: "none", not running; "read", about to read the clock;       *)
(* "end", about to set m_endTime; "wait", in WaitMSec; "late", about to    *)
(* compare; "callback", in OnTimeout.  RestartAsync: "out", "end" (has     *)
(* written m_timeout), "set" (has written m_endTime).                      *)
(***************************************************************************)
TimerTypeOK ==
  /\ clock \in Clock /\ m_endTime \in Clock /\ currentTime \in Clock
  /\ m_timeout \in Timeouts
  /\ m_interval \in BOOLEAN /\ m_eventTimeout \in BOOLEAN /\ timerStop \in BOOLEAN
  /\ thread \in {"none", "read", "end", "wait", "late", "callback"}
  /\ left \in -MaxLate .. ClockModulus - 1
  /\ restart \in {"out", "end", "set"}

TimerInit ==
  /\ clock \in Clock
  /\ m_timeout \in Timeouts
  /\ m_interval = FALSE
  /\ m_endTime = 0
  /\ m_eventTimeout = FALSE
  /\ timerStop = FALSE
  /\ thread = "none"
  /\ currentTime = 0
  /\ left = 0
  /\ restart = "out"

-----------------------------------------------------------------------------
\* t + timeout in uint32_t.
After(t, timeout) == (t + timeout) % ClockModulus

\* Start and Restart, when the thread is not running.
Start(timeout, interval) ==
  /\ thread = "none"
  /\ m_timeout' = timeout
  /\ m_interval' = interval
  /\ timerStop' = FALSE
  /\ thread' = "read"
  /\ UNCHANGED <<clock, m_endTime, m_eventTimeout, currentTime, left, restart>>

\* Stop(false).
StopTimer ==
  /\ thread # "none"
  /\ ~timerStop
  /\ timerStop' = TRUE
  /\ m_eventTimeout' = TRUE
  /\ UNCHANGED <<clock, m_timeout, m_interval, m_endTime, thread, currentTime,
                 left, restart>>

\* RestartAsync: its two assignments and the event.
RestartAsync(timeout) ==
  \/ /\ restart = "out"
     /\ m_timeout' = timeout
     /\ restart' = "end"
     /\ UNCHANGED <<m_endTime, m_eventTimeout>>
  \/ /\ restart = "end"
     /\ timeout = m_timeout
     /\ m_endTime' = After(clock, timeout)
     /\ restart' = "set"
     /\ UNCHANGED <<m_timeout, m_eventTimeout>>
  \/ /\ restart = "set"
     /\ timeout = m_timeout
     /\ m_eventTimeout' = TRUE
     /\ restart' = "out"
     /\ UNCHANGED <<m_timeout, m_endTime>>

Restarting ==
  /\ \E timeout \in Timeouts : RestartAsync(timeout)
  /\ UNCHANGED <<clock, m_interval, timerStop, thread, currentTime, left>>

-----------------------------------------------------------------------------
\* The head of the loop.
ReadClock ==
  /\ thread = "read"
  /\ currentTime' = clock
  /\ thread' = IF timerStop THEN "none" ELSE "end"
  /\ UNCHANGED <<clock, m_timeout, m_interval, m_endTime, m_eventTimeout,
                 timerStop, left, restart>>

\* m_endTime = currentTime + m_timeout; WaitMSec(m_endTime - currentTime).
SetEndTime ==
  /\ thread = "end"
  /\ m_endTime' = After(currentTime, m_timeout)
  /\ left' = (m_endTime' - currentTime) % ClockModulus
  /\ thread' = "wait"
  /\ UNCHANGED <<clock, m_timeout, m_interval, m_eventTimeout, timerStop,
                 currentTime, restart>>

\* WaitMSec returns true: restarted or stopped.
TimerWakes ==
  /\ thread = "wait"
  /\ m_eventTimeout
  /\ m_eventTimeout' = FALSE
  /\ thread' = "read"
  /\ UNCHANGED <<clock, m_timeout, m_interval, m_endTime, timerStop,
                 currentTime, left, restart>>

TimerExpires ==
  /\ thread = "wait"
  /\ ~m_eventTimeout
  /\ left <= 0
  /\ currentTime' = clock
  /\ thread' = "late"
  /\ UNCHANGED <<clock, m_timeout, m_interval, m_endTime, m_eventTimeout,
                 timerStop, left, restart>>

\* Mistake: a thread that is in time does not call back.
CompareStrictly ==
  /\ thread = "late"
  /\ thread' = IF m_endTime < currentTime THEN "callback" ELSE "read"
  /\ UNCHANGED <<clock, m_timeout, m_interval, m_endTime, m_eventTimeout,
                 timerStop, currentTime, left, restart>>

\* if (m_endTime <= currentTime): call back, or wait once more.
Compare ==
  /\ thread = "late"
  /\ thread' = IF m_endTime <= currentTime THEN "callback" ELSE "read"
  /\ UNCHANGED <<clock, m_timeout, m_interval, m_endTime, m_eventTimeout,
                 timerStop, currentTime, left, restart>>

\* OnTimeout returns; the thread ends unless there is an interval or a restart.
CallbackReturns ==
  /\ thread = "callback"
  /\ thread' = IF ~m_interval /\ m_endTime <= currentTime THEN "none" ELSE "read"
  /\ UNCHANGED <<clock, m_timeout, m_interval, m_endTime, m_eventTimeout,
                 timerStop, currentTime, left, restart>>

\* A millisecond passes.  Bounds: the thread is late by MaxLate, and its own
\* steps take no time.
Tick ==
  /\ thread = "wait" => left > -MaxLate
  /\ thread \in {"none", "wait"}
  /\ clock' = After(clock, 1)
  /\ left' = IF thread = "wait" THEN left - 1 ELSE left
  /\ UNCHANGED <<m_timeout, m_interval, m_endTime, m_eventTimeout, timerStop,
                 thread, currentTime, restart>>

-----------------------------------------------------------------------------
TimerStep ==
  ReadClock \/ SetEndTime \/ TimerWakes \/ TimerExpires \/ Compare
    \/ CallbackReturns

TimerNext ==
  \/ \E timeout \in Timeouts, interval \in BOOLEAN : Start(timeout, interval)
  \/ StopTimer
  \/ Restarting
  \/ TimerStep
  \/ Tick

TimerSpec == TimerInit /\ [][TimerNext]_timerVars

(***************************************************************************)
(* The timer's thread is scheduled and time passes.                        *)
(***************************************************************************)
TimerFairness == WF_timerVars(TimerStep) /\ WF_timerVars(Tick)

TimerFairSpec == TimerSpec /\ TimerFairness

-----------------------------------------------------------------------------
(***************************************************************************)
(* A running timer calls back, however its unlocked members are written    *)
(* and although the comparison of m_endTime with the clock is wrong while  *)
(* the clock wraps (the timer is then late by its timeout), unless it is   *)
(* stopped or restarted again and again.                                   *)
(***************************************************************************)
TimersCallBack ==
  /\ []TimerTypeOK
  /\ \/ thread = "read" ~> thread = "callback" \/ timerStop
     \/ []<><<Restarting>>_timerVars

=============================================================================
