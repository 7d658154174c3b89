-------------------------------- MODULE Timer --------------------------------
(***************************************************************************)
(* devices/timer.c: the ticks, threads that sleep by yielding until enough  *)
(* ticks have passed, and the calibration of the busy-wait loop.            *)
(* LoopsInTick is how many turns of the loop the machine makes in one tick.  *)
(* The factor 1000 of real_time_delay is Kilo, bit 10 at which the          *)
(* calibration starts is FirstBit, and the 9 bits it tries are TriedBits.   *)
(***************************************************************************)
EXTENDS Integers, FiniteSets, FiniteSetsExt

CONSTANTS Sleepers, MaxSleep, MaxTicks, TIMER_FREQ, Kilo, FirstBit, TriedBits, SpeedRange

VARIABLES ticks, slp, LoopsInTick, loops_per_tick, calibrating
timerVars == <<ticks, slp, LoopsInTick, loops_per_tick, calibrating>>

Awake == [pc |-> "awake", start |-> 0, ticks |-> 0, calls |-> 0]
TimerInit == /\ ticks = 0
             /\ slp = [t \in Sleepers |-> Awake]
             /\ LoopsInTick \in SpeedRange
             /\ loops_per_tick = 2 ^ FirstBit /\ calibrating = [phase |-> "grow", bit |-> 0]
\* Ticks are counted from the end of the calibration, which waits for many.
timer_interrupt == /\ calibrating.phase = "done" /\ ticks < MaxTicks /\ ticks' = ticks + 1
                   /\ UNCHANGED <<slp, LoopsInTick, loops_per_tick, calibrating>>
---------------------------------------------------------------------------
\* A wait of so many turns, begun with a tick, is over before the next one or not.
too_many_loops(loops) == loops >= LoopsInTick
\* timer_calibrate, a turn of one of its loops at a time.
timer_calibrate ==
  /\ calibrating.phase # "done"
  /\ IF calibrating.phase = "grow"
     THEN IF too_many_loops(2 * loops_per_tick)
          THEN calibrating' = [phase |-> "refine", high |-> loops_per_tick, bit |-> 1]
               /\ UNCHANGED loops_per_tick
          ELSE loops_per_tick' = 2 * loops_per_tick /\ UNCHANGED calibrating
     ELSE IF calibrating.bit > TriedBits
          THEN calibrating' = [phase |-> "done", bit |-> 0] /\ UNCHANGED loops_per_tick
          ELSE LET test_bit == calibrating.high \div 2 ^ calibrating.bit
               IN /\ loops_per_tick' =
                       loops_per_tick + (IF too_many_loops(calibrating.high + test_bit) THEN 0
                                         ELSE test_bit)
                  /\ calibrating' = [calibrating EXCEPT !.bit = @ + 1]
  /\ UNCHANGED <<ticks, slp, LoopsInTick>>
DelayLoops(num, denom) == (((loops_per_tick * num) \div Kilo) * TIMER_FREQ) \div (denom \div Kilo)
---------------------------------------------------------------------------
timer_elapsed(then) == ticks - then
timer_sleep(t, n) ==
  /\ calibrating.phase = "done" /\ slp[t].pc = "awake" /\ slp[t].calls = 0 /\ ticks + n <= MaxTicks
  /\ slp' = [slp EXCEPT ![t] = [pc |-> "test", start |-> ticks, ticks |-> n, calls |-> 1]]
  /\ UNCHANGED <<ticks, LoopsInTick, loops_per_tick, calibrating>>
\* NUM/DENOM seconds in ticks, rounded down; below one tick the thread keeps the CPU and loops.
SleepTicks(num, denom) == (num * TIMER_FREQ) \div denom
real_time_sleep(t, num) == SleepTicks(num, Kilo) > 0 /\ timer_sleep(t, SleepTicks(num, Kilo))
\* Fault: the sleep is over a tick early.
SleepOver_early(s) == timer_elapsed(s.start) + 1 >= s.ticks
SleepOver(s) == timer_elapsed(s.start) >= s.ticks
\* The test of the loop, then thread_yield(); the thread is back at the test when it next runs.
SleepTest(t) ==
  /\ slp[t].pc = "test"
  /\ slp' = [slp EXCEPT ![t].pc = IF SleepOver(slp[t]) THEN "awake" ELSE "ready"]
  /\ UNCHANGED <<ticks, LoopsInTick, loops_per_tick, calibrating>>
SleepRun(t) == /\ slp[t].pc = "ready"
               /\ slp' = [slp EXCEPT ![t].pc = "test"]
               /\ UNCHANGED <<ticks, LoopsInTick, loops_per_tick, calibrating>>
TimerNext == \/ timer_interrupt \/ timer_calibrate
             \/ \E t \in Sleepers : \/ \E n \in 0 .. MaxSleep : timer_sleep(t, n)
                                    \/ \E num \in 1 .. Kilo : real_time_sleep(t, num)
                                    \/ SleepTest(t) \/ SleepRun(t)
TimerSpec == TimerInit /\ [][TimerNext]_timerVars
\* The timer ticks, and a thread that is ready or running goes on (Synch: ReadyThreadRuns).
TimerFairness == /\ WF_timerVars(timer_interrupt)
                 /\ \A t \in Sleepers : WF_timerVars(SleepTest(t) \/ SleepRun(t))
---------------------------------------------------------------------------
\* timer_sleep "Sleeps for approximately TICKS timer ticks": no thread wakes before its ticks
\* have passed, however the interrupts fall between its reads of the clock.
SleepsLongEnough ==
  [][\A t \in Sleepers : slp[t].pc = "test" /\ slp'[t].pc = "awake" =>
       ticks - slp[t].start >= slp[t].ticks]_timerVars
\* A thread that sleeps wakes up again.
SleepEnds == \A t \in Sleepers : slp[t].pc = "test" ~> slp[t].pc = "awake"
\* When timer_calibrate is done its loop count is within a factor of two of the machine's:
\* each bit is tried alone with the highest one, so their sum may pass one tick.
CalibratedWithin ==
  calibrating.phase = "done" /\ LoopsInTick > 2 ^ FirstBit =>
    loops_per_tick < 2 * LoopsInTick /\ LoopsInTick <= 2 * loops_per_tick
\* real_time_delay never waits more turns than loops_per_tick says, and is short by less than
\* one TIMER_FREQ-th of a unit of its scaling.
DelayScaled ==
  calibrating.phase = "done" => \A num \in 0 .. 2 * Kilo, k \in 1 .. 2 :
    LET denom == Kilo ^ k
        exact == loops_per_tick * num * TIMER_FREQ
        lost == exact - DelayLoops(num, denom) * denom
    IN lost >= 0 /\ lost < denom + TIMER_FREQ * Kilo

\* timer.c keeps time: sleeps are long enough and end, busy waits are of the right size.
TimeKept == SleepsLongEnough /\ SleepEnds /\ [](CalibratedWithin /\ DelayScaled)
=============================================================================
