-------------------------------- MODULE Timer --------------------------------
(***************************************************************************)
(* src/core/timer.c: a thread that wakes up every tick, counts the time    *)
(* and puts the tasks of the timer routines whose interval has passed.     *)
(* Routines with an interval in seconds (ttasks) follow jiffies, those in  *)
(* microseconds (uttasks) follow ujiffies.  The loop is chosen once, from  *)
(* the lists as they are when the thread starts.                           *)
(*                                                                         *)
(* elapsed counts the microseconds the thread has slept.  No routine is    *)
(* registered after the start: the modules do it while they initialise.    *)
(* The clocks of the code have 64 bits, and numbers here no end.           *)
(***************************************************************************)
EXTENDS Integers, Sequences, TLAPS

CONSTANTS Seconds,    (* the intervals register_timer is called with *)
          Micros,     (* the intervals register_utimer is called with *)
          MaxTimers,  (* bound on the routines of each list *)
          MaxSleeps   (* bound on the turns of the thread *)

ASSUME IntervalsAssumption == Seconds \subseteq Nat \ {0} /\ Micros \subseteq Nat \ {0}

VARIABLES ttasks, uttasks, jiffies, ujiffies, cnt, loop, elapsed

timerVars == <<ttasks, uttasks, jiffies, ujiffies, cnt, loop, elapsed>>

TIMER_TICK  == 1
UTIMER_TICK == 100 * 1000

TimerInit ==
  /\ ttasks = <<>>
  /\ uttasks = <<>>
  /\ jiffies = 0
  /\ ujiffies = 0
  /\ cnt = 1
  /\ loop = "none"
  /\ elapsed = 0

build_ttask(interval) == [interval |-> interval, runtime |-> interval, puts |-> 0]

register_timer ==
  /\ loop = "none" /\ Len(ttasks) < MaxTimers
  /\ \E i \in Seconds : ttasks' = Append(ttasks, build_ttask(i))
  /\ UNCHANGED <<uttasks, jiffies, ujiffies, cnt, loop, elapsed>>

register_utimer ==
  /\ loop = "none" /\ Len(uttasks) < MaxTimers
  /\ \E i \in Micros : uttasks' = Append(uttasks, build_ttask(i))
  /\ UNCHANGED <<ttasks, jiffies, ujiffies, cnt, loop, elapsed>>

(* start_timer_thread and the choice at the top of timer_thread. *)
start_timer_thread ==
  /\ loop = "none"
  /\ loop' = CASE uttasks = <<>> -> "seconds"
               [] uttasks # <<>> /\ ttasks = <<>> -> "micros"
               [] OTHER -> "both"
  /\ jiffies' = 0
  /\ ujiffies' = 0
  /\ UNCHANGED <<ttasks, uttasks, cnt, elapsed>>

(* The interval is added to the old deadline. *)
Due_bug(tasks, now) ==
  [i \in DOMAIN tasks |->
     IF now >= tasks[i].runtime
     THEN [tasks[i] EXCEPT !.runtime = @ + tasks[i].interval + 1, !.puts = @ + 1]
     ELSE tasks[i]]

(* The task is put and gets its next deadline. *)
Put(task, now) == [task EXCEPT !.runtime = now + task.interval, !.puts = @ + 1]

(* One walk over a list. *)
Due(tasks, now) ==
  [i \in DOMAIN tasks |-> IF now >= tasks[i].runtime THEN Put(tasks[i], now) ELSE tasks[i]]

timer_ticker ==
  /\ jiffies' = jiffies + TIMER_TICK
  /\ ttasks' = Due(ttasks, jiffies')

utimer_ticker ==
  /\ ujiffies' = ujiffies + UTIMER_TICK
  /\ uttasks' = Due(uttasks, ujiffies')

(* The macro in parentheses. *)
multiple_bug == ((TIMER_TICK * 1000000) \div UTIMER_TICK) \div 1000000

(* The turns of the fast clock that make one of the slow clock.  UTIMER_TICK *)
(* is the text 100*1000 here, so that what is divided by it is divided by   *)
(* 100 and multiplied by 1000; nowhere else does that matter.               *)
multiple == (((TIMER_TICK * 1000000) \div 100) * 1000) \div 1000000

Sleep(t) == elapsed < MaxSleeps * t /\ elapsed' = elapsed + t

SecondsTurn ==
  /\ loop = "seconds"
  /\ Sleep(TIMER_TICK * 1000000)
  /\ timer_ticker
  /\ UNCHANGED <<uttasks, ujiffies, cnt, loop>>

MicrosTurn ==
  /\ loop = "micros"
  /\ Sleep(UTIMER_TICK)
  /\ utimer_ticker
  /\ UNCHANGED <<ttasks, jiffies, cnt, loop>>

(* The loop adds 1 to cnt after each turn, also to the 0 it was reset to.   *)
BothTurn ==
  /\ loop = "both"
  /\ Sleep(UTIMER_TICK)
  /\ utimer_ticker
  /\ IF cnt = multiple
     THEN timer_ticker /\ cnt' = 1
     ELSE cnt' = cnt + 1 /\ UNCHANGED <<ttasks, jiffies>>
  /\ UNCHANGED loop

TimerThread == SecondsTurn \/ MicrosTurn \/ BothTurn

TimerNext == register_timer \/ register_utimer \/ start_timer_thread \/ TimerThread

TimerSpec == TimerInit /\ [][TimerNext]_timerVars

-----------------------------------------------------------------------------
(* Properties *)

(* The number of ticks of a clock between two runs of a routine. *)
Period(task, tick) == ((task.interval + tick - 1) \div tick) * tick

(* jiffies counts seconds ("one second", timer.h:29) where it is counted at *)
(* all: with routines in microseconds only, get_ticks() stays at 0.         *)
TicksAreSeconds == loop # "micros" => jiffies = elapsed \div 1000000

(* A routine is put exactly once per interval, rounded up to the tick of    *)
(* its list, of the time that has passed, however the intervals of the      *)
(* others fall and though the slow clock is counted in turns of the fast    *)
(* one: no run is skipped or doubled and no error adds up.                  *)
OncePerInterval ==
  /\ \A i \in DOMAIN ttasks :
       ttasks[i].puts = elapsed \div (Period(ttasks[i], TIMER_TICK) * 1000000)
  /\ \A i \in DOMAIN uttasks :
       uttasks[i].puts = elapsed \div Period(uttasks[i], UTIMER_TICK)
  /\ TicksAreSeconds

-----------------------------------------------------------------------------
(* Proofs *)

(* Nat arithmetic: a quotient is the number whose multiple is next below.   *)
LEMMA Quotient ==
  ASSUME NEW a \in Nat, NEW d \in Nat \ {0}, NEW q \in Nat, q * d <= a, a < q * d + d
  PROVE  a \div d = q
<1>1. /\ a \div d \in Nat /\ (a \div d) * d <= a /\ a < (a \div d) * d + d
  OBVIOUS
<1> DEFINE p == a \div d
<1>2. p \in Nat /\ p * d <= a /\ a < p * d + d
  BY <1>1
<1> HIDE DEF p
<1>3. ASSUME p >= q + 1 PROVE FALSE
  <2>1. PICK k \in Nat : p = q + 1 + k
    <3>1. p - (q + 1) \in Nat
      BY <1>2, <1>3
    <3> QED BY <1>2, <3>1
  <2>2. p * d = q * d + d + k * d /\ k * d >= 0
    BY <1>2, <2>1
  <2> QED BY <1>2, <2>2
<1>4. ASSUME q >= p + 1 PROVE FALSE
  <2>1. PICK k \in Nat : q = p + 1 + k
    <3>1. q - (p + 1) \in Nat
      BY <1>2, <1>4
    <3> QED BY <1>2, <3>1
  <2>2. q * d = p * d + d + k * d /\ k * d >= 0
    BY <1>2, <2>1
  <2> QED BY <1>2, <2>2
<1>5. p = q
  BY <1>2, <1>3, <1>4
<1> QED BY <1>5 DEF p

(* A routine has been put once for each of its periods, and its deadline    *)
(* is one interval after the last of them.                                  *)
OnTime(task, now, tick) ==
  /\ task.runtime = task.puts * Period(task, tick) + task.interval
  /\ task.puts * Period(task, tick) <= now
  /\ now < task.puts * Period(task, tick) + Period(task, tick)

Routines(intervals) == [interval : intervals, runtime : Nat, puts : Nat]
AllOnTime(tasks, now, tick) == \A i \in DOMAIN tasks : OnTime(tasks[i], now, tick)

(* What each loop makes of the time: in that of both clocks cnt is one more *)
(* than the turns the slow clock is behind.                                 *)
ClocksRight ==
  /\ loop \in {"none", "seconds", "micros", "both"}
  /\ loop = "none" => elapsed = 0 /\ cnt = 1
  /\ loop = "seconds" => uttasks = <<>> /\ elapsed = jiffies * 1000000
  /\ loop = "micros" => ttasks = <<>> /\ elapsed = ujiffies
  /\ loop = "both" => /\ cnt \in 1 .. 10 /\ elapsed = ujiffies
                      /\ elapsed = jiffies * 1000000 + (cnt - 1) * UTIMER_TICK

TimerInv ==
  /\ ttasks \in Seq(Routines(Seconds)) /\ uttasks \in Seq(Routines(Micros))
  /\ jiffies \in Nat /\ \E n \in Nat : ujiffies = n * UTIMER_TICK
  /\ loop = "none" => jiffies = 0 /\ ujiffies = 0
  /\ AllOnTime(ttasks, jiffies, TIMER_TICK) /\ AllOnTime(uttasks, ujiffies, UTIMER_TICK)
  /\ ClocksRight

(* Fewer ticks take less time.                                              *)
LEMMA Fewer ==
  ASSUME NEW a \in Nat, NEW b \in Nat, NEW t \in Nat \ {0}
  PROVE  /\ a < b => a * t + t <= b * t
         /\ a <= b => a * t <= b * t
<1>1. ASSUME a <= b PROVE a * t <= b * t
  <2>1. PICK k \in Nat : b = a + k
    <3>1. b - a \in Nat
      BY <1>1
    <3> QED BY <3>1
  <2>2. b * t = a * t + k * t /\ k * t >= 0
    BY <2>1
  <2> QED BY <2>2
<1>2. ASSUME a < b PROVE a * t + t <= b * t
  <2>1. PICK k \in Nat : b = a + 1 + k
    <3>1. b - (a + 1) \in Nat
      BY <1>2
    <3> QED BY <3>1
  <2>2. b * t = a * t + t + k * t /\ k * t >= 0
    BY <2>1
  <2> QED BY <2>2
<1> QED BY <1>1, <1>2

(* A period is a number of ticks, the first not less than the interval.     *)
LEMMA PeriodTicks ==
  ASSUME NEW tick \in Nat \ {0}, NEW I \in Nat \ {0}
  PROVE  \E c \in Nat \ {0} : /\ ((I + tick - 1) \div tick) * tick = c * tick
                              /\ I <= c * tick /\ c * tick < I + tick
<1>1. PICK a \in Nat : a = I + tick - 1
  OBVIOUS
<1>2. a \div tick \in Nat /\ (a \div tick) * tick <= a /\ a < (a \div tick) * tick + tick
  OBVIOUS
<1>3. PICK c : c = a \div tick
  OBVIOUS
<1>4. c \in Nat /\ c * tick <= a /\ a < c * tick + tick
  BY <1>2, <1>3
<1>5. I <= c * tick /\ c * tick < I + tick
  BY <1>1, <1>4
<1>6. c # 0
  BY <1>5
<1> QED BY <1>1, <1>3, <1>4, <1>5, <1>6

(* One turn of a clock: the routine is put when, and only when, its period  *)
(* ends.  First the numbers.                                                *)
LEMMA TurnNumbers ==
  ASSUME NEW tick \in Nat \ {0}, NEW n \in Nat, NEW puts \in Nat, NEW I \in Nat \ {0},
         NEW P \in Nat \ {0}, NEW c \in Nat \ {0}, P = c * tick, I <= P, P < I + tick,
         puts * P <= n * tick, n * tick < puts * P + P
  PROVE  /\ (n + 1) * tick >= puts * P + I => (n + 1) * tick = (puts + 1) * P
         /\ (n + 1) * tick < puts * P + I => puts * P <= (n + 1) * tick /\ (n + 1) * tick < puts * P + P
<1>1. P = c * tick /\ I <= c * tick /\ c * tick < I + tick
  OBVIOUS
<1>2. PICK k \in Nat : k = puts * c
  OBVIOUS
<1>3. P \in Nat \ {0} /\ puts * P = k * tick /\ (puts + 1) * P = (k + c) * tick
  <2>1. P \in Nat \ {0}
    BY <1>1
  <2>2. puts * (c * tick) = (puts * c) * tick
    OBVIOUS
  <2>3. puts * P = k * tick
    BY <1>1, <1>2, <2>2
  <2>4. (puts + 1) * P = puts * P + P /\ (k + c) * tick = k * tick + c * tick
    BY <1>1, <1>2, <2>1
  <2> QED BY <1>1, <2>1, <2>3, <2>4
<1>4. k <= n
  <2>1. ~ n < k
    BY <1>2, <1>3, Fewer
  <2> QED BY <1>2, <2>1
<1>5. n < k + c
  <2>1. k * tick + c * tick = (k + c) * tick /\ n * tick < (k + c) * tick
    BY <1>1, <1>2, <1>3
  <2>2. ~ k + c <= n
    BY <1>2, <2>1, Fewer
  <2> QED BY <1>2, <2>2
<1>6. CASE n + 1 = k + c
  BY <1>1, <1>2, <1>3, <1>6
<1>7. CASE n + 1 < k + c
  <2>1. (n + 1) * tick + tick <= (k + c) * tick
    BY <1>2, <1>7, Fewer
  <2>2. (k + c) * tick = k * tick + c * tick
    BY <1>2
  <2>3. k * tick <= (n + 1) * tick
    BY <1>2, <1>4, Fewer
  <2> QED BY <1>1, <1>2, <1>3, <2>1, <2>2, <2>3
<1> QED BY <1>2, <1>5, <1>6, <1>7

(* The same of a routine.                                                   *)
LEMMA Turn ==
  ASSUME NEW tick \in Nat \ {0}, NEW n \in Nat, NEW task, NEW after,
         task.interval \in Nat \ {0}, task.puts \in Nat,
         after.interval = task.interval,
         OnTime(task, n * tick, tick),
         IF (n + 1) * tick >= task.runtime
         THEN after.runtime = (n + 1) * tick + task.interval /\ after.puts = task.puts + 1
         ELSE after.runtime = task.runtime /\ after.puts = task.puts
  PROVE  OnTime(after, (n + 1) * tick, tick)
<1>1. PICK P : P = ((task.interval + tick - 1) \div tick) * tick
  OBVIOUS
<1>2. Period(task, tick) = P /\ Period(after, tick) = P
  BY <1>1 DEF Period
<1>3. /\ task.runtime = task.puts * P + task.interval
      /\ task.puts * P <= n * tick /\ n * tick < task.puts * P + P
  BY <1>2 DEF OnTime
<1>4. /\ P \in Nat \ {0}
      /\ (n + 1) * tick >= task.puts * P + task.interval => (n + 1) * tick = (task.puts + 1) * P
      /\ (n + 1) * tick < task.puts * P + task.interval =>
           task.puts * P <= (n + 1) * tick /\ (n + 1) * tick < task.puts * P + P
  <2>1. PICK I, q : I = task.interval /\ q = task.puts
    OBVIOUS
  <2>2. I \in Nat \ {0} /\ q \in Nat /\ P = ((I + tick - 1) \div tick) * tick
    BY <1>1, <2>1
  <2>3. \E c \in Nat \ {0} : /\ ((I + tick - 1) \div tick) * tick = c * tick
                             /\ I <= c * tick /\ c * tick < I + tick
    BY <2>2, PeriodTicks, Zenon
  <2>4. PICK c \in Nat \ {0} : P = c * tick /\ I <= P /\ P < I + tick
    BY <2>2, <2>3, Zenon
  <2>5. P \in Nat \ {0}
    BY <2>2, <2>4
  <2>6. q * P <= n * tick /\ n * tick < q * P + P
    BY <1>3, <2>1
  <2>7. /\ (n + 1) * tick >= q * P + I => (n + 1) * tick = (q + 1) * P
        /\ (n + 1) * tick < q * P + I => q * P <= (n + 1) * tick /\ (n + 1) * tick < q * P + P
    BY <2>2, <2>4, <2>5, <2>6, TurnNumbers
  <2> QED BY <2>1, <2>5, <2>7
<1>5. CASE (n + 1) * tick >= task.runtime
  <2>1. after.puts * P = (n + 1) * tick /\ after.runtime = (n + 1) * tick + task.interval
    BY <1>3, <1>4, <1>5
  <2>2. (n + 1) * tick \in Nat
    OBVIOUS
  <2> QED BY <1>2, <1>4, <2>1, <2>2 DEF OnTime
<1>6. CASE ~ (n + 1) * tick >= task.runtime
  <2>1. (n + 1) * tick < task.puts * P + task.interval
    BY <1>3, <1>4, <1>6
  <2> QED BY <1>2, <1>3, <1>4, <1>6, <2>1 DEF OnTime
<1> QED BY <1>5, <1>6

(* The fields of a routine.                                                 *)
LEMMA RoutineFields ==
  ASSUME NEW intervals \in SUBSET (Nat \ {0}), NEW t \in Routines(intervals)
  PROVE  t.interval \in intervals /\ t.interval \in Nat \ {0} /\ t.runtime \in Nat /\ t.puts \in Nat
<1>1. t.interval \in intervals /\ t.runtime \in Nat /\ t.puts \in Nat
  BY DEF Routines
<1> QED BY <1>1

(* What is put is the same routine with another deadline.                   *)
LEMMA PutRoutine ==
  ASSUME NEW intervals \in SUBSET (Nat \ {0}), NEW t \in Routines(intervals), NEW now \in Nat
  PROVE  /\ Put(t, now) \in Routines(intervals)
         /\ Put(t, now).interval = t.interval
         /\ Put(t, now).runtime = now + t.interval /\ Put(t, now).puts = t.puts + 1
<1>1. t.interval \in intervals /\ t.interval \in Nat /\ t.puts \in Nat
  BY DEF Routines
<1>2. now + t.interval \in Nat /\ t.puts + 1 \in Nat
  BY <1>1
<1>3. PICK r, p : r = now + t.interval /\ p = t.puts + 1
  OBVIOUS
<1>4. t = [interval |-> t.interval, runtime |-> t.runtime, puts |-> t.puts]
  BY DEF Routines
<1>5. Put(t, now) = [interval |-> t.interval, runtime |-> r, puts |-> p]
  <2>1. Put(t, now) = [[t EXCEPT !.runtime = r] EXCEPT !.puts = p]
    BY <1>3, <1>4, Zenon DEF Put
  <2>2. [t EXCEPT !.runtime = r] = [interval |-> t.interval, runtime |-> r, puts |-> t.puts]
    BY <1>4
  <2>3. PICK u : u = [interval |-> t.interval, runtime |-> r, puts |-> t.puts]
    OBVIOUS
  <2>4. [u EXCEPT !.puts = p] = [interval |-> t.interval, runtime |-> r, puts |-> p]
    BY <2>3
  <2> QED BY <2>1, <2>2, <2>3, <2>4, Zenon
<1> QED BY <1>1, <1>2, <1>3, <1>5 DEF Routines

(* A walk over a list.                                                      *)
LEMMA Walk ==
  ASSUME NEW intervals \in SUBSET (Nat \ {0}), NEW tick \in Nat \ {0}, NEW n \in Nat, NEW now \in Nat,
         now = (n + 1) * tick,
         NEW tasks \in Seq(Routines(intervals)), AllOnTime(tasks, n * tick, tick)
  PROVE  /\ Due(tasks, now) \in Seq(Routines(intervals))
         /\ AllOnTime(Due(tasks, now), now, tick)
<1>1. DOMAIN tasks = 1 .. Len(tasks) /\ Len(tasks) \in Nat
  OBVIOUS
<1>2. ASSUME NEW i \in DOMAIN tasks
      PROVE  /\ tasks[i] \in Routines(intervals)
             /\ tasks[i].interval \in intervals /\ tasks[i].interval \in Nat \ {0} /\ tasks[i].puts \in Nat
  <2>1. tasks[i] \in Routines(intervals)
    BY <1>2
  <2> QED BY <2>1, RoutineFields
<1>3. PICK after : after = Due(tasks, now)
  OBVIOUS
<1>4. after = [i \in 1 .. Len(tasks) |->
                 IF now >= tasks[i].runtime THEN Put(tasks[i], now) ELSE tasks[i]]
  BY <1>1, <1>3 DEF Due
<1>5. ASSUME NEW i \in 1 .. Len(tasks) PROVE after[i] \in Routines(intervals) /\ OnTime(after[i], now, tick)
  <2>1. PICK t : t = tasks[i]
    OBVIOUS
  <2>2. /\ t \in Routines(intervals)
        /\ t.interval \in intervals /\ t.interval \in Nat \ {0} /\ t.puts \in Nat
        /\ OnTime(t, n * tick, tick)
    BY <1>1, <1>2, <2>1 DEF AllOnTime
  <2>3. after[i] = IF now >= t.runtime THEN Put(t, now) ELSE t
    BY <1>4, <2>1
  <2>4. CASE now >= t.runtime
    <3>1. /\ after[i] \in Routines(intervals)
          /\ after[i].interval = t.interval
          /\ after[i].runtime = now + t.interval /\ after[i].puts = t.puts + 1
      <4>1. after[i] = Put(t, now)
        BY <2>3, <2>4
      <4>2. t \in Routines(intervals)
        BY <2>2
      <4>3. /\ Put(t, now) \in Routines(intervals)
            /\ Put(t, now).interval = t.interval
            /\ Put(t, now).runtime = now + t.interval /\ Put(t, now).puts = t.puts + 1
        BY <4>2, PutRoutine
      <4> QED BY <4>1, <4>3
    <3>2. /\ after[i].interval = t.interval
          /\ IF (n + 1) * tick >= t.runtime
             THEN after[i].runtime = (n + 1) * tick + t.interval /\ after[i].puts = t.puts + 1
             ELSE after[i].runtime = t.runtime /\ after[i].puts = t.puts
      BY <2>4, <3>1
    <3>3. OnTime(after[i], (n + 1) * tick, tick)
      BY <2>2, <3>2, Turn, Zenon
    <3> QED BY <3>1, <3>3
  <2>5. CASE ~ now >= t.runtime
    <3>1. after[i] = t
      BY <2>3, <2>5
    <3>2. /\ after[i].interval = t.interval
          /\ IF (n + 1) * tick >= t.runtime
             THEN after[i].runtime = (n + 1) * tick + t.interval /\ after[i].puts = t.puts + 1
             ELSE after[i].runtime = t.runtime /\ after[i].puts = t.puts
      BY <2>5, <3>1
    <3>3. OnTime(after[i], (n + 1) * tick, tick)
      BY <2>2, <3>2, Turn, Zenon
    <3> QED BY <2>2, <3>1, <3>3
  <2> QED BY <2>4, <2>5
<1>6. after \in Seq(Routines(intervals)) /\ DOMAIN after = 1 .. Len(tasks)
  <2>1. after \in [1 .. Len(tasks) -> Routines(intervals)]
    BY <1>4, <1>5
  <2> QED BY <1>1, <2>1
<1> QED BY <1>3, <1>5, <1>6 DEF AllOnTime

(* A routine that is registered is on time before the clock runs.           *)
LEMMA Registered ==
  ASSUME NEW intervals \in SUBSET (Nat \ {0}), NEW tick \in Nat \ {0}, NEW I \in intervals,
         NEW tasks \in Seq(Routines(intervals)), AllOnTime(tasks, 0, tick)
  PROVE  /\ Append(tasks, build_ttask(I)) \in Seq(Routines(intervals))
         /\ AllOnTime(Append(tasks, build_ttask(I)), 0, tick)
<1>1. PICK t : t = build_ttask(I)
  OBVIOUS
<1>2. t \in Routines(intervals) /\ t.interval = I /\ t.runtime = I /\ t.puts = 0
  BY <1>1 DEF build_ttask, Routines
<1>3. OnTime(t, 0, tick)
  <2>1. PICK c \in Nat \ {0} : ((I + tick - 1) \div tick) * tick = c * tick
    BY PeriodTicks
  <2>2. PICK P : P = Period(t, tick)
    OBVIOUS
  <2>3. P = c * tick
    BY <1>2, <2>1, <2>2 DEF Period
  <2>4. P \in Nat \ {0}
    BY <2>3
  <2> QED BY <1>2, <2>2, <2>4 DEF OnTime
<1>4. PICK more : more = Append(tasks, t)
  OBVIOUS
<1>5. more \in Seq(Routines(intervals))
  BY <1>2, <1>4
<1>6. ASSUME NEW i \in DOMAIN more PROVE OnTime(more[i], 0, tick)
  <2>1. more[i] = t \/ (i \in DOMAIN tasks /\ more[i] = tasks[i])
    BY <1>2, <1>4
  <2> QED BY <1>3, <2>1 DEF AllOnTime
<1> QED BY <1>1, <1>4, <1>5, <1>6 DEF AllOnTime

(* The walk of the slow clock keeps its routines on time.                   *)
LEMMA SecondsWalk ==
  ASSUME TimerInv, timer_ticker
  PROVE  /\ ttasks' \in Seq(Routines(Seconds)) /\ jiffies' \in Nat
         /\ AllOnTime(ttasks', jiffies', TIMER_TICK)
<1>1. jiffies \in Nat /\ jiffies' = (jiffies + 1) * 1 /\ jiffies' \in Nat /\ jiffies = jiffies * 1
  BY DEF TimerInv, timer_ticker, TIMER_TICK
<1>2. ttasks \in Seq(Routines(Seconds)) /\ AllOnTime(ttasks, jiffies * 1, 1) /\ ttasks' = Due(ttasks, jiffies')
  BY <1>1 DEF TimerInv, timer_ticker, TIMER_TICK
<1>3. Seconds \in SUBSET (Nat \ {0}) /\ 1 \in Nat \ {0}
  BY IntervalsAssumption
<1> QED BY <1>1, <1>2, <1>3, Walk DEF TIMER_TICK

(* And that of the fast clock.                                              *)
LEMMA MicrosWalk ==
  ASSUME TimerInv, utimer_ticker
  PROVE  /\ uttasks' \in Seq(Routines(Micros)) /\ \E n \in Nat : ujiffies' = n * UTIMER_TICK
         /\ AllOnTime(uttasks', ujiffies', UTIMER_TICK)
<1>1. PICK n \in Nat : ujiffies = n * UTIMER_TICK
  BY DEF TimerInv
<1>2. UTIMER_TICK \in Nat \ {0}
  BY DEF UTIMER_TICK
<1>3. n + 1 \in Nat /\ ujiffies' = (n + 1) * UTIMER_TICK /\ ujiffies' \in Nat
  BY <1>1 DEF utimer_ticker, UTIMER_TICK
<1>4. /\ uttasks \in Seq(Routines(Micros)) /\ AllOnTime(uttasks, n * UTIMER_TICK, UTIMER_TICK)
      /\ uttasks' = Due(uttasks, ujiffies')
  BY <1>1 DEF TimerInv, utimer_ticker
<1>5. Micros \in SUBSET (Nat \ {0})
  BY IntervalsAssumption
<1> QED BY <1>2, <1>3, <1>4, <1>5, Walk

(* Ten turns of the fast clock make one of the slow clock.                  *)
LEMMA TenTurns == multiple = 10
<1>1. (1 * 1000000) \div 100 = 10000
  OBVIOUS
<1>2. (10000 * 1000) \div 1000000 = 10
  OBVIOUS
<1> QED BY <1>1, <1>2 DEF multiple, TIMER_TICK

(* Every step keeps the clocks on the time that has passed.                 *)
LEMMA ClocksStep == TimerInv /\ TimerNext => ClocksRight'
<1> SUFFICES ASSUME TimerInv, TimerNext PROVE ClocksRight'
  OBVIOUS
<1>1. /\ ClocksRight /\ jiffies \in Nat /\ ujiffies \in Nat
      /\ loop = "none" => jiffies = 0 /\ ujiffies = 0
  BY DEF TimerInv, UTIMER_TICK
<1>2. CASE register_timer \/ register_utimer
  BY <1>1, <1>2 DEF register_timer, register_utimer, ClocksRight
<1>3. CASE start_timer_thread
  <2>1. /\ loop = "none" /\ jiffies' = 0 /\ ujiffies' = 0 /\ elapsed' = 0 /\ cnt' = 1
        /\ ttasks' = ttasks /\ uttasks' = uttasks
    BY <1>1, <1>3 DEF start_timer_thread, ClocksRight
  <2>2. \/ loop' = "seconds" /\ uttasks = <<>>
        \/ loop' = "micros" /\ ttasks = <<>>
        \/ loop' = "both"
    BY <1>3 DEF start_timer_thread
  <2> QED BY <2>1, <2>2 DEF ClocksRight, UTIMER_TICK
<1>4. CASE SecondsTurn
  <2>1. /\ loop = "seconds" /\ loop' = loop /\ uttasks' = uttasks
        /\ elapsed' = elapsed + 1000000 /\ jiffies' = jiffies + 1
    BY <1>4 DEF SecondsTurn, Sleep, timer_ticker, TIMER_TICK
  <2> QED BY <1>1, <2>1 DEF ClocksRight
<1>5. CASE MicrosTurn
  <2>1. /\ loop = "micros" /\ loop' = loop /\ ttasks' = ttasks
        /\ elapsed' = elapsed + UTIMER_TICK /\ ujiffies' = ujiffies + UTIMER_TICK
    BY <1>5 DEF MicrosTurn, Sleep, utimer_ticker
  <2> QED BY <1>1, <2>1 DEF ClocksRight
<1>6. CASE BothTurn
  <2>1. /\ loop = "both" /\ loop' = loop /\ cnt \in 1 .. 10
        /\ elapsed' = elapsed + 100000 /\ ujiffies' = ujiffies + 100000
        /\ elapsed = ujiffies /\ elapsed = jiffies * 1000000 + (cnt - 1) * 100000
    BY <1>1, <1>6 DEF BothTurn, Sleep, utimer_ticker, ClocksRight, UTIMER_TICK
  <2>2. CASE cnt = 10
    <3>1. jiffies' = jiffies + 1 /\ cnt' = 1
      BY <1>6, <2>2, TenTurns DEF BothTurn, timer_ticker, TIMER_TICK
    <3> QED BY <1>1, <2>1, <2>2, <3>1 DEF ClocksRight, UTIMER_TICK
  <2>3. CASE cnt # 10
    <3>1. jiffies' = jiffies /\ cnt' = cnt + 1
      BY <1>6, <2>3, TenTurns DEF BothTurn
    <3> QED BY <1>1, <2>1, <2>3, <3>1 DEF ClocksRight, UTIMER_TICK
  <2> QED BY <2>2, <2>3
<1> QED BY <1>2, <1>3, <1>4, <1>5, <1>6 DEF TimerNext, TimerThread

(* Every step keeps the routines of both lists on time.                     *)
LEMMA TimerStep == TimerInv /\ [TimerNext]_timerVars => TimerInv'
<1> SUFFICES ASSUME TimerInv, [TimerNext]_timerVars PROVE TimerInv'
  OBVIOUS
<1>0. TimerNext => ClocksRight'
  BY ClocksStep
<1>1. CASE register_timer
  <2>1. PICK I \in Seconds : ttasks' = Append(ttasks, build_ttask(I))
    BY <1>1 DEF register_timer
  <2>2. loop = "none" /\ jiffies = 0 /\ UNCHANGED <<uttasks, jiffies, ujiffies, cnt, loop, elapsed>>
    BY <1>1 DEF register_timer, TimerInv
  <2>3. ttasks' \in Seq(Routines(Seconds)) /\ AllOnTime(ttasks', 0, TIMER_TICK)
    <3>1. Seconds \in SUBSET (Nat \ {0}) /\ TIMER_TICK \in Nat \ {0}
      BY IntervalsAssumption DEF TIMER_TICK
    <3>2. ttasks \in Seq(Routines(Seconds)) /\ AllOnTime(ttasks, 0, TIMER_TICK)
      BY <2>2 DEF TimerInv
    <3> QED BY <2>1, <3>1, <3>2, Registered
  <2> QED BY <1>0, <1>1, <2>2, <2>3 DEF TimerInv, TimerNext
<1>2. CASE register_utimer
  <2>1. PICK I \in Micros : uttasks' = Append(uttasks, build_ttask(I))
    BY <1>2 DEF register_utimer
  <2>2. loop = "none" /\ ujiffies = 0 /\ UNCHANGED <<ttasks, jiffies, ujiffies, cnt, loop, elapsed>>
    BY <1>2 DEF register_utimer, TimerInv
  <2>3. uttasks' \in Seq(Routines(Micros)) /\ AllOnTime(uttasks', 0, UTIMER_TICK)
    <3>1. Micros \in SUBSET (Nat \ {0}) /\ UTIMER_TICK \in Nat \ {0}
      BY IntervalsAssumption DEF UTIMER_TICK
    <3>2. uttasks \in Seq(Routines(Micros)) /\ AllOnTime(uttasks, 0, UTIMER_TICK)
      BY <2>2 DEF TimerInv
    <3> QED BY <2>1, <3>1, <3>2, Registered
  <2> QED BY <1>0, <1>2, <2>2, <2>3 DEF TimerInv, TimerNext
<1>3. CASE start_timer_thread
  <2>1. /\ loop = "none" /\ jiffies = 0 /\ ujiffies = 0 /\ jiffies' = 0 /\ ujiffies' = 0
        /\ UNCHANGED <<ttasks, uttasks>>
    BY <1>3 DEF start_timer_thread, TimerInv
  <2> QED BY <1>0, <1>3, <2>1 DEF TimerInv, TimerNext
<1>4. CASE SecondsTurn
  <2>1. timer_ticker /\ loop # "none" /\ UNCHANGED <<uttasks, ujiffies, loop>>
    BY <1>4 DEF SecondsTurn
  <2> QED BY <1>0, <1>4, <2>1, SecondsWalk DEF TimerInv, TimerNext, TimerThread
<1>5. CASE MicrosTurn
  <2>1. utimer_ticker /\ loop # "none" /\ UNCHANGED <<ttasks, jiffies, loop>>
    BY <1>5 DEF MicrosTurn
  <2> QED BY <1>0, <1>5, <2>1, MicrosWalk DEF TimerInv, TimerNext, TimerThread
<1>6. CASE BothTurn
  <2>1. utimer_ticker /\ loop # "none" /\ loop' = loop
    BY <1>6 DEF BothTurn
  <2>2. CASE timer_ticker
    BY <1>0, <1>6, <2>1, <2>2, SecondsWalk, MicrosWalk DEF TimerInv, TimerNext, TimerThread
  <2>3. CASE UNCHANGED <<ttasks, jiffies>>
    BY <1>0, <1>6, <2>1, <2>3, MicrosWalk DEF TimerInv, TimerNext, TimerThread
  <2> QED BY <1>6, <2>2, <2>3 DEF BothTurn
<1>7. CASE UNCHANGED timerVars
  BY <1>7 DEF TimerInv, ClocksRight, timerVars
<1> QED BY <1>1, <1>2, <1>3, <1>4, <1>5, <1>6, <1>7 DEF TimerNext, TimerThread

(* The slow clock is behind the time by less than a second.                 *)
LEMMA Behind ==
  ASSUME TimerInv, loop # "micros"
  PROVE  /\ elapsed \in Nat /\ jiffies \in Nat
         /\ jiffies * 1000000 <= elapsed /\ elapsed < jiffies * 1000000 + 1000000
<1>1. jiffies \in Nat /\ ClocksRight /\ (loop = "none" => jiffies = 0)
  BY DEF TimerInv
<1> QED BY <1>1 DEF ClocksRight, UTIMER_TICK

(* A routine that is on time has been put once per period.                  *)
LEMMA PutsOnTime ==
  ASSUME NEW now \in Nat, NEW tick \in Nat \ {0}, NEW intervals \in SUBSET (Nat \ {0}),
         NEW t \in Routines(intervals), OnTime(t, now, tick)
  PROVE  /\ t.puts \in Nat /\ Period(t, tick) \in Nat \ {0}
         /\ t.puts * Period(t, tick) <= now /\ now < t.puts * Period(t, tick) + Period(t, tick)
<1>1. PICK I, P : I = t.interval /\ P = Period(t, tick)
  OBVIOUS
<1>2. I \in Nat \ {0} /\ t.puts \in Nat
  BY <1>1, RoutineFields
<1>3. \E c \in Nat \ {0} : ((I + tick - 1) \div tick) * tick = c * tick
  BY <1>2, PeriodTicks
<1>4. P = ((I + tick - 1) \div tick) * tick
  BY <1>1 DEF Period
<1>5. P \in Nat \ {0}
  BY <1>3, <1>4
<1> QED BY <1>1, <1>2, <1>5 DEF OnTime

(* timer.c: whatever intervals are registered, and for as long as the       *)
(* thread runs, a routine has been put once for each of its periods in the  *)
(* time that has passed, and jiffies counts the seconds of it.              *)
THEOREM OncePerIntervalHolds == TimerSpec => []OncePerInterval
<1>1. TimerInit => TimerInv
  BY DEF TimerInit, TimerInv, AllOnTime, ClocksRight, UTIMER_TICK
<1>2. TimerInv => OncePerInterval
  <2> SUFFICES ASSUME TimerInv PROVE OncePerInterval
    OBVIOUS
  <2>1. /\ Seconds \in SUBSET (Nat \ {0}) /\ Micros \in SUBSET (Nat \ {0})
        /\ TIMER_TICK \in Nat \ {0} /\ UTIMER_TICK \in Nat \ {0}
    BY IntervalsAssumption DEF TIMER_TICK, UTIMER_TICK
  <2>2. jiffies \in Nat /\ ujiffies \in Nat /\ ClocksRight
    BY DEF TimerInv, UTIMER_TICK
  <2>3. ASSUME NEW i \in DOMAIN ttasks
        PROVE  ttasks[i].puts = elapsed \div (Period(ttasks[i], TIMER_TICK) * 1000000)
    <3>1. ttasks[i] \in Routines(Seconds) /\ OnTime(ttasks[i], jiffies, TIMER_TICK)
      BY DEF TimerInv, AllOnTime
    <3>2. PICK q, P : q = ttasks[i].puts /\ P = Period(ttasks[i], TIMER_TICK)
      OBVIOUS
    <3>3. q \in Nat /\ P \in Nat \ {0} /\ q * P <= jiffies /\ jiffies < q * P + P
      BY <2>1, <2>2, <3>1, <3>2, PutsOnTime
    <3>4. loop # "micros"
      BY <2>2 DEF ClocksRight
    <3>5. /\ elapsed \in Nat /\ jiffies * 1000000 <= elapsed
          /\ elapsed < jiffies * 1000000 + 1000000
      BY <3>4, Behind
    <3>6. PICK k \in Nat : k = q * P
      BY <3>3
    <3>7. q * (P * 1000000) = k * 1000000 /\ P * 1000000 \in Nat \ {0}
      BY <3>3, <3>6
    <3>8. k * 1000000 <= elapsed /\ elapsed < k * 1000000 + P * 1000000
      BY <2>2, <3>3, <3>5, <3>6
    <3>9. PICK d \in Nat \ {0} : d = P * 1000000
      BY <3>7
    <3>10. q * d <= elapsed /\ elapsed < q * d + d
      BY <3>7, <3>8, <3>9
    <3>11. q \in Nat /\ elapsed \in Nat
      BY <3>3, <3>5
    <3>12. elapsed \div d = q
      BY <3>10, <3>11, Quotient
    <3> QED BY <3>2, <3>9, <3>12
  <2>4. ASSUME NEW i \in DOMAIN uttasks
        PROVE  uttasks[i].puts = elapsed \div Period(uttasks[i], UTIMER_TICK)
    <3>1. uttasks[i] \in Routines(Micros) /\ OnTime(uttasks[i], ujiffies, UTIMER_TICK)
      BY DEF TimerInv, AllOnTime
    <3>2. PICK q, P : q = uttasks[i].puts /\ P = Period(uttasks[i], UTIMER_TICK)
      OBVIOUS
    <3>3. q \in Nat /\ P \in Nat \ {0} /\ q * P <= ujiffies /\ ujiffies < q * P + P
      BY <2>1, <2>2, <3>1, <3>2, PutsOnTime
    <3>4. elapsed = ujiffies
      BY <2>2 DEF ClocksRight, TimerInv
    <3>5. ujiffies \div P = q
      BY <2>2, <3>3, Quotient
    <3> QED BY <3>2, <3>4, <3>5
  <2>5. TicksAreSeconds
    <3> SUFFICES ASSUME loop # "micros" PROVE jiffies = elapsed \div 1000000
      BY DEF TicksAreSeconds
    <3>1. /\ elapsed \in Nat /\ jiffies * 1000000 <= elapsed
          /\ elapsed < jiffies * 1000000 + 1000000
      BY Behind
    <3> QED BY <2>2, <3>1, Quotient
  <2> QED BY <2>3, <2>4, <2>5 DEF OncePerInterval
<1> QED BY <1>1, <1>2, TimerStep, PTL DEF TimerSpec

=============================================================================
