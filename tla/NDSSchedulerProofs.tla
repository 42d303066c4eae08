------------------------- MODULE NDSSchedulerProofs -------------------------
(***************************************************************************)
(* Proofs about NDSScheduler, for every set of events, all periods and     *)
(* delays, iteration lengths and step costs that satisfy its assumptions.  *)
(***************************************************************************)
EXTENDS NDSScheduler, TLAPS

(***************************************************************************)
(* Conversion between the ARM9 clock and the system clock.                 *)
(***************************************************************************)
LEMMA ClockDivision ==
  ASSUME NEW n \in Nat
  PROVE  /\ n \div ClockRatio \in Nat
         /\ (n \div ClockRatio) * ClockRatio <= n
         /\ n < (n \div ClockRatio) * ClockRatio + ClockRatio
<1>1. CASE ClockRatio = 2
  BY <1>1
<1>2. CASE ClockRatio = 4
  BY <1>2
<1> QED BY <1>1, <1>2, TimeAssumption

LEMMA ClockMultiple ==
  ASSUME NEW n \in Nat
  PROVE  /\ n * ClockRatio \in Nat
         /\ (n * ClockRatio) \div ClockRatio = n
         /\ (n * ClockRatio) % ClockRatio = 0
<1>1. CASE ClockRatio = 2
  BY <1>1
<1>2. CASE ClockRatio = 4
  BY <1>2
<1> QED BY <1>1, <1>2, TimeAssumption

LEMMA ClockAligned ==
  ASSUME NEW n \in Nat, n % ClockRatio = 0
  PROVE  (n \div ClockRatio) * ClockRatio = n
<1>1. CASE ClockRatio = 2
  BY <1>1
<1>2. CASE ClockRatio = 4
  BY <1>2
<1> QED BY <1>1, <1>2, TimeAssumption

LEMMA ClockOrder ==
  ASSUME NEW m \in Nat, NEW n \in Nat
  PROVE  /\ m * ClockRatio <= n * ClockRatio <=> m <= n
         /\ m * ClockRatio < n * ClockRatio <=> m < n
         /\ m < n => m * ClockRatio + ClockRatio <= n * ClockRatio
<1>1. CASE ClockRatio = 2
  BY <1>1
<1>2. CASE ClockRatio = 4
  BY <1>2
<1> QED BY <1>1, <1>2, TimeAssumption

LEMMA ClockDifference ==
  ASSUME NEW m \in Int, NEW n \in Int
  PROVE  /\ (m - n) * ClockRatio = m * ClockRatio - n * ClockRatio
         /\ m * ClockRatio \in Int
         /\ m <= n => m * ClockRatio <= n * ClockRatio
         /\ m > 0 => m * ClockRatio > 0
         /\ m * ClockRatio < n * ClockRatio => m < n
<1>1. CASE ClockRatio = 2
  BY <1>1
<1>2. CASE ClockRatio = 4
  BY <1>2
<1> QED BY <1>1, <1>2, TimeAssumption

(***************************************************************************)
(* The division in RTC.ScheduleTimer.                                      *)
(***************************************************************************)
LEMMA RTCDivision ==
  ASSUME NEW n \in Nat
  PROVE  /\ n \div RTCRate \in Nat /\ n % RTCRate \in 0..(RTCRate - 1)
         /\ n = (n \div RTCRate) * RTCRate + (n % RTCRate)
<1>1. RTCRate \in Nat \ {0}
  BY TimeAssumption
<1> QED BY <1>1

LEMMA RTCQuotient ==
  ASSUME NEW m \in Nat, NEW n \in Nat, m <= n
  PROVE  m \div RTCRate <= n \div RTCRate
<1> DEFINE a == m \div RTCRate
           b == n \div RTCRate
<1>1. /\ a \in Nat /\ b \in Nat /\ RTCRate \in Nat \ {0}
      /\ a * RTCRate <= m /\ n < b * RTCRate + RTCRate
  <2>1. /\ m = a * RTCRate + (m % RTCRate) /\ m % RTCRate \in 0..(RTCRate - 1)
        /\ n = b * RTCRate + (n % RTCRate) /\ n % RTCRate \in 0..(RTCRate - 1)
        /\ a \in Nat /\ b \in Nat
    BY RTCDivision
  <2> QED BY <2>1, TimeAssumption
<1> HIDE DEF a, b
<1>2. a > b => a * RTCRate >= b * RTCRate + RTCRate
  <2> SUFFICES ASSUME a > b PROVE a * RTCRate >= b * RTCRate + RTCRate
    OBVIOUS
  <2>1. PICK d \in Nat : a = b + 1 + d
    BY <1>1
  <2>2. (b + 1 + d) * RTCRate = b * RTCRate + RTCRate + d * RTCRate
    BY <1>1
  <2> QED BY <1>1, <2>1, <2>2
<1>3. a * RTCRate \in Nat /\ b * RTCRate \in Nat
  BY <1>1
<1>4. a <= b
  BY <1>1, <1>2, <1>3
<1> QED BY <1>4 DEF a, b

LEMMA RTCDelayType ==
  TypeOK => /\ RTCCycles \in Nat
            /\ RTCCycles \div RTCRate \in Nat \ {0}
            /\ RTCCycles \div RTCRate >= RTCClock \div RTCRate
            /\ RTCClock \div RTCRate \in Nat \ {0}
            /\ RTCCycles % RTCRate \in 0..(RTCRate - 1)
<1> SUFFICES ASSUME TypeOK
             PROVE  /\ RTCCycles \in Nat
                    /\ RTCCycles \div RTCRate \in Nat \ {0}
                    /\ RTCCycles \div RTCRate >= RTCClock \div RTCRate
                    /\ RTCClock \div RTCRate \in Nat \ {0}
                    /\ RTCCycles % RTCRate \in 0..(RTCRate - 1)
  OBVIOUS
<1>1. /\ RTCCycles \in Nat /\ RTCClock \in Nat /\ RTCClock <= RTCCycles
      /\ RTCRate \in Nat \ {0} /\ RTCRate <= RTCClock
  BY TimeAssumption DEF TypeOK, RTCCycles
<1>2. RTCRate \div RTCRate = 1
  BY <1>1
<1>3. /\ RTCClock \div RTCRate <= RTCCycles \div RTCRate
      /\ RTCRate \div RTCRate <= RTCClock \div RTCRate
  BY <1>1, RTCQuotient
<1>4. /\ RTCCycles \div RTCRate \in Nat /\ RTCClock \div RTCRate \in Nat
      /\ RTCCycles % RTCRate \in 0..(RTCRate - 1)
  BY <1>1, RTCDivision
<1> QED BY <1>1, <1>2, <1>3, <1>4

\* The delay a handler reschedules its event with is positive.
LEMMA DelaysType ==
  ASSUME TypeOK, NEW e \in Events, NEW p \in Delays(e)
  PROVE  p \in Nat \ {0}
<1>1. CASE e = RTC
  BY <1>1, RTCDelayType DEF Delays
<1>2. CASE e # RTC
  BY <1>2, TimeAssumption DEF Delays
<1> QED BY <1>1, <1>2

LEMMA MaxLateType ==
  ASSUME NEW e
  PROVE  /\ MaxLate(e) \in Nat /\ MaxLate(e) >= MaxCost
         /\ e \notin CPUEvents => MaxLate(e) = MaxCost
         /\ e \in CPUEvents => MaxLate(e) = MaxCost + (MaxIter + Margin) * ClockRatio
<1>1. (MaxIter + Margin) * ClockRatio \in Nat /\ MaxCost \in Nat
  BY ClockMultiple, TimeAssumption
<1> QED BY <1>1 DEF MaxLate

LEMMA InitType == Init => TypeOK
<1> SUFFICES ASSUME Init PROVE TypeOK
  OBVIOUS
<1>1. /\ LCD \in Events /\ SPU \in Events /\ RTC \in Events
      /\ SchedListMask \subseteq Events
  BY EventsAssumption DEF Init
<1>2. Timestamp \in [Events -> Nat]
  <2>1. PICK p \in Periods[SPU] :
          Timestamp = [e \in Events |-> CASE e = SPU -> p
                                         [] e = RTC -> RTCClock \div RTCRate
                                         [] OTHER -> 0]
    BY DEF Init
  <2>2. p \in Nat /\ RTCClock \div RTCRate \in Nat
    BY <1>1, RTCDivision, TimeAssumption
  <2> QED BY <2>1, <2>2
<1>3. line \in 0..LastLine
  BY TimeAssumption DEF Init
<1>4. /\ SysTimestamp \in Nat /\ ARM9Timestamp \in Nat /\ ARM9Target \in Nat
      /\ ARM7Timestamp \in Nat /\ ARM7Target \in Nat /\ CurCPU \in {0, 1}
      /\ target \in Nat /\ frametarget \in Nat
  BY DEF Init
<1>5. /\ pc \in PCs /\ Running \in BOOLEAN /\ Sleep \in BOOLEAN
      /\ Wakeup \in BOOLEAN /\ TotalScanlines \in BOOLEAN
      /\ mask \subseteq Events
  BY DEF Init, PCs
<1>6. TimerError \in 0..(RTCRate - 1) /\ latest \in Nat
  BY RTCDivision, TimeAssumption DEF Init
<1> QED BY <1>1, <1>2, <1>3, <1>4, <1>5, <1>6 DEF TypeOK

(***************************************************************************)
(* The new targets computed by Reschedule are times.                       *)
(***************************************************************************)
LEMMA LowerType ==
  ASSUME NEW tgt \in Nat, NEW t \in Nat
  PROVE  /\ Lower9(tgt, t) \in Nat
         /\ Lower7(tgt, t) \in Nat
BY ClockMultiple DEF Lower9, Lower7

LEMMA NowType == TypeOK => ARM9Now \in Nat /\ Now \in Nat
BY ClockDivision DEF TypeOK, ARM9Now, Now

LEMMA CPUEventOpType ==
  TypeOK /\ CPUEventOp =>
    /\ Timestamp' \in [Events -> Nat]
    /\ SchedListMask' \subseteq Events
    /\ ARM9Target' \in Nat
    /\ ARM7Target' \in Nat
<1> SUFFICES ASSUME TypeOK, CPUEventOp
             PROVE  /\ Timestamp' \in [Events -> Nat]
                    /\ SchedListMask' \subseteq Events
                    /\ ARM9Target' \in Nat
                    /\ ARM7Target' \in Nat
  OBVIOUS
<1> USE EventsAssumption, TimeAssumption DEF TypeOK
<1>1. CASE NoEventOp
  BY <1>1 DEF NoEventOp, schedvars
<1>2. ASSUME NEW e \in CPUEvents,
             ScheduleEvent(e) \/ CancelEvent(e) \/ RestartEvent(e)
      PROVE  /\ Timestamp' \in [Events -> Nat]
             /\ SchedListMask' \subseteq Events
             /\ ARM9Target' \in Nat
             /\ ARM7Target' \in Nat
  <2>1. e \in Events /\ Now + Delay[e] \in Nat
    BY NowType
  <2>2. /\ Lower9(ARM9Target, Now + Delay[e]) \in Nat
        /\ Lower7(ARM7Target, Now + Delay[e]) \in Nat
    BY <2>1, LowerType
  <2>3. CASE ScheduleEvent(e)
    BY <2>1, <2>2, <2>3 DEF ScheduleEvent, Reschedule
  <2>4. CASE CancelEvent(e)
    BY <2>4 DEF CancelEvent
  <2>5. CASE RestartEvent(e)
    BY <2>1, <2>2, <2>5 DEF RestartEvent, Reschedule
  <2> QED BY <1>2, <2>3, <2>4, <2>5
<1> QED BY <1>1, <1>2 DEF CPUEventOp

LEMMA HandlerSchedulesType ==
  ASSUME TypeOK, NEW m \in SUBSET Events, NEW e \in Events,
         NEW keep \in BOOLEAN, NEW p \in Nat, NEW c \in Events \cup {NoEvent},
         HandlerSchedules(m, e, keep, p, c)
  PROVE  /\ Timestamp' \in [Events -> Nat]
         /\ SchedListMask' \subseteq Events
         /\ ARM9Target' \in Nat
         /\ ARM7Target' \in Nat
<1> DEFINE again == keep /\ e \notin m
           start == c # NoEvent /\ c \notin m
           tc    == Now + Delay[c]
           te    == Timestamp[e] + p
           tgt9  == IF start THEN Lower9(ARM9Target, tc) ELSE ARM9Target
           tgt7  == IF start THEN Lower7(ARM7Target, tc) ELSE ARM7Target
<1>1. te \in Nat
  BY DEF TypeOK
<1>2. start => c \in Events /\ tc \in Nat
  BY NowType, TimeAssumption
<1>3. tgt9 \in Nat /\ tgt7 \in Nat
  BY <1>2, LowerType DEF TypeOK
<1>4. Lower9(tgt9, te) \in Nat /\ Lower7(tgt7, te) \in Nat
  BY <1>1, <1>3, LowerType
<1>5. Timestamp' \in [Events -> Nat]
  BY <1>1, <1>2 DEF HandlerSchedules, PeriodicTime, TypeOK
<1>6. SchedListMask' \subseteq Events
  BY <1>2 DEF HandlerSchedules, PeriodicTime
<1>7. ARM9Target' \in Nat /\ ARM7Target' \in Nat
  BY <1>3, <1>4 DEF HandlerSchedules, PeriodicTime
<1> QED BY <1>5, <1>6, <1>7

(***************************************************************************)
(* The LCD, the SPU and the RTC are never left over, so that the sleep     *)
(* loop, which goes by the SPU and the RTC, always goes forward.           *)
(***************************************************************************)
LEMMA NotLeftOver ==
  ASSUME TypeOK, NEW e \in {LCD, SPU, RTC}, LeftOver(e)
  PROVE  Timestamp[e] > SysTimestamp
<1>1. /\ e \in Events \ CPUEvents /\ e # RTC /\ e \in {LCD, SPU}
      /\ Timestamp[e] \in Nat /\ SysTimestamp \in Nat
  BY EventsAssumption DEF LeftOver, TypeOK
<1>2. PICK p \in Periods[e] :
        (SysTimestamp - Timestamp[e] + p) * ClockRatio < MaxLate(e)
  BY DEF LeftOver
<1>3. p \in Nat /\ p * ClockRatio >= MaxCost /\ MaxLate(e) = MaxCost
  BY <1>1, MaxLateType, TimeAssumption, PeriodAssumption
<1> DEFINE d == SysTimestamp - Timestamp[e]
<1>4. d \in Int /\ (d + p) * ClockRatio < MaxCost /\ MaxCost \in Nat
  BY <1>1, <1>2, <1>3, TimeAssumption
<1> HIDE DEF d
<1>5. d < 0
  <2>1. CASE ClockRatio = 2
    BY <1>3, <1>4, <2>1
  <2>2. CASE ClockRatio = 4
    BY <1>3, <1>4, <2>2
  <2> QED BY <2>1, <2>2, TimeAssumption
<1> QED BY <1>1, <1>5 DEF d

LEMMA SleepTarget ==
  ASSUME TypeOK, EventsInFuture, pc = "sleep", SysTimestamp < frametarget,
         NEW t, NextTargetSleep(t)
  PROVE  t \in Nat /\ t > SysTimestamp
<1>1. \/ t = frametarget
      \/ \E e \in SchedListMask \cap {SPU, RTC} : t = Timestamp[e]
  BY DEF NextTargetSleep
<1>2. CASE t = frametarget
  BY <1>2 DEF TypeOK
<1>3. ASSUME NEW e \in SchedListMask \cap {SPU, RTC}, t = Timestamp[e]
      PROVE  t \in Nat /\ t > SysTimestamp
  <2>1. Timestamp[e] \in Nat
    BY DEF TypeOK
  <2>2. Timestamp[e] > SysTimestamp \/ LeftOver(e)
    BY <1>3 DEF EventsInFuture, AtRest
  <2> QED BY <1>3, <2>1, <2>2, NotLeftOver
<1> QED BY <1>1, <1>2, <1>3

(***************************************************************************)
(* Every action preserves the types.  In sleep mode this needs every event *)
(* to be handled: RunSystemSleep subtracts the system time.                *)
(***************************************************************************)
LEMMA TypeStep == TypeOK /\ EventsInFuture /\ [Next]_vars => TypeOK'
<1> SUFFICES ASSUME TypeOK, EventsInFuture, [Next]_vars PROVE TypeOK'
  OBVIOUS
<1> USE EventsAssumption, TimeAssumption
        DEF TypeOK, PCs, ARM9Turn, cpuvars, schedvars, localvars, gpuvars,
            clockvars
<1>ev. LCD \in Events /\ SPU \in Events /\ RTC \in Events
  OBVIOUS
<1>sw. ASSUME NEW n \in Nat, SwitchToARM7(n), Running' \in BOOLEAN
       PROVE  TypeOK'
  BY <1>sw, ClockDivision DEF SwitchToARM7
<1>rtc. /\ RTCCycles \div RTCRate \in Nat
        /\ RTCCycles % RTCRate \in 0..(RTCRate - 1)
  BY RTCDelayType
<1>1. CASE BeginFrame
  BY <1>1 DEF BeginFrame
<1>2. CASE UserInput
  BY <1>2 DEF UserInput, SetIRQ
<1>3. CASE StartFrame
  <2>1. PICK p \in Delays(LCD), c \in Chained[LCD] \cup {NoEvent} :
              HandlerSchedules(SchedListMask, LCD, TRUE, p, c)
    BY <1>3 DEF StartFrame
  <2>2. LCD \in Events /\ c \in Events \cup {NoEvent} /\ p \in Nat
    BY <1>ev, DelaysType
  <2>3. /\ Timestamp' \in [Events -> Nat] /\ SchedListMask' \subseteq Events
        /\ ARM9Target' \in Nat /\ ARM7Target' \in Nat
    BY <2>1, <2>2, HandlerSchedulesType
  <2> QED BY <1>3, <2>3 DEF StartFrame
<1>4. CASE ResumeFrame
  BY <1>4 DEF ResumeFrame
<1>5. CASE FrameDone
  BY <1>5 DEF FrameDone, EndFrame
<1>6. CASE Iterate
  <2>1. PICK t \in {Timestamp[e] : e \in SchedListMask}
                      \cup {SysTimestamp + MaxIter} :
              ARM9Target' = t * ClockRatio
    BY <1>6 DEF Iterate
  <2>2. ARM9Target' \in Nat
    BY <2>1, ClockMultiple
  <2> QED BY <1>6, <2>2 DEF Iterate
<1>7. CASE ARM9Step
  <2>1. /\ Timestamp' \in [Events -> Nat] /\ SchedListMask' \subseteq Events
        /\ ARM9Target' \in Nat /\ ARM7Target' \in Nat
    BY <1>7, CPUEventOpType DEF ARM9Step
  <2> QED BY <1>7, <2>1 DEF ARM9Step
<1>8. CASE ARM9Exit
  BY <1>8, <1>sw DEF ARM9Exit
<1>9. CASE ARM9PowerOff
  BY <1>9, <1>sw DEF ARM9PowerOff
<1>10. CASE ARM9Halted
  BY <1>10, <1>sw DEF ARM9Halted
<1>11. CASE ARM9Stalled
  <2>1. PICK cycles \in 0..(MaxIter + Margin) :
              LET t == ARM9Timestamp + cycles * ClockRatio
              IN  SwitchToARM7(IF t < ARM9Target THEN t ELSE ARM9Target)
    BY <1>11 DEF ARM9Stalled
  <2>2. ARM9Timestamp + cycles * ClockRatio \in Nat
    BY ClockMultiple
  <2> QED BY <1>11, <2>1, <2>2, <1>sw DEF ARM9Stalled
<1>12. CASE ARM7Step
  <2>1. /\ Timestamp' \in [Events -> Nat] /\ SchedListMask' \subseteq Events
        /\ ARM9Target' \in Nat /\ ARM7Target' \in Nat
    BY <1>12, CPUEventOpType DEF ARM7Step
  <2> QED BY <1>12, <2>1 DEF ARM7Step
<1>13. CASE ARM7Control
  BY <1>13 DEF ARM7Control, SetIRQ
<1>14. CASE ARM7Halted
  BY <1>14 DEF ARM7Halted
<1>15. CASE ARM7Again
  BY <1>15 DEF ARM7Again
<1>16. CASE RunSystem
  BY <1>16 DEF RunSystem, Later
<1>17. ASSUME NEW e \in Events, RunEvent(e) PROVE TypeOK'
  <2>1. PICK p \in Delays(e) \cup {0}, c \in Chained[e] \cup {NoEvent} :
              HandlerSchedules(SchedListMask \ {e}, e, p # 0, p, c)
    BY <1>17 DEF RunEvent
  <2>2. /\ c \in Events \cup {NoEvent} /\ SchedListMask \ {e} \in SUBSET Events
        /\ p \in Nat /\ (p # 0) \in BOOLEAN
    BY DelaysType
  <2>3. /\ Timestamp' \in [Events -> Nat] /\ SchedListMask' \subseteq Events
        /\ ARM9Target' \in Nat /\ ARM7Target' \in Nat
    BY <2>1, <2>2, HandlerSchedulesType
  <2>4. Sleep' \in BOOLEAN /\ Wakeup' \in BOOLEAN
    BY <1>17 DEF RunEvent, SetIRQ
  <2>5. line' \in 0..LastLine
    BY <1>17 DEF RunEvent, FinishFrame
  <2>6. TimerError' \in 0..(RTCRate - 1) /\ latest' \in Nat
    BY <1>17, <1>rtc DEF RunEvent
  <2> QED BY <1>17, <2>3, <2>4, <2>5, <2>6 DEF RunEvent
<1>18. CASE SystemDone
  BY <1>18 DEF SystemDone, EndFrame, IsDue
<1>19. CASE EnterSleepLoop
  BY <1>19 DEF EnterSleepLoop
<1>20. CASE SleepStep
  <2>1. PICK t \in {Timestamp[e] : e \in SchedListMask} \cup {frametarget} :
              /\ NextTargetSleep(t)
              /\ ARM9Timestamp' = t * ClockRatio
              /\ ARM7Timestamp' = t /\ latest' = Later(latest, t)
              /\ \E irq \in BOOLEAN : RunSystemSleep(t, irq)
    BY <1>20 DEF SleepStep
  <2>2. PICK irq \in BOOLEAN : RunSystemSleep(t, irq)
    BY <2>1
  <2>3. t \in Nat /\ t * ClockRatio \in Nat /\ t - SysTimestamp \in Nat
    <3>1. t \in Nat /\ t > SysTimestamp
      BY <1>20, <2>1, SleepTarget DEF SleepStep
    <3> QED BY <3>1, ClockMultiple
  <2> DEFINE next == Timestamp[RTC] + RTCCycles \div RTCRate
  <2>4. Timestamp' \in [Events -> Nat]
    <3> DEFINE new(x) == IF x \notin SchedListMask \/ Timestamp[x] > t
                         THEN Timestamp[x]
                         ELSE IF x = RTC THEN next
                         ELSE Timestamp[x] + (t - SysTimestamp)
    <3>1. Timestamp' = [x \in Events |-> new(x)]
      BY <2>2 DEF RunSystemSleep, PeriodicTime, Skipped
    <3>2. \A x \in Events : new(x) \in Nat
      BY <1>ev, <1>rtc, <2>3
    <3> QED BY <3>1, <3>2
  <2>5. next \in Nat
    BY <1>ev, <1>rtc
  <2>6. Lower9(ARM9Target, next) \in Nat /\ Lower7(ARM7Target, next) \in Nat
    BY <2>5, LowerType
  <2>7. ARM9Target' \in Nat /\ ARM7Target' \in Nat /\ SysTimestamp' \in Nat
    BY <2>2, <2>3, <2>6 DEF RunSystemSleep, PeriodicTime, Skipped
  <2>8. Sleep' \in BOOLEAN /\ Wakeup' \in BOOLEAN
    BY <2>2 DEF RunSystemSleep, PeriodicTime, Skipped, SetIRQ
  <2>9. TimerError' \in 0..(RTCRate - 1) /\ latest' \in Nat
    BY <1>rtc, <2>1, <2>2, <2>3 DEF RunSystemSleep, Later
  <2> QED BY <1>20, <2>1, <2>3, <2>4, <2>7, <2>8, <2>9 DEF SleepStep
<1>21. CASE LeaveSleepLoop
  BY <1>21 DEF LeaveSleepLoop
<1>22. CASE BlankFrame
  BY <1>22 DEF BlankFrame, EndFrame
<1>23. CASE AtMaxTime
  BY <1>23 DEF AtMaxTime, vars
<1>24. CASE UNCHANGED vars
  BY <1>24 DEF vars
<1> QED
  BY <1>1, <1>2, <1>3, <1>4, <1>5, <1>6, <1>7, <1>8, <1>9, <1>10, <1>11, <1>12,
     <1>13, <1>14, <1>15, <1>16, <1>17, <1>18, <1>19, <1>20, <1>21, <1>22, <1>23, <1>24 DEF Next

-----------------------------------------------------------------------------
(***************************************************************************)
(* What a CPU step does to the event list: the events it did not touch are *)
(* as they were; the others are its own, at least one cycle ahead of the   *)
(* CPU, and the target of the CPU is lowered to them.                      *)
(***************************************************************************)
LEMMA CPUEventOpEffect ==
  ASSUME TypeOK, CPUEventOp
  PROVE  /\ \A e \in Events \ CPUEvents :
              /\ e \in SchedListMask' <=> e \in SchedListMask
              /\ Timestamp'[e] = Timestamp[e]
         /\ \/ /\ ARM9Target' = ARM9Target /\ ARM7Target' = ARM7Target
               /\ SchedListMask' \subseteq SchedListMask
               /\ Timestamp' = Timestamp
            \/ \E e \in CPUEvents :
                 /\ SchedListMask' \subseteq SchedListMask \cup {e}
                 /\ Timestamp' = [Timestamp EXCEPT ![e] = Now + Delay[e]]
                 /\ Reschedule(Now + Delay[e])
<1> USE EventsAssumption DEF TypeOK
<1>1. CASE NoEventOp
  BY <1>1 DEF NoEventOp, schedvars
<1>2. ASSUME NEW e \in CPUEvents,
             ScheduleEvent(e) \/ CancelEvent(e) \/ RestartEvent(e)
      PROVE  /\ \A x \in Events \ CPUEvents :
                  /\ x \in SchedListMask' <=> x \in SchedListMask
                  /\ Timestamp'[x] = Timestamp[x]
             /\ \/ /\ ARM9Target' = ARM9Target /\ ARM7Target' = ARM7Target
                   /\ SchedListMask' \subseteq SchedListMask
                   /\ Timestamp' = Timestamp
                \/ /\ SchedListMask' \subseteq SchedListMask \cup {e}
                   /\ Timestamp' = [Timestamp EXCEPT ![e] = Now + Delay[e]]
                   /\ Reschedule(Now + Delay[e])
  <2>1. CASE ScheduleEvent(e)
    BY <2>1 DEF ScheduleEvent
  <2>2. CASE CancelEvent(e)
    BY <2>2 DEF CancelEvent
  <2>3. CASE RestartEvent(e)
    BY <2>3 DEF RestartEvent
  <2> QED BY <1>2, <2>1, <2>2, <2>3
<1> QED BY <1>1, <1>2 DEF CPUEventOp

(***************************************************************************)
(* What a handler does to the event list.                                  *)
(***************************************************************************)
LEMMA HandlerSchedulesEffect ==
  ASSUME TypeOK, NEW m \in SUBSET Events, NEW e \in Events,
         NEW keep \in BOOLEAN, NEW p \in Nat, NEW c \in Events \cup {NoEvent},
         HandlerSchedules(m, e, keep, p, c)
  PROVE  /\ m \subseteq SchedListMask'
         /\ keep => e \in SchedListMask'
         /\ \A x \in m : Timestamp'[x] = Timestamp[x]
         /\ \A x \in SchedListMask' \ m :
              \/ x = e /\ keep /\ Timestamp'[x] = Timestamp[e] + p
              \/ x = c /\ Timestamp'[x] = Now + Delay[x]
         /\ \A x \in Events \ {e, c} :
              /\ Timestamp'[x] = Timestamp[x]
              /\ x \in SchedListMask' <=> x \in m
         /\ ~keep /\ c # e => /\ Timestamp'[e] = Timestamp[e]
                              /\ e \in SchedListMask' <=> e \in m
<1> DEFINE again == keep /\ e \notin m
           start == c # NoEvent /\ c \notin m
<1>1. SchedListMask' = m \cup (IF start THEN {c} ELSE {})
                         \cup (IF again THEN {e} ELSE {})
  BY DEF HandlerSchedules, PeriodicTime
<1>2. \A x \in Events : Timestamp'[x] =
         IF again /\ x = e THEN Timestamp[e] + p
         ELSE IF start /\ x = c THEN Now + Delay[c]
         ELSE Timestamp[x]
  BY DEF HandlerSchedules, PeriodicTime
<1>3. SchedListMask' \subseteq Events
  BY <1>1
<1> QED BY <1>1, <1>2, <1>3


-----------------------------------------------------------------------------
(***************************************************************************)
(* The actions that move neither the CPUs nor the event list.              *)
(***************************************************************************)
LEMMA ControlStep ==
  ASSUME IInv, TypeOK',
         \/ BeginFrame \/ UserInput \/ ResumeFrame \/ FrameDone
         \/ ARM7Control \/ ARM7Halted \/ ARM7Again \/ SystemDone
         \/ EnterSleepLoop \/ LeaveSleepLoop \/ BlankFrame \/ AtMaxTime
         \/ UNCHANGED vars
  PROVE  IInv'
<1> USE DEF IInv, TypeOK, EventsInFuture, AtRest, LatenessBound, CPUsInStep, ARM9Now, ARM9TurnInv,
            ARM7TurnInv, SystemInv, ARM7Ahead, LCDRecent, LCDInv, SleepInv,
            NearInv, Near, LeftOver, LateAt, BehindTime, Overdue,
            ARM9Turn, cpuvars, schedvars, localvars, gpuvars, clockvars
<1>1. CASE BeginFrame
  BY <1>1 DEF BeginFrame
<1>2. CASE UserInput
  BY <1>2 DEF UserInput, SetIRQ
<1>3. CASE ResumeFrame
  BY <1>3 DEF ResumeFrame
<1>4. CASE FrameDone
  BY <1>4 DEF FrameDone, EndFrame
<1>5. CASE ARM7Control
  BY <1>5 DEF ARM7Control, SetIRQ
<1>6. CASE ARM7Halted
  BY <1>6, TimeAssumption DEF ARM7Halted
<1>7. CASE ARM7Again
  BY <1>7 DEF ARM7Again
<1>8. CASE SystemDone
  BY <1>8 DEF SystemDone, EndFrame, IsDue
<1>9. CASE EnterSleepLoop
  BY <1>9 DEF EnterSleepLoop
<1>10. CASE LeaveSleepLoop
  BY <1>10 DEF LeaveSleepLoop
<1>11. CASE BlankFrame
  BY <1>11 DEF BlankFrame, EndFrame
<1>12. CASE AtMaxTime
  BY <1>12 DEF AtMaxTime, vars
<1>13. CASE UNCHANGED vars
  BY <1>13 DEF vars
<1> QED
  BY <1>1, <1>2, <1>3, <1>4, <1>5, <1>6, <1>7, <1>8, <1>9, <1>10, <1>11, <1>12, <1>13

(***************************************************************************)
(* An event that is left over is short, and less late than RunSystem may   *)
(* find it.                                                                *)
(***************************************************************************)
LEMMA LateWhenLeftOver ==
  ASSUME TypeOK, NEW e \in Events, Timestamp[e] > SysTimestamp \/ LeftOver(e)
  PROVE  /\ (SysTimestamp - Timestamp[e]) * ClockRatio < MaxLate(e)
         /\ Timestamp[e] > SysTimestamp \/ e \in Short
<1> DEFINE d == SysTimestamp - Timestamp[e]
<1>1. /\ Timestamp[e] \in Nat /\ SysTimestamp \in Nat /\ d \in Int
      /\ MaxLate(e) \in Nat /\ MaxLate(e) > 0
  BY MaxLateType, TimeAssumption DEF TypeOK
<1>2. CASE Timestamp[e] > SysTimestamp
  <2>1. d <= 0 /\ 0 * ClockRatio = 0
    BY <1>1, <1>2, TimeAssumption
  <2> HIDE DEF d
  <2>2. d * ClockRatio <= 0 /\ d * ClockRatio \in Int
    <3>1. CASE ClockRatio = 2
      BY <1>1, <2>1, <3>1
    <3>2. CASE ClockRatio = 4
      BY <1>1, <2>1, <3>2
    <3> QED BY <3>1, <3>2, TimeAssumption
  <2>3. d * ClockRatio < MaxLate(e)
    BY <1>1, <2>2
  <2> QED BY <1>2, <2>3 DEF d
<1>3. CASE LeftOver(e) /\ Timestamp[e] <= SysTimestamp
  <2>1. PICK p \in Periods[e] : (d + p) * ClockRatio < MaxLate(e)
    BY <1>3 DEF LeftOver
  <2>2. p \in Nat \ {0} /\ d >= 0
    BY <1>1, <1>3, TimeAssumption
  <2> HIDE DEF d
  <2>3. /\ d * ClockRatio <= (d + p) * ClockRatio
        /\ p * ClockRatio <= (d + p) * ClockRatio
        /\ d * ClockRatio \in Int /\ p * ClockRatio \in Int
        /\ (d + p) * ClockRatio \in Int
    <3>1. CASE ClockRatio = 2
      BY <1>1, <2>2, <3>1
    <3>2. CASE ClockRatio = 4
      BY <1>1, <2>2, <3>2
    <3> QED BY <3>1, <3>2, TimeAssumption
  <2>4. d * ClockRatio < MaxLate(e) /\ p * ClockRatio < MaxLate(e)
    BY <1>1, <2>1, <2>3
  <2>5. e \in Short
    BY <1>3, <2>4 DEF Short, LeftOver
  <2> QED BY <2>4, <2>5 DEF d
<1> QED BY <1>1, <1>2, <1>3

(***************************************************************************)
(* NextTarget is no later than any scheduled event.  It lies in the        *)
(* future, or is the time of a short event that is overdue.                *)
(***************************************************************************)
LEMMA IterateStep ==
  ASSUME IInv, TypeOK', Iterate
  PROVE  IInv'
<1> USE DEF IInv, TypeOK
<1>1. PICK t \in {Timestamp[e] : e \in SchedListMask}
                   \cup {SysTimestamp + MaxIter} :
           NextTarget(t) /\ ARM9Target' = t * ClockRatio
  BY DEF Iterate
<1>2. /\ t \in Nat
      /\ t <= SysTimestamp + MaxIter + Margin
      /\ \A e \in SchedListMask : t <= Timestamp[e]
      /\ t > SysTimestamp \/ \E e \in SchedListMask : t = Timestamp[e]
  BY <1>1, TimeAssumption DEF NextTarget
<1>3. /\ ARM9Target' % ClockRatio = 0
      /\ ARM9Target' <= (SysTimestamp + MaxIter + Margin) * ClockRatio
      /\ \A e \in SchedListMask : ARM9Target' <= Timestamp[e] * ClockRatio
  <2>1. SysTimestamp + MaxIter + Margin \in Nat
    BY TimeAssumption
  <2>2. t * ClockRatio <= (SysTimestamp + MaxIter + Margin) * ClockRatio
    BY <1>2, <2>1, ClockOrder
  <2>3. ASSUME NEW e \in SchedListMask
        PROVE  t * ClockRatio <= Timestamp[e] * ClockRatio
    BY <1>2, ClockOrder
  <2> QED BY <1>1, <1>2, <2>2, <2>3, ClockMultiple
<1>4. /\ SysTimestamp * ClockRatio <= ARM9Timestamp
      /\ ARM9Timestamp < SysTimestamp * ClockRatio + ClockRatio
  BY ClockDivision DEF Iterate, CPUsInStep, AtRest, ARM9Now
<1>c. /\ pc' = "arm9" /\ CurCPU' = 0 /\ ~TotalScanlines
      /\ SysTimestamp' = SysTimestamp /\ ARM9Timestamp' = ARM9Timestamp
      /\ SchedListMask' = SchedListMask /\ Timestamp' = Timestamp
      /\ TotalScanlines' = TotalScanlines
  BY DEF Iterate, schedvars, gpuvars
<1>5. ASSUME t > SysTimestamp PROVE ARM9TurnInv'
  <2>1. SysTimestamp * ClockRatio + ClockRatio <= t * ClockRatio
    BY <1>2, <1>5, ClockOrder
  <2>2. ARM9Timestamp < ARM9Target'
    BY <1>1, <1>2, <1>4, <2>1, ClockMultiple, TimeAssumption
  <2>3. ARM9TurnInv'
    BY <1>3, <1>4, <1>c, <2>2 DEF ARM9TurnInv
  <2> QED BY <2>3
<1>6. ASSUME t <= SysTimestamp PROVE ARM9TurnInv'
  <2>1. \A e \in SchedListMask : Timestamp[e] > SysTimestamp \/ LeftOver(e)
    BY DEF Iterate, EventsInFuture, AtRest
  <2>2. PICK e \in SchedListMask : t = Timestamp[e]
    BY <1>2, <1>6
  <2>3. Overdue(e)
    BY <1>2, <1>6, <2>1, <2>2, LateWhenLeftOver DEF Overdue
  <2>4. ARM9Target' \div ClockRatio = t
    BY <1>1, <1>2, ClockMultiple
  <2>5. BehindTime(ARM9Target \div ClockRatio)'
    BY <2>2, <2>3, <2>4 DEF BehindTime, Overdue, Iterate, schedvars
  <2>6. LateAt(SysTimestamp)
    BY <2>1, LateWhenLeftOver DEF LateAt
  <2>7. LateAt(SysTimestamp)'
    BY <2>6 DEF LateAt, Iterate, schedvars
  <2>8. ARM9Now' = SysTimestamp'
    BY DEF Iterate, CPUsInStep, AtRest, ARM9Now
  <2> HIDE DEF IInv, TypeOK
  <2> QED BY <1>3, <1>4, <1>c, <2>5, <2>7, <2>8 DEF ARM9TurnInv
<1>7. ARM9TurnInv'
  BY <1>2, <1>5, <1>6
<1>8. ARM7Ahead'
  BY DEF ARM7Ahead, Iterate, CPUsInStep, AtRest, clockvars
<1>9. NearInv'
  BY DEF NearInv, Near, Iterate, schedvars, clockvars
<1> QED
  BY <1>7, <1>8, <1>9 DEF Iterate, EventsInFuture, AtRest, LatenessBound, CPUsInStep,
     ARM7TurnInv, SystemInv, LCDInv, SleepInv, ARM9Turn

(***************************************************************************)
(* What is later than something near the latest time is near it too.       *)
(***************************************************************************)
LEMMA NearLater ==
  ASSUME TypeOK, NEW s \in Nat, NEW t \in Nat, s <= t, Near(s)
  PROVE  Near(t)
<1>1. CASE s >= latest
  BY <1>1 DEF Near, TypeOK
<1>2. ASSUME NEW e \in Short, (latest - s) * ClockRatio < MaxLate(e)
      PROVE  Near(t)
  <2>1. (latest - t) * ClockRatio < MaxLate(e)
    <3>1. latest \in Nat /\ MaxLate(e) \in Nat
      BY MaxLateType DEF TypeOK
    <3>2. CASE ClockRatio = 2
      BY <1>2, <3>1, <3>2
    <3>3. CASE ClockRatio = 4
      BY <1>2, <3>1, <3>3
    <3> QED BY <3>2, <3>3, TimeAssumption
  <2> QED BY <2>1 DEF Near
<1> QED BY <1>1, <1>2 DEF Near

(***************************************************************************)
(* An event list in which no event is earlier than it was, or past.        *)
(***************************************************************************)
LEMMA NearKept ==
  ASSUME TypeOK, TypeOK', NearInv,
         SysTimestamp' = SysTimestamp, latest' = latest,
         \A x \in SchedListMask' : \/ x \in SchedListMask /\ Timestamp'[x] >= Timestamp[x]
                                   \/ Timestamp'[x] >= SysTimestamp
  PROVE  NearInv'
<1>2. ASSUME NEW x \in Short \cap SchedListMask' PROVE Near(Timestamp'[x])
  <2>1. /\ x \in Events /\ Timestamp'[x] \in Nat /\ SysTimestamp \in Nat
    BY DEF TypeOK
  <2>2. CASE x \in SchedListMask /\ Timestamp'[x] >= Timestamp[x]
    BY <2>1, <2>2, NearLater DEF NearInv, TypeOK
  <2>3. CASE Timestamp'[x] >= SysTimestamp
    BY <2>1, <2>3, NearLater DEF NearInv
  <2> QED BY <2>2, <2>3
<1>3. Near(SysTimestamp)
  BY DEF NearInv
<1> QED BY <1>2, <1>3 DEF NearInv, Near

(***************************************************************************)
(* An ARM9 step: an event it schedules is ahead of the ARM9, and lowers    *)
(* its target.                                                             *)
(***************************************************************************)
LEMMA ARM9StepStep ==
  ASSUME IInv, TypeOK', ARM9Step
  PROVE  IInv'
<1> USE DEF IInv, TypeOK
<1>1. /\ CurCPU = 0 /\ ~TotalScanlines
      /\ ARM9Timestamp < ARM9Target
      /\ SysTimestamp * ClockRatio <= ARM9Timestamp
      /\ ARM9Target % ClockRatio = 0
      /\ ARM9Target <= (SysTimestamp + MaxIter + Margin) * ClockRatio
      /\ \A e \in SchedListMask : ARM9Target <= Timestamp[e] * ClockRatio
  BY DEF ARM9Step, ARM9TurnInv
<1>2. CPUEventOp
  BY DEF ARM9Step
<1>3. /\ ARM9Target' <= ARM9Target
      /\ ARM9Timestamp < ARM9Target'
      /\ ARM9Target' % ClockRatio = 0
      /\ \A e \in SchedListMask' :
           /\ \/ e \in SchedListMask /\ Timestamp'[e] = Timestamp[e]
              \/ Timestamp'[e] >= SysTimestamp
           /\ ARM9Target' <= Timestamp'[e] * ClockRatio
  <2>1. CASE /\ ARM9Target' = ARM9Target
             /\ SchedListMask' \subseteq SchedListMask
             /\ Timestamp' = Timestamp
    BY <1>1, <2>1
  <2>2. ASSUME NEW e \in CPUEvents,
               SchedListMask' \subseteq SchedListMask \cup {e},
               Timestamp' = [Timestamp EXCEPT ![e] = Now + Delay[e]],
               Reschedule(Now + Delay[e])
        PROVE  /\ ARM9Target' <= ARM9Target
               /\ ARM9Timestamp < ARM9Target'
               /\ ARM9Target' % ClockRatio = 0
               /\ \A x \in SchedListMask' :
                    /\ \/ x \in SchedListMask /\ Timestamp'[x] = Timestamp[x]
                       \/ Timestamp'[x] >= SysTimestamp
                    /\ ARM9Target' <= Timestamp'[x] * ClockRatio
    <3> DEFINE t == Now + Delay[e]
               k == ARM9Target \div ClockRatio
    <3>1. /\ e \in Events /\ ARM9Now \in Nat /\ Now = ARM9Now
          /\ t \in Nat /\ ARM9Now < t
      BY <1>1, NowType, EventsAssumption, TimeAssumption DEF Now
    <3>2. /\ ARM9Now * ClockRatio <= ARM9Timestamp
          /\ ARM9Timestamp < ARM9Now * ClockRatio + ClockRatio
      BY ClockDivision DEF ARM9Now
    <3>3. /\ t * ClockRatio \in Nat /\ ARM9Timestamp < t * ClockRatio
          /\ ARM9Now * ClockRatio \in Nat
      BY <3>1, <3>2, ClockOrder, ClockMultiple, TimeAssumption
    <3>4. t > SysTimestamp
      BY <1>1, <3>1, <3>3, ClockOrder, ClockMultiple
    <3>5. k \in Nat /\ k * ClockRatio = ARM9Target
      BY <1>1, ClockDivision, ClockAligned
    <3>6. ARM9Target' = IF t < k THEN t * ClockRatio ELSE ARM9Target
      BY <1>1, <2>2 DEF Reschedule, Lower9
    <3>7. /\ t < k => t * ClockRatio <= ARM9Target
          /\ ~(t < k) => ARM9Target <= t * ClockRatio
      BY <3>1, <3>5, ClockOrder
    <3>8. (t * ClockRatio) % ClockRatio = 0
      BY <3>1, ClockMultiple
    <3>9. Timestamp'[e] = t /\ \A x \in Events \ {e} : Timestamp'[x] = Timestamp[x]
      BY <2>2, <3>1
    <3>10. ARM9Target' <= ARM9Target /\ ARM9Target' <= t * ClockRatio
      BY <3>3, <3>6, <3>7
    <3>11. ARM9Timestamp < ARM9Target' /\ ARM9Target' % ClockRatio = 0
      BY <1>1, <3>3, <3>6, <3>8
    <3>12. ASSUME NEW x \in SchedListMask'
           PROVE  /\ \/ x \in SchedListMask /\ Timestamp'[x] = Timestamp[x]
                     \/ Timestamp'[x] >= SysTimestamp
                  /\ ARM9Target' <= Timestamp'[x] * ClockRatio
      <4>1. CASE x = e
        BY <3>1, <3>4, <3>9, <3>10, <4>1
      <4>2. CASE x # e
        <5>1. /\ x \in SchedListMask /\ Timestamp'[x] = Timestamp[x]
              /\ Timestamp[x] \in Nat /\ Timestamp[x] * ClockRatio \in Nat
          BY <2>2, <3>9, <4>2, ClockMultiple
        <5> QED BY <1>1, <3>10, <5>1
      <4> QED BY <4>1, <4>2
    <3> QED BY <3>10, <3>11, <3>12
  <2> QED BY <1>2, <2>1, <2>2, CPUEventOpEffect
<1>4. PICK cost \in 1..MaxCost : ARM9Timestamp' = ARM9Timestamp + cost
  BY DEF ARM9Step
<1>5. (SysTimestamp + MaxIter + Margin) * ClockRatio \in Nat
  BY TimeAssumption, ClockMultiple
<1>6. SysTimestamp * ClockRatio \in Nat
  BY ClockMultiple
<1>7. ARM9TurnInv'
  <2>1. /\ pc' = "run9" /\ CurCPU' = CurCPU /\ SysTimestamp' = SysTimestamp
        /\ TotalScanlines' = TotalScanlines
    BY DEF ARM9Step, gpuvars
  <2>2. /\ SysTimestamp * ClockRatio <= ARM9Timestamp'
        /\ ARM9Timestamp' < ARM9Target' + MaxCost
    <3>1. /\ cost \in Nat /\ cost <= MaxCost /\ MaxCost \in Nat
          /\ ARM9Target' \in Nat /\ ARM9Timestamp \in Nat
      BY <1>4, TimeAssumption
    <3>2. ARM9Timestamp < ARM9Target'
      BY <1>3
    <3>3. ARM9Timestamp' < ARM9Target' + MaxCost
      <4>1. \A a, b, c, d \in Nat : a < b /\ c <= d => a + c < b + d
        OBVIOUS
      <4>2. ARM9Timestamp + cost < ARM9Target' + MaxCost
        BY <3>1, <3>2, <4>1
      <4> QED BY <1>4, <4>2
    <3>4. SysTimestamp * ClockRatio <= ARM9Timestamp
      BY <1>1
    <3>5. SysTimestamp * ClockRatio <= ARM9Timestamp'
      BY <1>4, <1>6, <3>1, <3>4
    <3> QED BY <3>3, <3>5
  <2>3. ARM9Target' <= (SysTimestamp + MaxIter + Margin) * ClockRatio
    BY <1>1, <1>3, <1>5
  <2> QED BY <1>1, <1>3, <2>1, <2>2, <2>3 DEF ARM9TurnInv
<1>8. NearInv'
  BY <1>3, NearKept DEF ARM9Step, clockvars, TypeOK
<1> QED
  BY <1>7, <1>8 DEF ARM9Step, EventsInFuture, AtRest, LatenessBound, CPUsInStep,
     ARM7TurnInv, SystemInv, ARM7Ahead, LCDInv, SleepInv, ARM9Turn, clockvars

(***************************************************************************)
(* The end of the ARM9's turn at time n, when n is not a whole step past   *)
(* the ARM9's target.                                                      *)
(***************************************************************************)
LEMMA SwitchLate ==
  ASSUME IInv, pc \in ARM9Turn, NEW n \in Nat, n < ARM9Target + MaxCost
  PROVE  /\ LateAt(n \div ClockRatio)
         /\ (n \div ClockRatio) * ClockRatio
              < (SysTimestamp + MaxIter + Margin) * ClockRatio + MaxCost
<1> USE DEF IInv, TypeOK
<1> DEFINE t == n \div ClockRatio
<1>1. /\ ARM9Target <= (SysTimestamp + MaxIter + Margin) * ClockRatio
      /\ \A e \in SchedListMask : ARM9Target <= Timestamp[e] * ClockRatio
  BY DEF ARM9TurnInv
<1>2. t \in Nat /\ t * ClockRatio <= n /\ t * ClockRatio \in Nat
  BY ClockDivision, ClockMultiple
<1>3. (SysTimestamp + MaxIter + Margin) * ClockRatio \in Nat
  BY TimeAssumption, ClockMultiple
<1>4. t * ClockRatio < (SysTimestamp + MaxIter + Margin) * ClockRatio + MaxCost
  BY <1>1, <1>2, <1>3, TimeAssumption
<1> HIDE DEF t
<1>5. ASSUME NEW e \in SchedListMask
      PROVE  (t - Timestamp[e]) * ClockRatio < MaxLate(e)
  <2>1. /\ Timestamp[e] \in Nat /\ Timestamp[e] * ClockRatio \in Nat
        /\ MaxLate(e) \in Nat /\ MaxLate(e) >= MaxCost
    BY ClockMultiple, MaxLateType
  <2>2. t * ClockRatio - Timestamp[e] * ClockRatio < MaxLate(e)
    BY <1>1, <1>2, <2>1, TimeAssumption
  <2>3. (t - Timestamp[e]) * ClockRatio
          = t * ClockRatio - Timestamp[e] * ClockRatio
    BY <1>2, <2>1, TimeAssumption
  <2> QED BY <2>2, <2>3
<1> QED BY <1>4, <1>5 DEF LateAt, t

LEMMA SwitchStep ==
  ASSUME IInv, TypeOK', NEW n \in Nat, SwitchToARM7(n),
         LateAt(n \div ClockRatio),
         (n \div ClockRatio) * ClockRatio
           < (SysTimestamp + MaxIter + Margin) * ClockRatio + MaxCost,
         \/ SysTimestamp <= n \div ClockRatio
         \/ BehindTime(n \div ClockRatio)
  PROVE  IInv'
<1> USE DEF IInv, TypeOK
<1> DEFINE t == n \div ClockRatio
<1>1. /\ CurCPU' = 1 /\ pc' = "arm7" /\ target' = t /\ ARM9Timestamp' = n
      /\ SysTimestamp' = SysTimestamp /\ ARM7Timestamp' = ARM7Timestamp
      /\ SchedListMask' = SchedListMask /\ Timestamp' = Timestamp
      /\ TotalScanlines' = TotalScanlines /\ latest' = latest
      /\ ARM7Target' = IF ARM7Timestamp < t THEN t ELSE ARM7Target
      /\ pc \in ARM9Turn
  BY DEF SwitchToARM7, schedvars, gpuvars, clockvars
<1>2. ~TotalScanlines
  BY <1>1 DEF ARM9TurnInv
<1>3. t \in Nat
  BY ClockDivision
<1>4. ARM9Now' = t
  BY <1>1 DEF ARM9Now
<1> HIDE DEF t
<1>5. /\ LateAt(t)
      /\ SysTimestamp <= t \/ BehindTime(t)
      /\ t * ClockRatio
           < (SysTimestamp + MaxIter + Margin) * ClockRatio + MaxCost
  BY DEF t
<1>6. LateAt(target)' /\ (BehindTime(t) => BehindTime(target)')
  BY <1>1, <1>5 DEF LateAt, BehindTime, Overdue
<1>7. /\ ARM7Timestamp < latest + MaxCost
      /\ ARM7Timestamp < t => ARM7Target' <= t
  BY <1>1, <1>3 DEF ARM7Ahead
<1>8. ARM7TurnInv'
  BY <1>1, <1>2, <1>4, <1>5, <1>6, <1>7 DEF ARM7TurnInv
<1>9. NearInv'
  BY <1>1 DEF NearInv, Near
<1> QED
  BY <1>1, <1>8, <1>9
     DEF EventsInFuture, AtRest, LatenessBound, CPUsInStep,
         ARM9TurnInv, SystemInv, ARM7Ahead, LCDInv, SleepInv, ARM9Turn

\* The ARM9 ends its turn where it is or later.
LEMMA SwitchForward ==
  ASSUME IInv, TypeOK', NEW n \in Nat, SwitchToARM7(n),
         ARM9Timestamp <= n, n < ARM9Target + MaxCost
  PROVE  IInv' /\ ARM9Timestamp' >= ARM9Timestamp
<1> USE DEF IInv, TypeOK
<1> DEFINE t == n \div ClockRatio
<1>1. pc \in ARM9Turn /\ ARM9Timestamp' = n
  BY DEF SwitchToARM7
<1>2. SysTimestamp * ClockRatio <= ARM9Timestamp
  BY <1>1 DEF ARM9TurnInv
<1>3. t \in Nat /\ t * ClockRatio <= n /\ n < t * ClockRatio + ClockRatio
  BY ClockDivision
<1>4. SysTimestamp <= t
  <2>1. SysTimestamp * ClockRatio < (t + 1) * ClockRatio
    <3>1. (t + 1) * ClockRatio = t * ClockRatio + ClockRatio
      BY <1>3, TimeAssumption
    <3> QED BY <1>2, <1>3, <3>1, ClockMultiple, TimeAssumption
  <2> QED BY <1>3, <2>1, ClockOrder
<1>5. IInv'
  BY <1>1, <1>4, SwitchLate, SwitchStep
<1> QED BY <1>1, <1>5

\* An event is overdue: the ARM9 stays where it is, or goes back to the event.
LEMMA SwitchBehind ==
  ASSUME IInv, TypeOK', NEW n \in Nat, SwitchToARM7(n),
         ~(ARM9Timestamp < ARM9Target), pc = "arm9",
         n \in {ARM9Timestamp, ARM9Target}
  PROVE  /\ IInv'
         /\ \/ ARM9Timestamp' >= ARM9Timestamp
            \/ \E e \in Events : /\ Overdue(e)
                                 /\ ARM9Timestamp' = Timestamp[e] * ClockRatio
<1> USE DEF IInv, TypeOK
<1>1. /\ ARM9Now = SysTimestamp /\ BehindTime(ARM9Target \div ClockRatio)
      /\ LateAt(SysTimestamp) /\ ARM9Target % ClockRatio = 0
      /\ pc \in ARM9Turn /\ ARM9Timestamp' = n
  BY DEF ARM9TurnInv, ARM9Turn, SwitchToARM7
<1>2. CASE n = ARM9Timestamp
  <2>1. n \div ClockRatio = SysTimestamp
    BY <1>1, <1>2 DEF ARM9Now
  <2>2. SysTimestamp * ClockRatio
          < (SysTimestamp + MaxIter + Margin) * ClockRatio + MaxCost
    <3>1. SysTimestamp + MaxIter + Margin \in Nat
      BY TimeAssumption
    <3>2. SysTimestamp * ClockRatio <= (SysTimestamp + MaxIter + Margin) * ClockRatio
      BY <3>1, ClockOrder, TimeAssumption
    <3>3. /\ SysTimestamp * ClockRatio \in Nat
          /\ (SysTimestamp + MaxIter + Margin) * ClockRatio \in Nat
      BY <3>1, ClockMultiple
    <3> QED BY <3>2, <3>3, TimeAssumption
  <2>3. IInv'
    BY <1>1, <2>1, <2>2, SwitchStep
  <2> QED BY <1>1, <1>2, <2>3
<1>3. CASE n = ARM9Target
  <2>1. n < ARM9Target + MaxCost
    BY <1>3, TimeAssumption
  <2>2. IInv'
    BY <1>1, <1>3, <2>1, SwitchLate, SwitchStep
  <2>3. PICK e \in Events : Overdue(e) /\ ARM9Target \div ClockRatio = Timestamp[e]
    BY <1>1 DEF BehindTime
  <2>4. ARM9Timestamp' = Timestamp[e] * ClockRatio
    BY <1>1, <1>3, <2>3, ClockAligned
  <2> QED BY <2>2, <2>3, <2>4
<1> QED BY <1>2, <1>3

LEMMA ARM9TurnStep ==
  ASSUME IInv, TypeOK',
         ARM9Exit \/ ARM9PowerOff \/ ARM9Halted \/ ARM9Stalled
  PROVE  /\ IInv'
         /\ \/ ARM9Timestamp' >= ARM9Timestamp
            \/ \E e \in Events : /\ Overdue(e)
                                 /\ ARM9Timestamp' = Timestamp[e] * ClockRatio
<1> DEFINE Goal == /\ IInv'
                   /\ \/ ARM9Timestamp' >= ARM9Timestamp
                      \/ \E e \in Events :
                           /\ Overdue(e)
                           /\ ARM9Timestamp' = Timestamp[e] * ClockRatio
<1>t. /\ ARM9Timestamp \in Nat /\ ARM9Target \in Nat /\ MaxCost \in Nat \ {0}
      /\ pc \in ARM9Turn
  BY TimeAssumption
     DEF IInv, TypeOK, ARM9Exit, ARM9PowerOff, ARM9Halted, ARM9Stalled, SwitchToARM7
<1>1. ASSUME NEW n \in Nat, SwitchToARM7(n), ARM9Timestamp <= n,
             n < ARM9Target + MaxCost
      PROVE  Goal
  BY <1>1, SwitchForward
<1>2. ASSUME NEW n \in Nat, SwitchToARM7(n), ~(ARM9Timestamp < ARM9Target),
             pc = "arm9", n \in {ARM9Timestamp, ARM9Target}
      PROVE  Goal
  BY <1>2, SwitchBehind
<1> HIDE DEF Goal
<1>3. CASE ARM9Exit \/ ARM9PowerOff
  <2>1. SwitchToARM7(ARM9Timestamp)
    BY <1>3 DEF ARM9Exit, ARM9PowerOff
  <2>2. CASE ARM9Timestamp < ARM9Target + MaxCost
    BY <1>t, <1>1, <2>1, <2>2 DEF Goal
  <2>3. CASE ~(ARM9Timestamp < ARM9Target + MaxCost)
    <3>1. pc = "arm9" /\ ~(ARM9Timestamp < ARM9Target)
      BY <1>t, <2>3 DEF IInv, ARM9TurnInv
    <3> QED BY <1>t, <1>2, <2>1, <3>1 DEF Goal
  <2> QED BY <2>2, <2>3
<1>4. CASE ARM9Halted
  <2>1. SwitchToARM7(ARM9Target) /\ (pc = "run9" => ARM9Timestamp < ARM9Target)
    BY <1>4 DEF ARM9Halted
  <2>2. CASE ARM9Timestamp < ARM9Target
    BY <1>t, <1>1, <2>1, <2>2 DEF Goal
  <2>3. CASE ~(ARM9Timestamp < ARM9Target)
    BY <1>t, <1>2, <2>1, <2>3 DEF Goal, ARM9Turn
  <2> QED BY <2>2, <2>3
<1>5. CASE ARM9Stalled
  <2>1. PICK cycles \in 0..(MaxIter + Margin) :
              LET t == ARM9Timestamp + cycles * ClockRatio
              IN  SwitchToARM7(IF t < ARM9Target THEN t ELSE ARM9Target)
    BY <1>5 DEF ARM9Stalled
  <2>2. cycles \in Nat /\ cycles * ClockRatio \in Nat /\ pc = "arm9"
    BY <1>5, ClockMultiple, TimeAssumption DEF ARM9Stalled
  <2> DEFINE t == ARM9Timestamp + cycles * ClockRatio
             n == IF t < ARM9Target THEN t ELSE ARM9Target
  <2>3. CASE ARM9Timestamp < ARM9Target
    <3>1. n \in Nat /\ ARM9Timestamp <= n /\ n < ARM9Target + MaxCost
      BY <1>t, <2>2, <2>3
    <3>2. SwitchToARM7(n)
      BY <2>1
    <3> HIDE DEF n
    <3> QED BY <1>1, <3>1, <3>2 DEF Goal
  <2>4. CASE ~(ARM9Timestamp < ARM9Target)
    <3>1. n = ARM9Target
      BY <1>t, <2>2, <2>4
    <3>2. SwitchToARM7(n)
      BY <2>1
    <3> HIDE DEF n
    <3> QED BY <1>t, <1>2, <2>2, <2>4, <3>1, <3>2 DEF Goal
  <2> QED BY <2>3, <2>4
<1> QED BY <1>3, <1>4, <1>5

(***************************************************************************)
(* An ARM7 step: an event it schedules is ahead of the ARM7, hence of the  *)
(* system time, but may be behind the ARM9.                                *)
(***************************************************************************)
LEMMA ARM7StepStep ==
  ASSUME IInv, TypeOK', ARM7Step
  PROVE  IInv'
<1> USE DEF IInv, TypeOK
<1>1. /\ pc = "arm7" /\ pc' = "arm7" /\ SysTimestamp' = SysTimestamp
      /\ target' = target /\ CurCPU' = CurCPU
      /\ TotalScanlines' = TotalScanlines
      /\ ARM9Timestamp' = ARM9Timestamp /\ latest' = latest
      /\ ARM7Timestamp < target /\ CPUEventOp
  BY DEF ARM7Step, localvars, gpuvars, clockvars
<1>2. PICK cost \in 1..MaxCost : ARM7Timestamp' = ARM7Timestamp + cost
  BY DEF ARM7Step
<1>3. /\ ARM7Target' <= ARM7Target
      /\ \A e \in SchedListMask' :
           \/ e \in SchedListMask /\ Timestamp'[e] = Timestamp[e]
           \/ e \in CPUEvents /\ Timestamp'[e] >= SysTimestamp
  <2>1. CASE /\ ARM7Target' = ARM7Target
             /\ SchedListMask' \subseteq SchedListMask
             /\ Timestamp' = Timestamp
    BY <1>1, <2>1
  <2>2. ASSUME NEW e \in CPUEvents,
               SchedListMask' \subseteq SchedListMask \cup {e},
               Timestamp' = [Timestamp EXCEPT ![e] = Now + Delay[e]],
               Reschedule(Now + Delay[e])
        PROVE  /\ ARM7Target' <= ARM7Target
               /\ \A x \in SchedListMask' :
                    \/ x \in SchedListMask /\ Timestamp'[x] = Timestamp[x]
                    \/ x \in CPUEvents /\ Timestamp'[x] >= SysTimestamp
    <3>1. /\ CurCPU = 1 /\ Now = ARM7Timestamp /\ ARM7Timestamp >= SysTimestamp
          /\ e \in Events /\ Delay[e] \in Nat \ {0}
      BY <1>1, EventsAssumption, TimeAssumption DEF ARM7TurnInv, ARM7Ahead, Now
    <3>2. Now + Delay[e] \in Nat /\ Now + Delay[e] >= SysTimestamp
      BY <3>1
    <3>3. ARM7Target' <= ARM7Target
      BY <2>2, <3>1, <3>2 DEF Reschedule, Lower7
    <3>4. /\ Timestamp'[e] = Now + Delay[e]
          /\ \A x \in Events \ {e} : Timestamp'[x] = Timestamp[x]
      BY <2>2, <3>1
    <3> QED BY <2>2, <3>2, <3>3, <3>4
  <2> QED BY <1>1, <2>1, <2>2, CPUEventOpEffect
<1>4. /\ CurCPU = 1 /\ ~TotalScanlines /\ target = ARM9Now
      /\ ARM7Target <= target /\ SysTimestamp <= target
      /\ target * ClockRatio
           < (SysTimestamp + MaxIter + Margin) * ClockRatio + MaxCost
      /\ LateAt(target)
  BY <1>1 DEF ARM7TurnInv, ARM7Ahead
<1>5. ASSUME NEW e \in SchedListMask'
      PROVE  (target - Timestamp'[e]) * ClockRatio < MaxLate(e)
  <2>1. CASE e \in SchedListMask /\ Timestamp'[e] = Timestamp[e]
    BY <1>4, <2>1 DEF LateAt
  <2>2. CASE e \in CPUEvents /\ Timestamp'[e] >= SysTimestamp
    <3>1. /\ Timestamp'[e] \in Nat /\ MaxIter + Margin \in Nat
          /\ MaxLate(e) = MaxCost + (MaxIter + Margin) * ClockRatio
      BY <2>2, MaxLateType, TimeAssumption
    <3>2. /\ (target - Timestamp'[e]) * ClockRatio
               = target * ClockRatio - Timestamp'[e] * ClockRatio
          /\ (SysTimestamp + MaxIter + Margin) * ClockRatio
               = SysTimestamp * ClockRatio + (MaxIter + Margin) * ClockRatio
      BY <3>1, TimeAssumption
    <3>3. SysTimestamp * ClockRatio <= Timestamp'[e] * ClockRatio
      BY <2>2, <3>1, ClockOrder
    <3>4. /\ target * ClockRatio \in Nat /\ SysTimestamp * ClockRatio \in Nat
          /\ Timestamp'[e] * ClockRatio \in Nat
          /\ (MaxIter + Margin) * ClockRatio \in Nat
      BY <3>1, ClockMultiple
    <3> QED BY <1>4, <3>1, <3>2, <3>3, <3>4, TimeAssumption
  <2> QED BY <1>3, <2>1, <2>2
<1>6. ARM7TurnInv'
  <2>1. ARM7Timestamp' < target + MaxCost /\ ARM7Target' <= target
    BY <1>1, <1>2, <1>3, <1>4, TimeAssumption
  <2>2. ARM9Now' = ARM9Now
    BY <1>1 DEF ARM9Now
  <2>3. LateAt(target)'
    BY <1>1, <1>5 DEF LateAt
  <2> QED BY <1>1, <1>4, <2>1, <2>2, <2>3 DEF ARM7TurnInv
<1>7. ARM7Ahead'
  BY <1>1, <1>2 DEF ARM7Ahead, ARM9Turn
<1>8. NearInv'
  BY <1>1, <1>3, NearKept
<1> QED
  BY <1>1, <1>6, <1>7, <1>8
     DEF EventsInFuture, AtRest, LatenessBound, CPUsInStep, ARM9TurnInv,
         SystemInv, LCDInv, SleepInv, ARM9Turn

(***************************************************************************)
(* RunSystem sets the system time to the target, which is behind it only   *)
(* for a short event that is overdue.  Every short event is near the       *)
(* target, hence near the latest time.                                     *)
(***************************************************************************)
LEMMA RunSystemStep ==
  ASSUME IInv, TypeOK', RunSystem
  PROVE  /\ IInv'
         /\ SysTimestamp' >= SysTimestamp
              \/ \E e \in Events : Overdue(e) /\ SysTimestamp' = Timestamp[e]
         /\ SysTimestamp' <= latest'
<1> USE DEF IInv, TypeOK
<1>1. /\ pc = "arm7" /\ pc' = "sys" /\ SysTimestamp' = target
      /\ ARM7Timestamp >= target /\ mask' = SchedListMask
      /\ SchedListMask' = SchedListMask /\ Timestamp' = Timestamp
      /\ ARM9Timestamp' = ARM9Timestamp /\ ARM7Timestamp' = ARM7Timestamp
      /\ CurCPU' = CurCPU /\ TotalScanlines' = TotalScanlines
      /\ latest' = Later(latest, target)
  BY DEF RunSystem, ARM7CaughtUp, cpuvars, schedvars, gpuvars
<1>2. /\ CurCPU = 1 /\ ~TotalScanlines /\ target = ARM9Now
      /\ SysTimestamp <= target \/ BehindTime(target)
      /\ ARM7Timestamp < target + MaxCost \/ ARM7Timestamp < latest + MaxCost
      /\ LateAt(target)
  BY <1>1 DEF ARM7TurnInv
<1>3. LatenessBound'
  BY <1>1, <1>2 DEF LateAt, LatenessBound
<1>4. /\ latest' \in Nat /\ latest <= latest' /\ target <= latest'
      /\ latest' = latest \/ latest' = target
  BY <1>1 DEF Later
<1>5. SystemInv' /\ ARM7Ahead'
  <2>1. ARM7Timestamp < latest' + MaxCost
    <3>1. /\ ARM7Timestamp \in Nat /\ target \in Nat /\ latest \in Nat
          /\ MaxCost \in Nat
      BY TimeAssumption
    <3>2. \A a, b, c, d \in Nat : a < b + c /\ b <= d => a < d + c
      OBVIOUS
    <3> QED BY <1>2, <1>4, <3>1, <3>2
  <2> QED BY <1>1, <1>2, <2>1 DEF SystemInv, ARM9Now, ARM7Ahead, ARM9Turn
<1>6. ASSUME NEW e \in Short \cap SchedListMask PROVE Near(Timestamp[e])'
  <2>1. CASE latest' = latest
    BY <1>1, <2>1 DEF NearInv, Near
  <2>2. CASE latest' = target
    <3>1. (latest' - Timestamp'[e]) * ClockRatio < MaxLate(e)
      BY <1>1, <1>2, <2>2 DEF LateAt
    <3> QED BY <3>1 DEF Near
  <2> QED BY <1>4, <2>1, <2>2
<1>7. Near(SysTimestamp)'
  <2>1. CASE SysTimestamp <= target /\ latest' = latest
    BY <1>1, <2>1, NearLater DEF NearInv, Near
  <2>2. CASE latest' = target
    BY <1>1, <2>2 DEF Near
  <2>3. ASSUME NEW e \in Events, Overdue(e), target = Timestamp[e]
        PROVE  Near(SysTimestamp)'
    BY <1>1, <1>6, <2>3 DEF Overdue, Near
  <2> QED BY <1>2, <1>4, <2>1, <2>2, <2>3 DEF BehindTime
<1>8. NearInv'
  BY <1>1, <1>6, <1>7 DEF NearInv
<1>9. IInv'
  BY <1>1, <1>2, <1>3, <1>5, <1>8
     DEF EventsInFuture, AtRest, CPUsInStep, ARM9TurnInv, ARM7TurnInv,
         LCDInv, SleepInv, ARM9Turn
<1> QED BY <1>1, <1>2, <1>4, <1>9 DEF BehindTime

(***************************************************************************)
(* A handler fires an event when it is less late than it may be, so that   *)
(* its next time is in the future or its lateness is left over.            *)
(***************************************************************************)
LEMMA NextTimeOf ==
  ASSUME IInv, pc = "sys", NEW e \in mask, e \in Periodic,
         NEW p \in Delays(e)
  PROVE  /\ e # RTC => (SysTimestamp - (Timestamp[e] + p) + p) * ClockRatio
                          < MaxLate(e)
         /\ e \in {LCD, SPU, RTC} => Timestamp[e] + p > SysTimestamp
<1> DEFINE late == SysTimestamp - Timestamp[e]
<1>1. e \in SchedListMask /\ e \in Events /\ TypeOK
  BY DEF IInv, SystemInv, TypeOK
<1>2. late * ClockRatio < MaxLate(e)
  BY <1>1 DEF IInv, LatenessBound
<1>3. /\ late \in Int /\ p \in Nat /\ MaxLate(e) \in Nat
      /\ Timestamp[e] \in Nat /\ SysTimestamp \in Nat
  BY <1>1, DelaysType, MaxLateType DEF TypeOK
<1>4. SysTimestamp - (Timestamp[e] + p) + p = late
  BY <1>3
<1>5. ASSUME e \in {LCD, SPU, RTC} PROVE late < p
  <2>1. MaxLate(e) = MaxCost /\ MaxCost \in Nat
    BY <1>5, MaxLateType, EventsAssumption, TimeAssumption
  <2>2. p * ClockRatio >= MaxCost
    <3>1. CASE e = RTC
      <4> DEFINE q == RTCClock \div RTCRate
      <4>1. p >= q /\ q \in Nat /\ q * ClockRatio >= MaxCost
        BY <1>1, <3>1, RTCDelayType, PeriodAssumption DEF Delays
      <4> HIDE DEF q
      <4>2. p * ClockRatio >= q * ClockRatio /\ p * ClockRatio \in Nat
            /\ q * ClockRatio \in Nat
        BY <1>3, <4>1, ClockOrder, ClockMultiple
      <4> QED BY <2>1, <4>1, <4>2
    <3>2. CASE e # RTC
      BY <1>5, <3>2, PeriodAssumption DEF Delays
    <3> QED BY <3>1, <3>2
  <2> HIDE DEF late
  <2>3. CASE ClockRatio = 2
    BY <1>2, <1>3, <2>1, <2>2, <2>3
  <2>4. CASE ClockRatio = 4
    BY <1>2, <1>3, <2>1, <2>2, <2>4
  <2> QED BY <2>3, <2>4, TimeAssumption
<1>6. e \in {LCD, SPU, RTC} => Timestamp[e] + p > SysTimestamp
  BY <1>3, <1>5
<1> QED BY <1>2, <1>4, <1>6

(***************************************************************************)
(* A handler leaves every event in the future, left over, or still to be   *)
(* visited.                                                                *)
(***************************************************************************)
LEMMA RunEventStep ==
  ASSUME IInv, TypeOK', NEW e \in Events, RunEvent(e)
  PROVE  IInv'
<1> USE DEF IInv, TypeOK
<1>1. /\ pc = "sys" /\ pc' = "sys" /\ SysTimestamp' = SysTimestamp
      /\ ARM9Timestamp' = ARM9Timestamp /\ ARM7Timestamp' = ARM7Timestamp
      /\ CurCPU' = CurCPU /\ Due(e) /\ mask' = {f \in mask : f > e}
      /\ TotalScanlines' = (TotalScanlines \/ FinishFrame(e))
      /\ latest' = latest
  BY DEF RunEvent
<1>2. PICK p \in Delays(e) \cup {0}, keep \in BOOLEAN,
           c \in Chained[e] \cup {NoEvent} :
        /\ keep <=> p # 0
        /\ keep => e \in Periodic /\ c # e
        /\ FinishFrame(e) => ~keep /\ c = NoEvent
        /\ e \in {LCD, SPU, RTC} => keep \/ FinishFrame(e)
        /\ HandlerSchedules(SchedListMask \ {e}, e, keep, p, c)
  BY DEF RunEvent
<1> DEFINE m == SchedListMask \ {e}
<1>3. /\ c \in Events \cup {NoEvent} /\ m \in SUBSET Events
      /\ p \in Nat /\ LCD # RTC
      /\ LCD \in Events /\ LCD \in Periodic /\ c # LCD /\ NoEvent \notin Events
  <2>1. LCD \in Events /\ LCD \in Periodic
    BY EventsAssumption
  <2>2. NoEvent \notin Events
    BY EventsAssumption DEF NoEvent
  <2>3. Chained[e] \subseteq Events \ {LCD, SPU, RTC}
    BY EventsAssumption
  <2> QED BY <2>1, <2>2, <2>3, DelaysType, EventsAssumption
<1>4. /\ m \subseteq SchedListMask'
      /\ keep => e \in SchedListMask'
      /\ \A x \in m : Timestamp'[x] = Timestamp[x]
      /\ \A x \in SchedListMask' \ m :
           \/ x = e /\ keep /\ Timestamp'[x] = Timestamp[e] + p
           \/ x = c /\ Timestamp'[x] = Now + Delay[x]
      /\ \A x \in Events \ {e, c} : /\ Timestamp'[x] = Timestamp[x]
                                    /\ x \in SchedListMask' <=> x \in m
      /\ ~keep /\ c # e => /\ Timestamp'[e] = Timestamp[e]
                           /\ e \in SchedListMask' <=> e \in m
  <2>1. HandlerSchedules(m, e, keep, p, c)
    BY <1>2
  <2> HIDE DEF m
  <2> QED BY <1>3, <2>1, HandlerSchedulesEffect
<1>5. /\ CurCPU = 1 /\ Now = ARM7Timestamp /\ ARM7Timestamp >= SysTimestamp
      /\ mask \subseteq SchedListMask
      /\ \A x \in SchedListMask \ mask :
           Timestamp[x] > SysTimestamp \/ LeftOver(x)
  BY <1>1 DEF SystemInv, Now
<1>6. /\ e \in mask
      /\ \A x \in mask : x < e => Timestamp[x] > SysTimestamp
  BY <1>1 DEF Due, IsDue
<1>7. ASSUME NEW q \in Delays(e), e \in Periodic
      PROVE  /\ e # RTC => (SysTimestamp - (Timestamp[e] + q) + q) * ClockRatio
                              < MaxLate(e)
             /\ e \in {LCD, SPU, RTC} => Timestamp[e] + q > SysTimestamp
  BY <1>1, <1>6, <1>7, NextTimeOf
<1>8. ASSUME NEW x \in SchedListMask', x \notin mask'
      PROVE  Timestamp'[x] > SysTimestamp \/ LeftOver(x)'
  <2>1. CASE x \in m
    <3>1. x \in Nat /\ e \in Nat /\ x # e /\ Timestamp'[x] = Timestamp[x]
      BY <1>4, <2>1, EventsAssumption
    <3>2. x \notin mask \/ x < e
      BY <1>1, <1>8, <3>1
    <3>3. Timestamp[x] > SysTimestamp \/ LeftOver(x)
      BY <1>5, <1>6, <2>1, <3>1, <3>2
    <3> QED BY <1>1, <3>1, <3>3 DEF LeftOver
  <2>2. CASE x = e /\ keep /\ Timestamp'[x] = Timestamp[e] + p
    <3>1. p \in Delays(e) /\ e \in Periodic
      BY <1>2, <2>2
    <3>2. CASE e = RTC
      BY <1>7, <2>2, <3>1, <3>2
    <3>3. CASE e # RTC
      <4>1. /\ p \in Periods[e] /\ e \in Periodic \ {RTC}
            /\ (SysTimestamp - Timestamp'[e] + p) * ClockRatio < MaxLate(e)
        BY <1>7, <2>2, <3>1, <3>3 DEF Delays
      <4> QED BY <1>1, <2>2, <4>1 DEF LeftOver
    <3> QED BY <3>2, <3>3
  <2>3. CASE x = c /\ Timestamp'[x] = Now + Delay[x]
    <3>1. x \in Events
      BY EventsAssumption
    <3> QED BY <1>5, <2>3, <3>1, TimeAssumption
  <2> QED BY <1>4, <2>1, <2>2, <2>3
<1>9. \A x \in mask' : /\ x \in m /\ x \in SchedListMask'
                       /\ Timestamp'[x] = Timestamp[x]
  <2>1. e \in Nat /\ ~(e > e)
    BY EventsAssumption
  <2> QED BY <1>1, <1>4, <1>5, <2>1
<1>10. SystemInv'
  BY <1>1, <1>5, <1>8, <1>9 DEF SystemInv, ARM9Now
<1>11. LatenessBound'
  BY <1>1, <1>5, <1>9 DEF LatenessBound
<1>12. LCDInv'
  <2> SUFFICES ASSUME LCD \notin SchedListMask', TotalScanlines'
               PROVE  LCDRecent'
    BY <1>1 DEF LCDInv
  <2>1. CASE e = LCD
    <3>1. FinishFrame(e)
      BY <1>2, <1>4, <2>1
    <3>2. Timestamp'[LCD] = Timestamp[LCD]
      BY <1>2, <1>3, <1>4, <2>1, <3>1
    <3> QED BY <1>1, <1>3, <1>7, <2>1, <3>2 DEF LCDRecent, Delays
  <2>2. CASE e # LCD
    <3>1. LCD \notin SchedListMask /\ Timestamp'[LCD] = Timestamp[LCD]
      BY <1>3, <1>4, <2>2
    <3>2. TotalScanlines
      BY <1>1, <2>2 DEF FinishFrame
    <3> QED BY <1>1, <3>1, <3>2 DEF LCDInv, LCDRecent
  <2> QED BY <2>1, <2>2
<1>13. ARM7Ahead'
  BY <1>1, <1>5 DEF ARM7Ahead, ARM9Turn
<1>14. NearInv'
  <2>1. ASSUME NEW x \in SchedListMask'
        PROVE  \/ x \in SchedListMask /\ Timestamp'[x] >= Timestamp[x]
               \/ Timestamp'[x] >= SysTimestamp
    <3>1. CASE x \in m
      BY <1>4, <3>1
    <3>2. CASE x = e /\ Timestamp'[x] = Timestamp[e] + p
      BY <1>3, <1>5, <1>6, <3>2
    <3>3. CASE x = c /\ Timestamp'[x] = Now + Delay[x]
      <4>1. x \in Events
        OBVIOUS
      <4> QED BY <1>5, <3>3, <4>1, TimeAssumption
    <3> QED BY <1>4, <3>1, <3>2, <3>3
  <2> QED BY <1>1, <2>1, NearKept
<1> QED
  BY <1>1, <1>10, <1>11, <1>12, <1>13, <1>14
     DEF EventsInFuture, AtRest, CPUsInStep, ARM9TurnInv, ARM7TurnInv,
         SleepInv, ARM9Turn

(***************************************************************************)
(* StartFrame: the LCD event of the previous frame is less than a period   *)
(* old, for otherwise a wakeup would have skipped StartFrame.              *)
(***************************************************************************)
LEMMA StartFrameStep ==
  ASSUME IInv, TypeOK', StartFrame
  PROVE  IInv'
<1> USE DEF IInv, TypeOK
<1>1. /\ pc = "top" /\ pc' = "iter" /\ Running /\ ~Sleep /\ ~Wakeup
      /\ SysTimestamp' = SysTimestamp /\ TotalScanlines' = TotalScanlines
      /\ ARM9Timestamp' = ARM9Timestamp /\ ARM7Timestamp' = ARM7Timestamp
      /\ latest' = latest
  BY DEF StartFrame, clockvars
<1>2. PICK p \in Delays(LCD), c \in Chained[LCD] \cup {NoEvent} :
        HandlerSchedules(SchedListMask, LCD, TRUE, p, c)
  BY DEF StartFrame
<1>3. LCD \in Events /\ c \in Events \cup {NoEvent} /\ p \in Nat
      /\ p \in Periods[LCD]
  <2>1. LCD \in Events
    BY EventsAssumption
  <2>2. Chained[LCD] \subseteq Events
    BY <2>1, EventsAssumption
  <2> QED BY <2>1, <2>2, DelaysType, EventsAssumption DEF Delays
<1>4. /\ LCD \in SchedListMask'
      /\ \A x \in SchedListMask : Timestamp'[x] = Timestamp[x]
      /\ \A x \in SchedListMask' \ SchedListMask :
           \/ x = LCD /\ Timestamp'[x] = Timestamp[LCD] + p
           \/ x = c /\ Timestamp'[x] = Now + Delay[x]
  <2>1. PICK keep \in BOOLEAN :
          keep /\ HandlerSchedules(SchedListMask, LCD, keep, p, c)
    BY <1>2, Zenon
  <2>2. SchedListMask \in SUBSET Events /\ HandlerSchedules(SchedListMask, LCD, keep, p, c)
    BY <2>1
  <2>3. /\ keep => LCD \in SchedListMask'
        /\ \A x \in SchedListMask : Timestamp'[x] = Timestamp[x]
        /\ \A x \in SchedListMask' \ SchedListMask :
             \/ x = LCD /\ keep /\ Timestamp'[x] = Timestamp[LCD] + p
             \/ x = c /\ Timestamp'[x] = Now + Delay[x]
    BY <1>3, <2>2, HandlerSchedulesEffect
  <2> QED BY <2>1, <2>3
<1>5. Now \in Nat /\ Now >= SysTimestamp
  BY <1>1, NowType DEF Now, CPUsInStep, AtRest
<1>6. ASSUME NEW x \in SchedListMask'
      PROVE  /\ Timestamp'[x] > SysTimestamp \/ LeftOver(x)'
             /\ \/ x \in SchedListMask /\ Timestamp'[x] >= Timestamp[x]
                \/ Timestamp'[x] >= SysTimestamp
  <2>1. CASE x \in SchedListMask
    BY <1>1, <1>4, <2>1 DEF EventsInFuture, AtRest, LeftOver
  <2>2. CASE x \notin SchedListMask /\ x = LCD
              /\ Timestamp'[x] = Timestamp[LCD] + p
    BY <1>1, <1>3, <2>2 DEF LCDInv, LCDRecent
  <2>3. CASE x = c /\ Timestamp'[x] = Now + Delay[x]
    BY <1>5, <2>3, TimeAssumption
  <2> QED BY <1>4, <2>1, <2>2, <2>3
<1>7. CPUsInStep' /\ ARM7Ahead'
  BY <1>1 DEF CPUsInStep, AtRest, ARM9Now, ARM7Ahead, ARM9Turn
<1>8. NearInv'
  BY <1>1, <1>6, NearKept
<1> QED
  BY <1>1, <1>4, <1>6, <1>7, <1>8
     DEF EventsInFuture, AtRest, LatenessBound, ARM9TurnInv, ARM7TurnInv,
         SystemInv, LCDInv, SleepInv, ARM9Turn

(***************************************************************************)
(* A turn of the sleep loop jumps strictly forward, over no RTC event, and *)
(* moves the events it jumps over into the future; what is left over stays *)
(* so.                                                                     *)
(***************************************************************************)
LEMMA SleepStepStep ==
  ASSUME IInv, TypeOK', SleepStep
  PROVE  /\ IInv'
         /\ SysTimestamp' > SysTimestamp
         /\ ARM9Timestamp' >= ARM9Timestamp
         /\ SysTimestamp' <= latest'
<1> USE DEF IInv, TypeOK
<1>1. /\ pc = "sleep" /\ pc' = "sleep" /\ Sleep
      /\ SysTimestamp < frametarget
      /\ SchedListMask' = SchedListMask /\ TotalScanlines' = TotalScanlines
  BY DEF SleepStep, gpuvars
<1>2. PICK t \in {Timestamp[e] : e \in SchedListMask} \cup {frametarget},
           irq \in BOOLEAN :
        /\ NextTargetSleep(t)
        /\ ARM9Timestamp' = t * ClockRatio
        /\ ARM7Timestamp' = t
        /\ latest' = Later(latest, t)
        /\ RunSystemSleep(t, irq)
  BY DEF SleepStep
<1>3. \A x \in SchedListMask : /\ x \in Events /\ Timestamp[x] \in Nat
                               /\ Timestamp[x] > SysTimestamp \/ LeftOver(x)
  BY <1>1 DEF EventsInFuture, AtRest
<1>4. /\ t \in Nat /\ t > SysTimestamp
      /\ latest' \in Nat /\ t <= latest'
      /\ latest' = latest \/ latest' = t
  BY <1>1, <1>2, SleepTarget DEF Later
<1>5. RTC \in SchedListMask => t <= Timestamp[RTC]
  BY <1>2 DEF NextTargetSleep
<1>6. /\ SysTimestamp' = t
      /\ \A x \in Events : Timestamp'[x] =
           IF x \notin SchedListMask \/ Timestamp[x] > t THEN Timestamp[x]
           ELSE IF x = RTC THEN Timestamp[RTC] + RTCCycles \div RTCRate
           ELSE Timestamp[x] + (t - SysTimestamp)
      /\ SetIRQ(irq)
  BY <1>2 DEF RunSystemSleep, PeriodicTime, Skipped
<1>7. ASSUME NEW x \in SchedListMask
      PROVE  \/ Timestamp'[x] > t
             \/ /\ x # RTC /\ LeftOver(x)
                /\ Timestamp'[x] = Timestamp[x] + (t - SysTimestamp)
  <2>1. CASE Timestamp[x] > t
    BY <1>3, <1>6, <2>1
  <2>2. CASE ~(Timestamp[x] > t) /\ x = RTC
    BY <1>3, <1>4, <1>5, <1>6, <2>2, RTCDelayType
  <2>3. CASE ~(Timestamp[x] > t) /\ x # RTC
    BY <1>3, <1>4, <1>6, <2>3
  <2> QED BY <2>1, <2>2, <2>3
<1>l. ASSUME NEW x \in SchedListMask, LeftOver(x),
             Timestamp'[x] = Timestamp[x] + (t - SysTimestamp)
      PROVE  LeftOver(x)' /\ Near(Timestamp[x])'
  <2>1. /\ Timestamp[x] \in Nat /\ Timestamp'[x] \in Nat
        /\ SysTimestamp' - Timestamp'[x] = SysTimestamp - Timestamp[x]
    BY <1>3, <1>4, <1>6, <1>l
  <2>2. LeftOver(x)'
    BY <1>l, <2>1 DEF LeftOver
  <2>3. /\ (SysTimestamp - Timestamp[x]) * ClockRatio < MaxLate(x)
        /\ Timestamp[x] > SysTimestamp \/ x \in Short
    BY <1>3, <1>l, LateWhenLeftOver
  <2>4. CASE latest' = t /\ x \in Short
    <3>1. (latest' - Timestamp'[x]) * ClockRatio < MaxLate(x)
      BY <1>6, <2>1, <2>3, <2>4
    <3> QED BY <2>2, <2>4, <3>1 DEF Near
  <2>5. CASE latest' = t /\ Timestamp[x] > SysTimestamp
    BY <1>4, <1>6, <1>l, <2>1, <2>2, <2>5 DEF Near
  <2>6. CASE latest' = latest /\ x \in Short
    <3>1. Near(Timestamp[x]) /\ Timestamp[x] <= Timestamp'[x]
      BY <1>4, <1>l, <2>1, <2>6 DEF NearInv
    <3>2. Near(Timestamp'[x])
      BY <2>1, <3>1, NearLater
    <3> QED BY <2>2, <2>6, <3>2 DEF Near
  <2>7. CASE latest' = latest /\ Timestamp[x] > SysTimestamp
    <3>1. Near(SysTimestamp) /\ SysTimestamp <= Timestamp'[x]
      BY <1>4, <1>l, <2>1, <2>7 DEF NearInv
    <3>2. Near(Timestamp'[x])
      BY <2>1, <3>1, NearLater
    <3> QED BY <2>2, <2>7, <3>2 DEF Near
  <2> QED BY <1>4, <2>2, <2>3, <2>4, <2>5, <2>6, <2>7
<1>n. ASSUME NEW u \in Nat, u >= t PROVE Near(u)'
  <2>1. CASE latest' = t
    BY <1>n, <1>4, <2>1 DEF Near
  <2>2. CASE latest' = latest
    <3>1. Near(u)
      BY <1>n, <1>4, NearLater DEF NearInv
    <3> QED BY <2>2, <3>1 DEF Near
  <2> QED BY <1>4, <2>1, <2>2
<1>m. NearInv'
  <2>1. Near(SysTimestamp)'
    BY <1>4, <1>6, <1>n
  <2>2. ASSUME NEW x \in Short \cap SchedListMask PROVE Near(Timestamp[x])'
    <3>1. CASE Timestamp'[x] > t
      BY <1>3, <1>4, <1>n, <3>1
    <3> QED BY <1>7, <1>l, <3>1
  <2> QED BY <1>1, <2>1, <2>2 DEF NearInv
<1>e. EventsInFuture'
  BY <1>1, <1>6, <1>7, <1>l DEF EventsInFuture
<1>8. Sleep' \/ Wakeup'
  BY <1>1, <1>6 DEF SetIRQ
<1>9. CPUsInStep' /\ ARM7Ahead'
  BY <1>1, <1>2, <1>4, <1>6, ClockMultiple, TimeAssumption
     DEF CPUsInStep, AtRest, ARM9Now, ARM7Ahead, ARM9Turn
<1>10. ARM9Timestamp' >= ARM9Timestamp
  <2>1. ARM9Timestamp < SysTimestamp * ClockRatio + ClockRatio
    BY <1>1, ClockDivision DEF CPUsInStep, AtRest, ARM9Now
  <2>2. SysTimestamp * ClockRatio + ClockRatio <= t * ClockRatio
    BY <1>4, ClockOrder
  <2>3. SysTimestamp * ClockRatio \in Nat /\ t * ClockRatio \in Nat
    BY <1>4, ClockMultiple
  <2> QED BY <1>2, <2>1, <2>2, <2>3, TimeAssumption
<1>11. IInv'
  BY <1>1, <1>8, <1>9, <1>e, <1>m
     DEF LatenessBound, ARM9TurnInv, ARM7TurnInv,
         SystemInv, LCDInv, SleepInv, ARM9Turn
<1> QED BY <1>4, <1>6, <1>10, <1>11

-----------------------------------------------------------------------------
LEMMA InitInv == Init => IInv
<1> SUFFICES ASSUME Init PROVE IInv
  OBVIOUS
<1>1. TypeOK
  BY InitType
<1>2. LCD \in Events /\ SPU \in Events /\ RTC \in Events
  BY EventsAssumption
<1>3. PICK p \in Periods[SPU] :
        Timestamp = [e \in Events |-> CASE e = SPU -> p
                                       [] e = RTC -> RTCClock \div RTCRate
                                       [] OTHER -> 0]
  BY DEF Init
<1>4. /\ Timestamp[SPU] > 0 /\ Timestamp[RTC] > 0 /\ Timestamp[LCD] = 0
      /\ SchedListMask = {SPU, RTC}
  <2>1. p \in Nat \ {0} /\ RTCClock \div RTCRate \in Nat \ {0}
    BY <1>1, <1>2, RTCDelayType, TimeAssumption
  <2> QED BY <1>2, <1>3, <2>1, EventsAssumption DEF Init
<1>5. EventsInFuture
  BY <1>4 DEF Init, EventsInFuture
<1>6. CPUsInStep /\ ARM7Ahead
  <2>1. 0 \div ClockRatio = 0
    BY ClockMultiple, TimeAssumption
  <2> QED BY <2>1, TimeAssumption
          DEF Init, CPUsInStep, ARM9Now, ARM7Ahead, ARM9Turn
<1>7. LCDInv
  BY <1>2, <1>4, TimeAssumption DEF Init, LCDInv, LCDRecent
<1>8. NearInv
  BY <1>1, <1>4 DEF Init, NearInv, Near, TypeOK
<1> QED
  BY <1>1, <1>5, <1>6, <1>7, <1>8
     DEF Init, IInv, LatenessBound, ARM9TurnInv, ARM7TurnInv, SystemInv,
         SleepInv, ARM9Turn

LEMMA InvStep == IInv /\ [Next]_vars => IInv'
<1> SUFFICES ASSUME IInv, [Next]_vars PROVE IInv'
  OBVIOUS
<1>1. TypeOK'
  BY TypeStep DEF IInv
<1>2. CASE \/ BeginFrame \/ UserInput \/ ResumeFrame \/ FrameDone
           \/ ARM7Control \/ ARM7Halted \/ ARM7Again \/ SystemDone
           \/ EnterSleepLoop \/ LeaveSleepLoop \/ BlankFrame \/ AtMaxTime
           \/ UNCHANGED vars
  BY <1>1, <1>2, ControlStep
<1>3. CASE Iterate
  BY <1>1, <1>3, IterateStep
<1>4. CASE ARM9Step
  BY <1>1, <1>4, ARM9StepStep
<1>5. CASE ARM9Exit \/ ARM9PowerOff \/ ARM9Halted \/ ARM9Stalled
  BY <1>1, <1>5, ARM9TurnStep
<1>6. CASE ARM7Step
  BY <1>1, <1>6, ARM7StepStep
<1>7. CASE RunSystem
  BY <1>1, <1>7, RunSystemStep
<1>8. CASE \E e \in Events : RunEvent(e)
  BY <1>1, <1>8, RunEventStep
<1>9. CASE StartFrame
  BY <1>1, <1>9, StartFrameStep
<1>10. CASE SleepStep
  BY <1>1, <1>10, SleepStepStep
<1> QED
  BY <1>2, <1>3, <1>4, <1>5, <1>6, <1>7, <1>8, <1>9, <1>10 DEF Next

THEOREM Invariance == Spec => []IInv
BY InitInv, InvStep, PTL DEF Spec

(***************************************************************************)
(* Type correctness: in particular no timestamp ever goes below zero, that *)
(* is, the unsigned subtraction of RunSystemSleep never wraps around.      *)
(***************************************************************************)
THEOREM TypeCorrect == Spec => []TypeOK
<1>1. IInv => TypeOK
  BY DEF IInv
<1> QED BY <1>1, Invariance, PTL

(***************************************************************************)
(* For every event list, RunSystem and RunSystemSleep leave no scheduled   *)
(* event in the past, but for a periodic event fired later than its own    *)
(* period, whose remaining lateness has then shrunk by that period.        *)
(***************************************************************************)
THEOREM NoEventLeftBehind == Spec => []EventsInFuture
<1>1. IInv => EventsInFuture
  BY DEF IInv
<1> QED BY <1>1, Invariance, PTL

(***************************************************************************)
(* How late RunSystem fires an event is bounded, overdue events included.  *)
(***************************************************************************)
THEOREM BoundedLateness == Spec => []LatenessBound
<1>1. IInv => LatenessBound
  BY DEF IInv
<1> QED BY <1>1, Invariance, PTL

(***************************************************************************)
(* At rest the ARM9 is at the system time and the ARM7 at or after it,     *)
(* less than one of its steps ahead of the latest system time.             *)
(***************************************************************************)
THEOREM CPUsStayInStep == Spec => []CPUsInStep
<1>1. IInv => CPUsInStep
  BY DEF IInv
<1> QED BY <1>1, Invariance, PTL

(***************************************************************************)
(* The ARM9 stops for every scheduled event within one of its steps.       *)
(***************************************************************************)
THEOREM ARM9Stops == Spec => []ARM9StopsForEvents
<1>1. IInv => ARM9StopsForEvents
  <2> SUFFICES ASSUME IInv, pc = "run9", NEW e \in SchedListMask
               PROVE  ARM9Timestamp < Timestamp[e] * ClockRatio + MaxCost
    BY DEF ARM9StopsForEvents
  <2>1. /\ ARM9Timestamp \in Nat /\ ARM9Target \in Nat /\ MaxCost \in Nat
        /\ Timestamp[e] * ClockRatio \in Nat
    BY ClockMultiple, TimeAssumption DEF IInv, TypeOK
  <2>2. /\ ARM9Timestamp < ARM9Target \/ ARM9Timestamp < ARM9Target + MaxCost
        /\ ARM9Target <= Timestamp[e] * ClockRatio
    BY DEF IInv, ARM9TurnInv, ARM9Turn
  <2> QED BY <2>1, <2>2
<1> QED BY <1>1, Invariance, PTL

(***************************************************************************)
(* The system time is never further behind the latest one than a short     *)
(* event can be late, however often it goes back.                          *)
(***************************************************************************)
THEOREM BackBounded == Spec => []BackIsBounded
<1>1. IInv => BackIsBounded
  BY DEF IInv, NearInv, BackIsBounded
<1> QED BY <1>1, Invariance, PTL

(***************************************************************************)
(* System time and ARM9 time run backwards only to an overdue short event, *)
(* and every turn of the sleep loop advances the system time.              *)
(***************************************************************************)
THEOREM Monotonicity == Spec => TimeNeverRunsBack
<1> DEFINE Forward ==
             /\ SysTimestamp' >= SysTimestamp
                  \/ \E e \in Events : Overdue(e) /\ SysTimestamp' = Timestamp[e]
             /\ ARM9Timestamp' >= ARM9Timestamp
                  \/ \E e \in Events : /\ Overdue(e)
                                       /\ ARM9Timestamp' = Timestamp[e] * ClockRatio
           Advance == pc = "sleep" /\ pc' = "sleep" =>
                        SysTimestamp' > SysTimestamp
<1>1. IInv /\ [Next]_vars => [Forward]_vars
  <2> SUFFICES ASSUME IInv, Next PROVE Forward
    OBVIOUS
  <2>1. TypeOK'
    BY TypeStep DEF IInv
  <2>2. SysTimestamp \in Nat /\ ARM9Timestamp \in Nat
    BY DEF IInv, TypeOK
  <2>3. CASE /\ SysTimestamp' = SysTimestamp /\ ARM9Timestamp' = ARM9Timestamp
    BY <2>2, <2>3
  <2>4. CASE ARM9Step
    <3>1. PICK cost \in 1..MaxCost : ARM9Timestamp' = ARM9Timestamp + cost
      BY <2>4 DEF ARM9Step
    <3> QED BY <2>2, <2>4, <3>1, TimeAssumption DEF ARM9Step
  <2>5. CASE ARM9Exit \/ ARM9PowerOff \/ ARM9Halted \/ ARM9Stalled
    <3>1. SysTimestamp' = SysTimestamp
      BY <2>5 DEF ARM9Exit, ARM9PowerOff, ARM9Halted, ARM9Stalled, SwitchToARM7
    <3> QED BY <2>1, <2>2, <2>5, <3>1, ARM9TurnStep
  <2>6. CASE RunSystem
    <3>1. ARM9Timestamp' = ARM9Timestamp
      BY <2>6 DEF RunSystem, cpuvars
    <3> QED BY <2>1, <2>2, <2>6, <3>1, RunSystemStep
  <2>7. CASE SleepStep
    BY <2>1, <2>2, <2>7, SleepStepStep DEF TypeOK
  <2> HIDE DEF Forward
  <2> QED
    BY <2>3, <2>4, <2>5, <2>6, <2>7
       DEF Next, BeginFrame, UserInput, StartFrame, ResumeFrame, FrameDone,
           Iterate, ARM7Step, ARM7Control, ARM7Halted, ARM7Again, RunEvent,
           SystemDone, EnterSleepLoop, LeaveSleepLoop, BlankFrame, AtMaxTime,
           cpuvars, vars
<1>2. IInv /\ [Next]_vars => [Advance]_vars
  <2> SUFFICES ASSUME IInv, Next, pc = "sleep", pc' = "sleep", ~UNCHANGED vars
               PROVE  SysTimestamp' > SysTimestamp
    OBVIOUS
  <2>1. TypeOK'
    BY TypeStep DEF IInv
  <2>2. SleepStep
    BY DEF Next, BeginFrame, UserInput, StartFrame, ResumeFrame, FrameDone,
           Iterate, ARM9Step, ARM9Exit, ARM9PowerOff, ARM9Halted, ARM9Stalled,
           SwitchToARM7, ARM9Turn, ARM7Step, ARM7Control, ARM7Halted,
           ARM7Again, RunSystem, RunEvent, SystemDone, EnterSleepLoop,
           LeaveSleepLoop, BlankFrame, EndFrame, AtMaxTime
  <2> QED BY <2>1, <2>2, SleepStepStep
<1>3. IInv /\ [Next]_vars =>
        [/\ SysTimestamp' >= SysTimestamp
              \/ \E e \in Events : Overdue(e) /\ SysTimestamp' = Timestamp[e]
         /\ ARM9Timestamp' >= ARM9Timestamp
              \/ \E e \in Events : Overdue(e) /\ ARM9Timestamp' = Timestamp[e] * ClockRatio
         /\ pc = "sleep" /\ pc' = "sleep" => SysTimestamp' > SysTimestamp]_vars
  BY <1>1, <1>2
<1> QED BY <1>3, Invariance, PTL DEF Spec, TimeNeverRunsBack

-----------------------------------------------------------------------------
(***************************************************************************)
(* The real-time clock.  A period added to a multiple of the period gives  *)
(* a multiple again.                                                       *)
(***************************************************************************)
LEMMA AddPeriod ==
  ASSUME NEW p \in Nat \ {0}, NEW n \in Nat, n % p = 0
  PROVE  (n + p) % p = 0
<1> DEFINE q == n \div p
           r == (n + p) % p
           k == (n + p) \div p
<1>1. q \in Int /\ n = p * q
  OBVIOUS
<1>2. k \in Int /\ r \in 0..(p - 1) /\ n + p = p * k + r
  OBVIOUS
<1>3. r = p * (q + 1 - k)
  BY <1>1, <1>2
<1>4. q + 1 - k >= 1 => p * (q + 1 - k) >= p
  BY <1>1, <1>2
<1>5. q + 1 - k <= -1 => p * (q + 1 - k) < 0
  BY <1>1, <1>2
<1> QED BY <1>1, <1>2, <1>3, <1>4, <1>5

LEMMA RTCOrder ==
  ASSUME NEW m \in Int, NEW n \in Int, m <= n
  PROVE  m * RTCRate <= n * RTCRate /\ m * RTCRate \in Int /\ n * RTCRate \in Int
<1>1. RTCRate \in Nat
  BY TimeAssumption
<1>2. PICK d \in Nat : n = m + d
  <2>1. n - m \in Nat /\ n = m + (n - m)
    OBVIOUS
  <2> QED BY <2>1
<1>3. (m + d) * RTCRate = m * RTCRate + d * RTCRate /\ d * RTCRate \in Nat
  BY <1>1
<1> QED BY <1>1, <1>2, <1>3

\* The RTC's event is neither a CPU's nor one that a handler chains.
LEMMA RTCFacts ==
  /\ RTC \in Events \ CPUEvents
  /\ RTC # LCD
  /\ \A e \in Events : RTC \notin Chained[e]
  /\ RTCClock \in Nat \ {0} /\ RTCRate \in Nat \ {0}
<1>1. /\ RTC \in Events \ CPUEvents /\ RTC # LCD
      /\ \A e \in Events : RTC \notin Chained[e]
  BY EventsAssumption
<1>2. RTCClock \in Nat \ {0} /\ RTCRate \in Nat \ {0}
  BY TimeAssumption
<1> QED BY <1>1, <1>2

\* Steps that leave the RTC's event alone while time goes on.
LEMMA RTCUntouched ==
  ASSUME RTCInv, TypeOK, TypeOK', SysTimestamp' <= latest',
         latest' >= latest, TimerError' = TimerError,
         RTC \in SchedListMask' <=> RTC \in SchedListMask,
         Timestamp'[RTC] = Timestamp[RTC]
  PROVE  RTCInv'
<1>1. /\ latest \in Nat /\ latest' \in Nat /\ Timestamp[RTC] \in Nat
  BY RTCFacts DEF TypeOK
<1>2. /\ (Timestamp[RTC] - latest') * RTCRate <= (Timestamp[RTC] - latest) * RTCRate
      /\ (Timestamp[RTC] - latest') * RTCRate \in Int
      /\ (Timestamp[RTC] - latest) * RTCRate \in Int
  <2>1. /\ Timestamp[RTC] - latest' \in Int /\ Timestamp[RTC] - latest \in Int
        /\ Timestamp[RTC] - latest' <= Timestamp[RTC] - latest
    BY <1>1
  <2> QED BY <2>1, RTCOrder
<1>3. (Timestamp[RTC] - latest') * RTCRate < RTCClock + RTCRate
  BY <1>2, RTCFacts DEF RTCInv
<1> QED BY <1>3 DEF RTCInv

\* A tick: the fraction that the delay leaves out is carried over.
LEMMA RTCTick ==
  ASSUME RTCInv, TypeOK, TypeOK', SysTimestamp' <= latest',
         RTC \in SchedListMask', Timestamp[RTC] <= latest',
         Timestamp'[RTC] = Timestamp[RTC] + RTCCycles \div RTCRate,
         TimerError' = RTCCycles % RTCRate
  PROVE  RTCInv'
<1> DEFINE q == RTCCycles \div RTCRate
           r == RTCCycles % RTCRate
           ts == Timestamp[RTC]
<1>1. /\ RTCCycles \in Nat /\ q \in Nat /\ r \in Nat /\ ts \in Nat
      /\ TimerError \in Nat /\ TimerError < RTCRate
      /\ latest' \in Nat /\ RTCClock \in Nat /\ RTCRate \in Nat
  BY RTCDelayType, RTCFacts DEF TypeOK
<1>2. RTCClock + TimerError = q * RTCRate + r
  BY <1>1, RTCDivision DEF RTCCycles
<1>3. /\ q * RTCRate \in Nat /\ ts * RTCRate \in Nat
      /\ (ts + q) * RTCRate = ts * RTCRate + q * RTCRate
  BY <1>1
<1>4. Timestamp'[RTC] = ts + q /\ TimerError' = r
  OBVIOUS
<1>5. (ts * RTCRate + TimerError) % RTCClock = 0
  BY DEF RTCInv
<1> HIDE DEF q, r, ts
<1>6. ((ts * RTCRate + TimerError) + RTCClock) % RTCClock = 0
  BY <1>1, <1>3, <1>5, AddPeriod, RTCFacts
<1>7. (Timestamp'[RTC] * RTCRate + TimerError') % RTCClock = 0
  <2>1. (ts + q) * RTCRate + r = (ts * RTCRate + TimerError) + RTCClock
    BY <1>1, <1>2, <1>3
  <2> QED BY <1>4, <1>6, <2>1
<1>8. (Timestamp'[RTC] - latest') * RTCRate < RTCClock + RTCRate
  <2>1. PICK l \in Nat : l = latest'
    BY <1>1
  <2>2. ts <= l
    BY <2>1 DEF ts
  <2>3. ts + q - l \in Int /\ ts + q - l <= q /\ q \in Int
    BY <1>1, <2>2
  <2>4. /\ (ts + q - l) * RTCRate <= q * RTCRate
        /\ (ts + q - l) * RTCRate \in Int
    BY <2>3, RTCOrder
  <2>5. (ts + q - l) * RTCRate < RTCClock + RTCRate
    BY <1>1, <1>2, <1>3, <2>4
  <2>6. Timestamp'[RTC] - latest' = ts + q - l
    BY <1>1, <1>4, <2>1
  <2> QED BY <2>5, <2>6
<1> QED BY <1>7, <1>8 DEF RTCInv

\* RunSystem fires the RTC, or another handler runs.
LEMMA RTCRunEvent ==
  ASSUME IInv, TypeOK', RTCInv, NEW e \in Events, RunEvent(e)
  PROVE  RTCInv'
<1>1. PICK p \in Delays(e) \cup {0}, keep \in BOOLEAN,
           c \in Chained[e] \cup {NoEvent} :
        /\ keep <=> p # 0
        /\ FinishFrame(e) => ~keep
        /\ e \in {LCD, SPU, RTC} => keep \/ FinishFrame(e)
        /\ HandlerSchedules(SchedListMask \ {e}, e, keep, p, c)
  BY DEF RunEvent
<1>2. c \in Events \cup {NoEvent} /\ c # RTC
  <2>1. NoEvent # RTC
    BY EventsAssumption DEF NoEvent
  <2> QED BY <2>1, RTCFacts, EventsAssumption
<1>3. TypeOK /\ SchedListMask \ {e} \in SUBSET Events /\ p \in Nat
  <2>1. TypeOK
    BY DEF IInv
  <2> QED BY <2>1, DelaysType DEF TypeOK
<1>4. /\ SysTimestamp' = SysTimestamp /\ latest' = latest /\ IsDue(e)
      /\ TimerError' = IF e = RTC THEN RTCCycles % RTCRate ELSE TimerError
  BY DEF RunEvent, Due
<1> DEFINE m == SchedListMask \ {e}
<1>h. /\ m \subseteq SchedListMask'
      /\ keep => e \in SchedListMask'
      /\ \A x \in m : Timestamp'[x] = Timestamp[x]
      /\ \A x \in SchedListMask' \ m :
           \/ x = e /\ keep /\ Timestamp'[x] = Timestamp[e] + p
           \/ x = c /\ Timestamp'[x] = Now + Delay[x]
      /\ \A x \in Events \ {e, c} : /\ Timestamp'[x] = Timestamp[x]
                                    /\ x \in SchedListMask' <=> x \in m
      /\ ~keep /\ c # e => /\ Timestamp'[e] = Timestamp[e]
                           /\ e \in SchedListMask' <=> e \in m
  <2>1. HandlerSchedules(m, e, keep, p, c) /\ m \in SUBSET Events
    BY <1>1, <1>3
  <2> HIDE DEF m
  <2> QED BY <1>2, <1>3, <2>1, HandlerSchedulesEffect
<1>5. CASE e # RTC
  <2>1. /\ Timestamp'[RTC] = Timestamp[RTC]
        /\ RTC \in SchedListMask' <=> RTC \in SchedListMask
    BY <1>2, <1>h, <1>5, RTCFacts
  <2>2. SysTimestamp' <= latest' /\ latest' >= latest /\ TimerError' = TimerError
    BY <1>3, <1>4, <1>5 DEF RTCInv, TypeOK
  <2> QED BY <1>3, <2>1, <2>2, RTCUntouched
<1>6. CASE e = RTC
  <2>1. keep /\ p = RTCCycles \div RTCRate
    BY <1>1, <1>6, RTCFacts DEF FinishFrame, Delays
  <2>2. /\ RTC \in SchedListMask'
        /\ Timestamp'[RTC] = Timestamp[RTC] + RTCCycles \div RTCRate
    BY <1>2, <1>h, <1>6, <2>1
  <2>3. Timestamp[RTC] \in Nat /\ SysTimestamp \in Nat /\ latest \in Nat
    BY <1>3, RTCFacts DEF TypeOK
  <2>4. SysTimestamp' <= latest' /\ Timestamp[RTC] <= latest'
    BY <1>4, <1>6, <2>3 DEF IsDue, RTCInv
  <2> QED BY <1>3, <1>4, <1>6, <2>2, <2>4, RTCTick
<1> QED BY <1>5, <1>6

\* The sleep loop never skips a tick: it stops at the RTC's event.
LEMMA RTCSleepStep ==
  ASSUME IInv, TypeOK', RTCInv, SleepStep
  PROVE  RTCInv'
<1>1. TypeOK /\ pc = "sleep" /\ SchedListMask' = SchedListMask
      /\ EventsInFuture /\ SysTimestamp < frametarget
  BY DEF SleepStep, IInv
<1>2. PICK t \in {Timestamp[e] : e \in SchedListMask} \cup {frametarget},
           irq \in BOOLEAN :
        /\ NextTargetSleep(t) /\ RunSystemSleep(t, irq)
        /\ latest' = Later(latest, t)
  BY DEF SleepStep
<1>3. t \in Nat /\ latest \in Nat /\ Timestamp[RTC] \in Nat
      /\ RTC \in SchedListMask
  BY <1>1, <1>2, SleepTarget, RTCFacts DEF TypeOK, RTCInv
<1>4. t <= Timestamp[RTC]
  BY <1>2, <1>3 DEF NextTargetSleep
<1>5. /\ SysTimestamp' = t /\ latest' >= latest /\ t <= latest'
      /\ Timestamp'[RTC] = IF Timestamp[RTC] > t THEN Timestamp[RTC]
                           ELSE Timestamp[RTC] + RTCCycles \div RTCRate
      /\ TimerError' = IF Timestamp[RTC] <= t THEN RTCCycles % RTCRate
                       ELSE TimerError
  BY <1>2, <1>3, RTCFacts DEF RunSystemSleep, PeriodicTime, Later
<1>6. CASE Timestamp[RTC] > t
  BY <1>1, <1>3, <1>5, <1>6, RTCUntouched
<1>7. CASE Timestamp[RTC] = t
  BY <1>1, <1>3, <1>5, <1>7, RTCTick
<1> QED BY <1>3, <1>4, <1>6, <1>7

LEMMA RTCStep == IInv /\ RTCInv /\ [Next]_vars => RTCInv'
<1> SUFFICES ASSUME IInv, RTCInv, [Next]_vars PROVE RTCInv'
  OBVIOUS
<1>1. TypeOK /\ TypeOK'
  BY TypeStep DEF IInv
<1>2. SysTimestamp \in Nat /\ latest \in Nat /\ SysTimestamp <= latest
  BY <1>1 DEF TypeOK, RTCInv
<1>3. CASE \/ BeginFrame \/ UserInput \/ ResumeFrame \/ FrameDone \/ Iterate
           \/ ARM9Exit \/ ARM9PowerOff \/ ARM9Halted \/ ARM9Stalled
           \/ ARM7Control \/ ARM7Halted \/ ARM7Again \/ SystemDone
           \/ EnterSleepLoop \/ LeaveSleepLoop \/ BlankFrame \/ AtMaxTime
           \/ UNCHANGED vars
  <2>1. UNCHANGED <<SysTimestamp, schedvars, clockvars>>
    BY <1>3
       DEF BeginFrame, UserInput, ResumeFrame, FrameDone, Iterate, ARM9Exit,
           ARM9PowerOff, ARM9Halted, ARM9Stalled, SwitchToARM7, ARM7Control,
           ARM7Halted, ARM7Again, SystemDone, EnterSleepLoop, LeaveSleepLoop,
           BlankFrame, AtMaxTime, vars
  <2> QED BY <1>1, <1>2, <2>1, RTCUntouched DEF schedvars, clockvars
<1>4. CASE ARM9Step \/ ARM7Step
  <2>1. CPUEventOp /\ UNCHANGED <<SysTimestamp, latest, TimerError>>
    BY <1>4 DEF ARM9Step, ARM7Step, clockvars
  <2> QED BY <1>1, <1>2, <2>1, RTCUntouched, RTCFacts, CPUEventOpEffect
<1>5. CASE RunSystem
  <2>1. UNCHANGED <<schedvars, TimerError>> /\ latest' = Later(latest, target)
    BY <1>5 DEF RunSystem
  <2>2. SysTimestamp' <= latest' /\ latest' >= latest
    BY <1>1, <1>5, <2>1, RunSystemStep DEF Later, TypeOK
  <2> QED BY <1>1, <2>1, <2>2, RTCUntouched DEF schedvars
<1>6. CASE \E e \in Events : RunEvent(e)
  BY <1>1, <1>6, RTCRunEvent
<1>7. CASE StartFrame
  <2>1. PICK p \in Delays(LCD), c \in Chained[LCD] \cup {NoEvent} :
          HandlerSchedules(SchedListMask, LCD, TRUE, p, c)
    BY <1>7 DEF StartFrame
  <2>2. /\ LCD \in Events /\ c \in Events \cup {NoEvent} /\ RTC # c
        /\ SchedListMask \in SUBSET Events /\ p \in Nat
    <3>1. NoEvent # RTC
      BY EventsAssumption DEF NoEvent
    <3> QED BY <1>1, <3>1, RTCFacts, EventsAssumption, DelaysType DEF TypeOK
  <2>3. PICK keep \in BOOLEAN :
          keep /\ HandlerSchedules(SchedListMask, LCD, keep, p, c)
    BY <2>1, Zenon
  <2> DEFINE m == SchedListMask
  <2>4. \A x \in Events \ {LCD, c} : /\ Timestamp'[x] = Timestamp[x]
                                     /\ x \in SchedListMask' <=> x \in m
    <3>1. /\ HandlerSchedules(m, LCD, keep, p, c) /\ m \in SUBSET Events
          /\ LCD \in Events /\ c \in Events \cup {NoEvent}
      BY <2>2, <2>3
    <3> HIDE DEF m
    <3> QED BY <1>1, <2>2, <3>1, HandlerSchedulesEffect
  <2>5. /\ Timestamp'[RTC] = Timestamp[RTC]
        /\ RTC \in SchedListMask' <=> RTC \in SchedListMask
    BY <2>2, <2>4, RTCFacts
  <2>6. UNCHANGED <<SysTimestamp, latest, TimerError>>
    BY <1>7 DEF StartFrame, clockvars
  <2> QED BY <1>1, <1>2, <2>5, <2>6, RTCUntouched
<1>8. CASE SleepStep
  BY <1>1, <1>8, RTCSleepStep
<1> QED
  BY <1>3, <1>4, <1>5, <1>6, <1>7, <1>8 DEF Next

(***************************************************************************)
(* The real-time clock neither drifts nor gains or loses a tick, to the    *)
(* fraction of a cycle, whatever the other events, the cost of the CPUs'   *)
(* steps, and through sleep mode.                                          *)
(***************************************************************************)
THEOREM ClockKeepsTime == Spec => []RTCKeepsTime
<1>1. Init => RTCInv
  <2> SUFFICES ASSUME Init PROVE RTCInv
    OBVIOUS
  <2> DEFINE q == RTCClock \div RTCRate
             r == RTCClock % RTCRate
  <2>1. /\ RTC \in SchedListMask /\ Timestamp[RTC] = q
        /\ SysTimestamp = 0 /\ latest = 0 /\ TimerError = r
    BY RTCFacts, EventsAssumption DEF Init
  <2>2. q \in Nat /\ r \in Nat /\ RTCClock = q * RTCRate + r
        /\ q * RTCRate \in Nat /\ RTCRate \in Nat \ {0} /\ RTCClock \in Nat \ {0}
    BY RTCFacts, RTCDivision
  <2>3. (0 + RTCClock) % RTCClock = 0
    BY <2>2, AddPeriod
  <2> HIDE DEF q, r
  <2>4. (q - 0) * RTCRate = q * RTCRate /\ 0 + RTCClock = RTCClock
    BY <2>2
  <2> QED BY <2>1, <2>2, <2>3, <2>4 DEF RTCInv
<1>2. IInv /\ RTCInv => RTCKeepsTime
  BY DEF IInv, RTCInv, EventsInFuture, RTCKeepsTime, LeftOver
<1> QED BY <1>1, <1>2, Invariance, RTCStep, PTL DEF Spec

=============================================================================
