---------------------------- MODULE NDSScheduler ----------------------------
(***************************************************************************)
(* The system scheduler of NDS.cpp: the frame loop RunFrame, which runs    *)
(* the ARM9, then lets the ARM7 catch up, then fires the due hardware      *)
(* events; the event list (ScheduleEvent, CancelEvent, Reschedule,         *)
(* NextTarget, RunSystem); and the sleep-mode loop (NextTargetSleep,       *)
(* RunSystemSleep, EnterSleepMode, the wakeup in SetIRQ).                  *)
(*                                                                         *)
(* Time is counted in system cycles, except ARM9Timestamp and ARM9Target,  *)
(* which count ARM9 cycles (ClockRatio = 1 << ARM9ClockShift of them per   *)
(* system cycle).  What the CPUs compute is abstracted to what a step can  *)
(* do to the scheduler: take time, schedule, cancel or restart an event,   *)
(* raise an ARM7 interrupt, enter sleep mode, halt, power off.             *)
(***************************************************************************)
EXTENDS Integers, FiniteSets

CONSTANTS
  Events,        \* ids of the scheduled events, visited in increasing order
  LCD, SPU, RTC, \* Event_LCD, Event_SPU, Event_RTC
  Periodic,      \* events whose handler reschedules them with periodic = true
  CPUEvents,     \* events a CPU schedules, with periodic = false
  Chained,       \* Chained[e]: events the handler of e may start one-shot
  Periods,       \* the delays with which the handler of an event reschedules it
  RTCClock,      \* system cycles per second: 33513982
  RTCRate,       \* ticks of the RTC per second: 32768
  Delay,         \* the one-shot delay of an event
  MaxIter,       \* kMaxIterationCycles
  Margin,        \* kIterationCycleMargin
  FrameCycles,   \* length of a frame spent in sleep mode (560190 in the code)
  LastLine,      \* number of LCD events of a frame before LCD_FinishFrame
  ClockRatio,    \* 1 << ARM9ClockShift: 2 on the DS, 4 on the DSi
  MaxCost,       \* longest indivisible CPU step, in cycles of that CPU
  MaxTime        \* bound on emulated time, for model checking only

ASSUME EventsAssumption ==
  /\ Events \subseteq Nat
  /\ {LCD, SPU, RTC} \subseteq Periodic
  /\ LCD # SPU /\ LCD # RTC /\ SPU # RTC
  /\ Periodic \subseteq Events
  /\ CPUEvents \subseteq Events \ {LCD, SPU, RTC}
  /\ Chained \in [Events -> SUBSET (Events \ {LCD, SPU, RTC})]

ASSUME TimeAssumption ==
  /\ Periods \in [Events -> SUBSET (Nat \ {0})]
  /\ Periods[LCD] # {} /\ Periods[SPU] # {}
  /\ Delay \in [Events -> Nat \ {0}]
  /\ MaxIter \in Nat \ {0}
  /\ Margin \in Nat \ {0}
  /\ FrameCycles \in Nat \ {0}
  /\ LastLine \in Nat
  /\ ClockRatio \in {2, 4}
  /\ MaxCost \in Nat \ {0}
  /\ MaxTime \in Nat
  /\ RTCRate \in Nat \ {0}
  /\ RTCClock \in Nat /\ RTCClock >= RTCRate

(***************************************************************************)
(* The LCD, the SPU and the RTC have periods of hundreds of cycles, longer *)
(* than any step of a CPU.  Nothing is assumed of the other events: the    *)
(* display FIFO comes round every 48 cycles, and a compiled block or a DMA *)
(* unit may be longer than that.                                           *)
(***************************************************************************)
ASSUME PeriodAssumption ==
  /\ \A e \in {LCD, SPU} : \A p \in Periods[e] : p * ClockRatio >= MaxCost
  /\ (RTCClock \div RTCRate) * ClockRatio >= MaxCost

NoEvent == -1   \* a handler that chains no other event

VARIABLES
  pc,             \* where RunFrame is
  Running,        \* cleared by Stop
  SysTimestamp,
  ARM9Timestamp, ARM9Target,
  ARM7Timestamp, ARM7Target,
  CurCPU,
  Timestamp,      \* SchedList[e].Timestamp
  SchedListMask,  \* the scheduled events
  mask,           \* RunSystem's copy of the mask, less the events visited
  target,         \* RunFrame's local: what the ARM7 catches up with
  frametarget,    \* RunFrame's local: end of a frame in sleep mode
  Sleep, Wakeup,  \* CPUStop_Sleep and CPUStop_Wakeup of CPUStop
  TotalScanlines, \* GPU.TotalScanlines # 0: the frame is complete
  line,           \* LCD events handled in this frame
  TimerError,     \* RTC.TimerError: the fraction of a cycle carried over
  latest          \* history: the latest system time so far

cpuvars == <<ARM9Timestamp, ARM9Target, ARM7Timestamp, ARM7Target, CurCPU>>
schedvars == <<Timestamp, SchedListMask>>
localvars == <<mask, target, frametarget>>
gpuvars == <<TotalScanlines, line>>
clockvars == <<TimerError, latest>>
vars == <<pc, Running, SysTimestamp, cpuvars, schedvars, localvars, Sleep,
          Wakeup, gpuvars, clockvars>>

PCs == {"idle", "top", "iter", "arm9", "run9", "arm7", "sys", "sleep"}

\* The ARM9's turn: Execute is entered, or has executed something.
ARM9Turn == {"arm9", "run9"}

TypeOK ==
  /\ pc \in PCs
  /\ Running \in BOOLEAN
  /\ SysTimestamp \in Nat
  /\ ARM9Timestamp \in Nat
  /\ ARM9Target \in Nat
  /\ ARM7Timestamp \in Nat
  /\ ARM7Target \in Nat
  /\ CurCPU \in {0, 1}
  /\ Timestamp \in [Events -> Nat]
  /\ SchedListMask \subseteq Events
  /\ mask \subseteq Events
  /\ target \in Nat
  /\ frametarget \in Nat
  /\ Sleep \in BOOLEAN
  /\ Wakeup \in BOOLEAN
  /\ TotalScanlines \in BOOLEAN
  /\ line \in 0..LastLine
  /\ TimerError \in 0..(RTCRate - 1)
  /\ latest \in Nat

(***************************************************************************)
(* After Reset and Start: the SPU and the RTC have scheduled themselves,   *)
(* everything else is zero.                                                *)
(***************************************************************************)
Init ==
  /\ pc = "idle"
  /\ Running = TRUE
  /\ SysTimestamp = 0
  /\ ARM9Timestamp = 0 /\ ARM9Target = 0
  /\ ARM7Timestamp = 0 /\ ARM7Target = 0
  /\ CurCPU = 0
  /\ \E p \in Periods[SPU] :
       Timestamp = [e \in Events |-> CASE e = SPU -> p
                                      [] e = RTC -> RTCClock \div RTCRate
                                      [] OTHER -> 0]
  /\ SchedListMask = {SPU, RTC}
  /\ mask = {}
  /\ target = 0
  /\ frametarget = 0
  /\ Sleep = FALSE
  /\ Wakeup = FALSE
  /\ TotalScanlines = FALSE
  /\ line = 0
  /\ TimerError = RTCClock % RTCRate
  /\ latest = 0

-----------------------------------------------------------------------------
(* The event list                                                          *)

ARM9Now == ARM9Timestamp \div ClockRatio

\* The time ScheduleEvent adds a one-shot delay to.
Now == IF CurCPU = 0 THEN ARM9Now ELSE ARM7Timestamp

(***************************************************************************)
(* Reschedule: the running CPU must stop no later than t.  Lower9 and      *)
(* Lower7 give the new target of a CPU whose target was tgt.               *)
(***************************************************************************)
Lower9(tgt, t) ==
  IF CurCPU = 0 /\ t < tgt \div ClockRatio THEN t * ClockRatio ELSE tgt

Lower7(tgt, t) ==
  IF CurCPU = 1 /\ t < tgt THEN t ELSE tgt

Reschedule(t) ==
  /\ ARM9Target' = Lower9(ARM9Target, t)
  /\ ARM7Target' = Lower7(ARM7Target, t)

\* Mutant of NextTarget: every iteration is as long as possible.
NextTargetMax(t) == t = SysTimestamp + MaxIter

(***************************************************************************)
(* NextTarget: the earliest scheduled event if it is closer than the       *)
(* longest iteration plus a margin, otherwise the longest iteration.       *)
(***************************************************************************)
NextTarget(t) ==
  LET max == SysTimestamp + MaxIter IN
  \/ /\ \E e \in SchedListMask : t = Timestamp[e]
     /\ \A e \in SchedListMask : t <= Timestamp[e]
     /\ t < max + Margin
  \/ /\ t = max
     /\ \A e \in SchedListMask : Timestamp[e] >= max + Margin

\* NextTargetSleep, clamped to the end of the frame as RunFrame does.
NextTargetSleep(t) ==
  LET candidates == {Timestamp[e] : e \in SchedListMask \cap {SPU, RTC}}
                      \cup {frametarget}
  IN  /\ t \in candidates
      /\ \A c \in candidates : t <= c

(***************************************************************************)
(* What one step of the running CPU does to the event list.  Scheduling an *)
(* event that is already scheduled is ignored, so that it is the same as   *)
(* doing nothing; a division or a square root first cancels its event.     *)
(***************************************************************************)
NoEventOp == UNCHANGED <<schedvars, ARM9Target, ARM7Target>>

ScheduleEvent(e) ==
  /\ e \notin SchedListMask
  /\ SchedListMask' = SchedListMask \cup {e}
  /\ Timestamp' = [Timestamp EXCEPT ![e] = Now + Delay[e]]
  /\ Reschedule(Now + Delay[e])

CancelEvent(e) ==
  /\ SchedListMask' = SchedListMask \ {e}
  /\ UNCHANGED <<Timestamp, ARM9Target, ARM7Target>>

RestartEvent(e) ==
  /\ e \in SchedListMask
  /\ Timestamp' = [Timestamp EXCEPT ![e] = Now + Delay[e]]
  /\ Reschedule(Now + Delay[e])
  /\ UNCHANGED SchedListMask

CPUEventOp ==
  \/ NoEventOp
  \/ \E e \in CPUEvents : ScheduleEvent(e) \/ CancelEvent(e) \/ RestartEvent(e)

(***************************************************************************)
(* SetIRQ on the ARM7: an enabled interrupt ends sleep mode.               *)
(***************************************************************************)
SetIRQ(irq) ==
  /\ Sleep' = (Sleep /\ ~irq)
  /\ Wakeup' = (Wakeup \/ (Sleep /\ irq))

-----------------------------------------------------------------------------
(* RunFrame                                                                *)

(***************************************************************************)
(* The frontend calls RunFrame.  With Running cleared the loop is skipped. *)
(***************************************************************************)
BeginFrame ==
  /\ pc = "idle"
  /\ TotalScanlines' = FALSE
  /\ pc' = IF Running THEN "top" ELSE "idle"
  /\ UNCHANGED <<Running, SysTimestamp, cpuvars, schedvars, localvars, Sleep,
                 Wakeup, line, clockvars>>

EndFrame == pc' = "idle"

(***************************************************************************)
(* The head of the outer loop, in sleep mode.                              *)
(***************************************************************************)
EnterSleepLoop ==
  /\ pc = "top" /\ Running /\ Sleep
  /\ frametarget' = SysTimestamp + FrameCycles
  /\ pc' = "sleep"
  /\ UNCHANGED <<Running, SysTimestamp, cpuvars, schedvars, mask, target,
                 Sleep, Wakeup, gpuvars, clockvars>>

\* ScheduleEvent with periodic = true: from the time the event was due.
PeriodicTime(e, p) == Timestamp[e] + p

\* Mutant of RTCCycles: the fraction is dropped.
RTCCyclesWhole == RTCClock

\* RTC.ScheduleTimer: a second's cycles, with the error of the last tick.
RTCCycles == RTCClock + TimerError

\* The delay a handler gives to ScheduleEvent when it reschedules its event.
Delays(e) == IF e = RTC THEN {RTCCycles \div RTCRate} ELSE Periods[e]

(***************************************************************************)
(* What a handler does to the event list m: start the one-shot event c,    *)
(* then, if keep, reschedule e with delay p.  Both calls of ScheduleEvent  *)
(* are ignored for an event that is already in the list.                   *)
(***************************************************************************)
HandlerSchedules(m, e, keep, p, c) ==
  LET again == keep /\ e \notin m
      start == c # NoEvent /\ c \notin m
      tc    == Now + Delay[c]
      te    == PeriodicTime(e, p)
      tgt9  == IF start THEN Lower9(ARM9Target, tc) ELSE ARM9Target
      tgt7  == IF start THEN Lower7(ARM7Target, tc) ELSE ARM7Target
  IN  /\ SchedListMask' = m \cup (IF start THEN {c} ELSE {})
                            \cup (IF again THEN {e} ELSE {})
      /\ Timestamp' = [x \in Events |-> IF again /\ x = e THEN te
                                        ELSE IF start /\ x = c THEN tc
                                        ELSE Timestamp[x]]
      /\ ARM9Target' = IF again THEN Lower9(tgt9, te) ELSE tgt9
      /\ ARM7Target' = IF again THEN Lower7(tgt7, te) ELSE tgt7

(***************************************************************************)
(* The head of the outer loop, awake.  GPU.StartFrame starts scanline 0,   *)
(* which schedules the LCD event and may start the display FIFO.           *)
(***************************************************************************)
StartFrame ==
  /\ pc = "top" /\ Running /\ ~Sleep /\ ~Wakeup
  /\ \E p \in Delays(LCD), c \in Chained[LCD] \cup {NoEvent} :
       HandlerSchedules(SchedListMask, LCD, TRUE, p, c)
  /\ line' = 0
  /\ pc' = "iter"
  /\ UNCHANGED <<Running, SysTimestamp, ARM9Timestamp, ARM7Timestamp, CurCPU,
                 localvars, Sleep, Wakeup, TotalScanlines, clockvars>>

\* A wakeup from sleep resumes the frame that sleep mode interrupted.
ResumeFrame ==
  /\ pc = "top" /\ Running /\ ~Sleep /\ Wakeup
  /\ Wakeup' = FALSE
  /\ pc' = "iter"
  /\ UNCHANGED <<Running, SysTimestamp, cpuvars, schedvars, localvars, Sleep,
                 gpuvars, clockvars>>

(***************************************************************************)
(* One iteration of the inner loop: first the ARM9.                        *)
(***************************************************************************)
Iterate ==
  /\ pc = "iter" /\ Running /\ ~TotalScanlines
  /\ SysTimestamp < MaxTime
  /\ \E t \in {Timestamp[e] : e \in SchedListMask}
               \cup {SysTimestamp + MaxIter} :
       /\ NextTarget(t)
       /\ ARM9Target' = t * ClockRatio
  /\ CurCPU' = 0
  /\ pc' = "arm9"
  /\ UNCHANGED <<Running, SysTimestamp, ARM9Timestamp, ARM7Timestamp,
                 ARM7Target, schedvars, localvars, Sleep, Wakeup, gpuvars,
                 clockvars>>

\* An instruction, a compiled block or a unit of a DMA transfer.
ARM9Step ==
  /\ pc \in ARM9Turn
  /\ ARM9Timestamp < ARM9Target
  /\ CPUEventOp
  /\ \E cost \in 1..MaxCost : ARM9Timestamp' = ARM9Timestamp + cost
  /\ pc' = "run9"
  /\ UNCHANGED <<Running, SysTimestamp, ARM7Timestamp, CurCPU, localvars, Sleep,
                 Wakeup, gpuvars, clockvars>>

\* The ARM9 is done with the iteration at time now9: switch to the ARM7.
SwitchToARM7(now9) ==
  /\ pc \in ARM9Turn
  /\ ARM9Timestamp' = now9
  /\ target' = now9 \div ClockRatio
  /\ ARM7Target' = IF ARM7Timestamp < now9 \div ClockRatio
                   THEN now9 \div ClockRatio ELSE ARM7Target
  /\ CurCPU' = 1
  /\ pc' = "arm7"
  /\ UNCHANGED <<SysTimestamp, ARM9Target, ARM7Timestamp, schedvars, mask,
                 frametarget, Sleep, Wakeup, gpuvars, clockvars>>

\* The target is reached, or Halt(2) or a stall ended the run early.
ARM9Exit == SwitchToARM7(ARM9Timestamp) /\ UNCHANGED Running

\* Stop called by the ARM9, on a bad exception region.
ARM9PowerOff == SwitchToARM7(ARM9Timestamp) /\ Running /\ Running' = FALSE

(***************************************************************************)
(* Halted with no interrupt pending: skip to the target.  When Execute     *)
(* finds the ARM9 halted it does so without looking at the time; after an  *)
(* instruction that halts, only if the target is still ahead.              *)
(***************************************************************************)
ARM9Halted ==
  /\ pc = "run9" => ARM9Timestamp < ARM9Target
  /\ SwitchToARM7(ARM9Target)
  /\ UNCHANGED Running

\* Stalled on the geometry FIFO: run for the cycles the GPU needs.
ARM9Stalled ==
  /\ pc = "arm9"
  /\ \E cycles \in 0..(MaxIter + Margin) :
       LET t == ARM9Timestamp + cycles * ClockRatio
       IN  SwitchToARM7(IF t < ARM9Target THEN t ELSE ARM9Target)
  /\ UNCHANGED Running

(***************************************************************************)
(* The ARM7 catches up with the target.  A step may raise an interrupt of  *)
(* the ARM7, enter sleep mode or power off.                                *)
(***************************************************************************)
ARM7Step ==
  /\ pc = "arm7"
  /\ ARM7Timestamp < target
  /\ ARM7Timestamp < ARM7Target
  /\ CPUEventOp
  /\ \E cost \in 1..MaxCost : ARM7Timestamp' = ARM7Timestamp + cost
  /\ UNCHANGED <<pc, Running, SysTimestamp, ARM9Timestamp, CurCPU, localvars,
                 Sleep, Wakeup, gpuvars, clockvars>>

ARM7Control ==
  /\ pc = "arm7"
  /\ ARM7Timestamp < target
  /\ \/ SetIRQ(TRUE) /\ UNCHANGED Running
     \/ Sleep' = TRUE /\ UNCHANGED <<Wakeup, Running>>
     \/ Running' = FALSE /\ UNCHANGED <<Sleep, Wakeup>>
  /\ UNCHANGED <<pc, SysTimestamp, cpuvars, schedvars, localvars, gpuvars,
                 clockvars>>

ARM7Halted ==
  /\ pc = "arm7"
  /\ ARM7Timestamp < target
  /\ ARM7Timestamp < ARM7Target
  /\ ARM7Timestamp' = ARM7Target
  /\ UNCHANGED <<pc, Running, SysTimestamp, ARM9Timestamp, ARM9Target,
                 ARM7Target, CurCPU, schedvars, localvars, Sleep, Wakeup,
                 gpuvars, clockvars>>

\* Execute returned before the target: a reschedule had brought it forward.
ARM7Again ==
  /\ pc = "arm7"
  /\ ARM7Timestamp < target
  /\ ARM7Target' = target
  /\ UNCHANGED <<pc, Running, SysTimestamp, ARM9Timestamp, ARM9Target,
                 ARM7Timestamp, CurCPU, schedvars, localvars, Sleep, Wakeup,
                 gpuvars, clockvars>>

-----------------------------------------------------------------------------
(* RunSystem                                                               *)

\* Mutant of ARM7CaughtUp: the ARM7 is not run again when it stops early.
ARM7RanOnce == TRUE

\* The condition that ends the loop around the ARM7.
ARM7CaughtUp == ARM7Timestamp >= target

Later(s, t) == IF s < t THEN t ELSE s

RunSystem ==
  /\ pc = "arm7"
  /\ ARM7CaughtUp
  /\ SysTimestamp' = target
  /\ latest' = Later(latest, target)
  /\ mask' = SchedListMask
  /\ target' = 0
  /\ pc' = "sys"
  /\ UNCHANGED <<Running, cpuvars, schedvars, frametarget, Sleep, Wakeup,
                 gpuvars, TimerError>>

\* Mutant of IsDue: an event fires only once its time is past.
IsDueLate(e) == Timestamp[e] < SysTimestamp

\* Mutant of IsDue: an event fires only at its very time.
IsDueExact(e) == Timestamp[e] = SysTimestamp

IsDue(e) == Timestamp[e] <= SysTimestamp

\* Event e of RunSystem's copy of the mask is the next one to fire.
Due(e) ==
  /\ e \in mask
  /\ IsDue(e)
  /\ \A f \in mask : f < e => ~IsDue(f)

(***************************************************************************)
(* The handlers: the last LCD event of a frame completes it and schedules  *)
(* nothing; the LCD, the SPU and the RTC otherwise always reschedule       *)
(* themselves; the others may stop.  Any handler may raise an interrupt.   *)
(***************************************************************************)
FinishFrame(e) == e = LCD /\ line = LastLine

RunEvent(e) ==
  /\ pc = "sys"
  /\ Due(e)
  /\ \E p \in Delays(e) \cup {0}, c \in Chained[e] \cup {NoEvent} :
       LET keep == p # 0 IN
       /\ keep => e \in Periodic /\ c # e
       /\ FinishFrame(e) => ~keep /\ c = NoEvent
       /\ e \in {LCD, SPU, RTC} => keep \/ FinishFrame(e)
       /\ HandlerSchedules(SchedListMask \ {e}, e, keep, p, c)
  /\ TimerError' = IF e = RTC THEN RTCCycles % RTCRate ELSE TimerError
  /\ \E irq \in BOOLEAN : SetIRQ(irq)
  /\ TotalScanlines' = (TotalScanlines \/ FinishFrame(e))
  /\ line' = IF e = LCD /\ ~FinishFrame(e) THEN line + 1 ELSE line
  /\ mask' = {f \in mask : f > e}
  /\ UNCHANGED <<pc, Running, SysTimestamp, ARM9Timestamp, ARM7Timestamp,
                 CurCPU, target, frametarget, latest>>

\* The end of an iteration: sleep mode leaves the inner loop.
SystemDone ==
  /\ pc = "sys"
  /\ \A e \in mask : ~IsDue(e)
  /\ mask' = {}
  /\ \/ ~Sleep /\ pc' = "iter"
     \/ Sleep /\ ~TotalScanlines /\ pc' = "top"
     \/ Sleep /\ TotalScanlines /\ EndFrame
  /\ UNCHANGED <<Running, SysTimestamp, cpuvars, schedvars, target,
                 frametarget, Sleep, Wakeup, TotalScanlines, line, clockvars>>

\* RunFrame returns: the frame is complete, or the system was stopped.
FrameDone ==
  /\ \/ pc = "iter" /\ (TotalScanlines \/ ~Running)
     \/ pc = "top" /\ ~Running
  /\ EndFrame
  /\ UNCHANGED <<Running, SysTimestamp, cpuvars, schedvars, localvars, Sleep,
                 Wakeup, TotalScanlines, line, clockvars>>

-----------------------------------------------------------------------------
(* Sleep mode                                                              *)

\* RunSystemSleep's offset: the time a turn of the sleep loop skips.
Skipped(t) == t - SysTimestamp

(***************************************************************************)
(* One turn of the sleep loop: both CPUs jump to the next SPU or RTC       *)
(* event; RunSystemSleep handles the RTC (whose interrupt may end sleep    *)
(* mode) and pushes the other events that came due back by the time        *)
(* skipped.                                                                *)
(***************************************************************************)
RunSystemSleep(t, irq) ==
  LET rtc   == RTC \in SchedListMask /\ Timestamp[RTC] <= t
      next  == PeriodicTime(RTC, RTCCycles \div RTCRate)
  IN  /\ SysTimestamp' = t
      /\ TimerError' = IF rtc THEN RTCCycles % RTCRate ELSE TimerError
      /\ Timestamp' =
           [e \in Events |->
             IF e \notin SchedListMask \/ Timestamp[e] > t THEN Timestamp[e]
             ELSE IF e = RTC THEN next
             ELSE Timestamp[e] + Skipped(t)]
      /\ ARM9Target' = IF rtc THEN Lower9(ARM9Target, next) ELSE ARM9Target
      /\ ARM7Target' = IF rtc THEN Lower7(ARM7Target, next) ELSE ARM7Target
      /\ irq => rtc
      /\ SetIRQ(irq)

SleepStep ==
  /\ pc = "sleep" /\ Running /\ Sleep
  /\ SysTimestamp < frametarget
  /\ SysTimestamp < MaxTime
  /\ \E t \in {Timestamp[e] : e \in SchedListMask} \cup {frametarget} :
       /\ NextTargetSleep(t)
       /\ ARM9Timestamp' = t * ClockRatio
       /\ ARM7Timestamp' = t
       /\ latest' = Later(latest, t)
       /\ \E irq \in BOOLEAN : RunSystemSleep(t, irq)
  /\ UNCHANGED <<pc, Running, CurCPU, SchedListMask, localvars, gpuvars>>

\* Woken up: back to the head of the outer loop.
LeaveSleepLoop ==
  /\ pc = "sleep" /\ ~Sleep
  /\ SysTimestamp < frametarget
  /\ frametarget' = 0
  /\ pc' = "top"
  /\ UNCHANGED <<Running, SysTimestamp, cpuvars, schedvars, mask, target,
                 Sleep, Wakeup, gpuvars, clockvars>>

\* A whole frame was slept through: BlankFrame, and RunFrame returns.
BlankFrame ==
  /\ pc = "sleep"
  /\ SysTimestamp >= frametarget
  /\ TotalScanlines' = TRUE
  /\ frametarget' = 0
  /\ EndFrame
  /\ UNCHANGED <<Running, SysTimestamp, cpuvars, schedvars, mask, target,
                 Sleep, Wakeup, line, clockvars>>

\* Between frames, SetLidClosed(false) and SetKeyMask raise an interrupt.
UserInput ==
  /\ pc = "idle"
  /\ SetIRQ(TRUE)
  /\ UNCHANGED <<pc, Running, SysTimestamp, cpuvars, schedvars, localvars,
                 gpuvars, clockvars>>

\* The bound on emulated time: the model goes no further.
AtMaxTime ==
  /\ pc \in {"iter", "sleep"}
  /\ SysTimestamp >= MaxTime
  /\ UNCHANGED vars

Next ==
  \/ BeginFrame \/ UserInput
  \/ StartFrame \/ ResumeFrame \/ FrameDone
  \/ Iterate
  \/ ARM9Step \/ ARM9Exit \/ ARM9PowerOff \/ ARM9Halted \/ ARM9Stalled
  \/ ARM7Step \/ ARM7Control \/ ARM7Halted \/ ARM7Again
  \/ RunSystem \/ (\E e \in Events : RunEvent(e)) \/ SystemDone
  \/ EnterSleepLoop \/ SleepStep \/ LeaveSleepLoop \/ BlankFrame
  \/ AtMaxTime

Spec == Init /\ [][Next]_vars

-----------------------------------------------------------------------------
(* Properties                                                              *)

\* RunFrame is between two turns of its loops: no handler or CPU is running.
AtRest == pc \in {"idle", "top", "iter", "sleep"}

\* An event can be late by less than this many ARM9 cycles: one ARM9 step, and,
\* if a CPU may have scheduled it in this very iteration, an iteration more.
MaxLate(e) ==
  MaxCost + (IF e \in CPUEvents THEN (MaxIter + Margin) * ClockRatio ELSE 0)

\* The events whose period can be shorter than their lateness.
Short == {e \in Periodic \ {RTC} :
            \E p \in Periods[e] : p * ClockRatio < MaxLate(e)}

\* An event that was handled so late that its next time is past as well.
LeftOver(e) ==
  /\ e \in Periodic \ {RTC}
  /\ \E p \in Periods[e] :
       (SysTimestamp - Timestamp[e] + p) * ClockRatio < MaxLate(e)

(***************************************************************************)
(* No event is left behind: once RunSystem (or a turn of the sleep loop)   *)
(* is over, every scheduled event lies strictly in the future, although    *)
(* handlers reschedule events and RunSystem works on a stale copy of the   *)
(* mask.  The only exception is a periodic event that was fired so late    *)
(* that its next time is past too: what is left of its lateness is then    *)
(* shorter by its period.                                                  *)
(***************************************************************************)
EventsInFuture ==
  AtRest => \A e \in SchedListMask : Timestamp[e] > SysTimestamp \/ LeftOver(e)

(***************************************************************************)
(* Lateness: when RunSystem runs, an event that only handlers schedule is  *)
(* late by less than one ARM9 step; one that a CPU may have scheduled in   *)
(* this very iteration, by less than an iteration and a step.  It does not *)
(* add up over the iterations, overdue events included.                    *)
(***************************************************************************)
LatenessBound ==
  pc = "sys" => \A e \in mask \cap SchedListMask :
    (SysTimestamp - Timestamp[e]) * ClockRatio < MaxLate(e)

(***************************************************************************)
(* While the ARM9 runs it never gets a whole step past a scheduled event,  *)
(* including the events it schedules itself during the run (Reschedule);   *)
(* with an event overdue from the last iteration it does not run at all.   *)
(***************************************************************************)
ARM9StopsForEvents ==
  pc = "run9" => \A e \in SchedListMask :
    ARM9Timestamp < Timestamp[e] * ClockRatio + MaxCost

(***************************************************************************)
(* The CPUs stay together: at rest the ARM9 is exactly at the system time  *)
(* and the ARM7 has caught up with it.  The ARM7 is less than one step     *)
(* ahead of the latest system time there was.                              *)
(***************************************************************************)
CPUsInStep ==
  AtRest => /\ ARM9Now = SysTimestamp
            /\ ARM7Timestamp >= SysTimestamp
            /\ ARM7Timestamp < latest + MaxCost

(***************************************************************************)
(* The real-time clock never drifts, gains or loses a tick, whatever the   *)
(* lateness of its event and through sleep mode.  At rest the next tick is *)
(* scheduled; its time and the fraction in TimerError are a whole number   *)
(* of ticks of RTCClock / RTCRate cycles; and no tick is overdue, or after *)
(* the latest system time by a cycle more than a period.                   *)
(***************************************************************************)
RTCKeepsTime ==
  AtRest => /\ RTC \in SchedListMask
            /\ (Timestamp[RTC] * RTCRate + TimerError) % RTCClock = 0
            /\ SysTimestamp < Timestamp[RTC]
            /\ (Timestamp[RTC] - latest) * RTCRate < RTCClock + RTCRate

(***************************************************************************)
(* System time and ARM9 time run backwards (RunTimers and the geometry     *)
(* engine take differences of them) only to the time of a short event that *)
(* the last iteration left overdue.  Every turn of the sleep loop advances *)
(* system time, so that the loop reaches the end of the frame.             *)
(***************************************************************************)
Overdue(e) == e \in Short \cap SchedListMask /\ Timestamp[e] <= SysTimestamp

TimeNeverRunsBack ==
  [][/\ SysTimestamp' >= SysTimestamp
          \/ \E e \in Events : Overdue(e) /\ SysTimestamp' = Timestamp[e]
     /\ ARM9Timestamp' >= ARM9Timestamp
          \/ \E e \in Events : Overdue(e) /\ ARM9Timestamp' = Timestamp[e] * ClockRatio
     /\ pc = "sleep" /\ pc' = "sleep" => SysTimestamp' > SysTimestamp]_vars

(***************************************************************************)
(* How far back: less than the greatest lateness of a short event from the *)
(* latest time there was.  Going back twice does not add up.               *)
(***************************************************************************)
Near(t) ==
  t >= latest \/ \E e \in Short : (latest - t) * ClockRatio < MaxLate(e)

BackIsBounded == Near(SysTimestamp)

-----------------------------------------------------------------------------
(* The inductive invariant behind EventsInFuture, LatenessBound,           *)
(* ARM9StopsForEvents, CPUsInStep, TimeNeverRunsBack and BackIsBounded     *)

\* NextTarget was the time of a short event that is overdue: the ARM9 does
\* not run, and if it is halted it goes back there.
BehindTime(tgt) == \E e \in Events : Overdue(e) /\ tgt = Timestamp[e]

\* No scheduled event will be later than it may be when it is t.
LateAt(t) ==
  \A e \in SchedListMask : (t - Timestamp[e]) * ClockRatio < MaxLate(e)

ARM9TurnInv ==
  pc \in ARM9Turn =>
    /\ CurCPU = 0
    /\ ~TotalScanlines
    /\ SysTimestamp * ClockRatio <= ARM9Timestamp
    /\ ARM9Target % ClockRatio = 0
    /\ ARM9Target <= (SysTimestamp + MaxIter + Margin) * ClockRatio
    /\ \A e \in SchedListMask : ARM9Target <= Timestamp[e] * ClockRatio
    /\ \/ ARM9Timestamp < ARM9Target
       \/ pc = "run9" /\ ARM9Timestamp < ARM9Target + MaxCost
       \/ /\ pc = "arm9"
          /\ ARM9Now = SysTimestamp
          /\ BehindTime(ARM9Target \div ClockRatio)
          /\ LateAt(SysTimestamp)

ARM7TurnInv ==
  pc = "arm7" =>
    /\ CurCPU = 1
    /\ ~TotalScanlines
    /\ target = ARM9Now
    /\ SysTimestamp <= target \/ BehindTime(target)
    /\ target * ClockRatio
         < (SysTimestamp + MaxIter + Margin) * ClockRatio + MaxCost
    /\ ARM7Timestamp < target => ARM7Target <= target
    /\ ARM7Timestamp < target + MaxCost \/ ARM7Timestamp < latest + MaxCost
    /\ LateAt(target)

SystemInv ==
  pc = "sys" =>
    /\ CurCPU = 1
    /\ ARM9Now = SysTimestamp
    /\ ARM7Timestamp >= SysTimestamp
    /\ ARM7Timestamp < latest + MaxCost
    /\ mask \subseteq SchedListMask
    /\ \A e \in SchedListMask \ mask :
         Timestamp[e] > SysTimestamp \/ LeftOver(e)

ARM7Ahead ==
  /\ ARM7Timestamp >= SysTimestamp
  /\ pc \in ARM9Turn => ARM7Timestamp < latest + MaxCost

\* Neither the system nor a short event is far behind the latest time.
NearInv ==
  /\ Near(SysTimestamp)
  /\ \A e \in Short \cap SchedListMask : Near(Timestamp[e])

(***************************************************************************)
(* The LCD event of a completed frame is recent when StartFrame adds a     *)
(* period to it; it can be stale only if a wakeup will skip StartFrame.    *)
(***************************************************************************)
LCDRecent == \A p \in Periods[LCD] : Timestamp[LCD] + p > SysTimestamp

LCDInv ==
  LCD \notin SchedListMask =>
    /\ pc \in {"idle", "top"} => LCDRecent \/ Sleep \/ Wakeup \/ ~Running
    /\ pc \in {"iter", "sys"} /\ TotalScanlines => LCDRecent

SleepInv ==
  /\ pc = "sleep" => Sleep \/ Wakeup
  /\ pc \in {"top", "sleep"} => ~TotalScanlines

IInv ==
  /\ TypeOK
  /\ EventsInFuture
  /\ LatenessBound
  /\ CPUsInStep
  /\ ARM9TurnInv
  /\ ARM7TurnInv
  /\ SystemInv
  /\ ARM7Ahead
  /\ NearInv
  /\ LCDInv
  /\ SleepInv

(***************************************************************************)
(* The inductive invariant behind RTCKeepsTime: in the middle of an        *)
(* iteration the RTC event may be overdue, but is always scheduled, at the *)
(* time of a tick and at most a period ahead.                              *)
(***************************************************************************)
RTCInv ==
  /\ SysTimestamp <= latest
  /\ RTC \in SchedListMask
  /\ (Timestamp[RTC] * RTCRate + TimerError) % RTCClock = 0
  /\ (Timestamp[RTC] - latest) * RTCRate < RTCClock + RTCRate

=============================================================================
