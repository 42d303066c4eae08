------------------------------ MODULE EmuThread ------------------------------
(***************************************************************************)
(* The message protocol between the UI thread and the emulation threads    *)
(* (src/src/frontend/qt_sdl/EmuThread.cpp), one emulation thread for every *)
(* emulator instance.                                                      *)
(*                                                                         *)
(* A caller enqueues messages under msgMutex and acquires one credit of    *)
(* msgSemaphore for each; the emulation thread, once per turn of its loop, *)
(* takes the mutex, handles all messages and releases a credit for each.   *)
(* Calls from the emulation thread itself enqueue but do not wait.         *)
(* emuPause and emuUnpause are broadcast to the other instances.           *)
(*                                                                         *)
(* A thread's remaining work is a program: a sequence of the primitive     *)
(* steps its API call is made of.                                          *)
(***************************************************************************)
EXTENDS Integers, Sequences

CONSTANTS
  Instances,   \* emulator instances; thread i is the emulation thread of i
  UI,          \* the UI thread
  None,
  MaxCalls,    \* bound: API calls in a behaviour
  Ops          \* which of the optional calls may happen

AllOps == {"Hotkeys", "PowerOff", "Focus", "FrameStep", "GL", "Exit"}
PauseThreshold == 1      \* emuPauseStackPauseThreshold

ASSUME InstancesAssumption == UI \notin Instances /\ None \notin Instances
ASSUME OpsAssumption == Ops \subseteq AllOps /\ MaxCalls \in Nat

VARIABLES
  emu,         \* [status, prev, stack, active] of each EmuThread
  pc,          \* where each emulation thread is in its loop
  queue,       \* msgQueue
  cur,         \* the message being handled
  borrowed,    \* glborrow in handleMessages
  sem,         \* msgSemaphore
  result,      \* msgResult, with the command that set it
  prog,        \* what is left of the call each thread is making
  calls,
  dialog,      \* the instance whose modal dialog is open
  manual,      \* MainWindow::pausedManually
  inactive,    \* the windows that were told the focus is lost
  checked,     \* actPause of the menu: the pause item has its mark
  stray        \* (history) instances that got messages whose sender does not
               \* take the credits, or shares them with the UI thread

loop == <<pc, queue, cur, borrowed, sem, result>>
window == <<dialog, manual, inactive, checked>>
vars == <<emu, loop, prog, calls, window, stray>>

Threads == Instances \cup {UI}
Statuses == {"Exit", "Running", "Paused", "FrameStep"}
Controls == {"Exit", "EmuRun", "EmuPause", "EmuUnpause", "EmuStop",
             "EmuFrameStep", "EmuReset", "BorrowGL", "Plain"}
Message == [type : Controls \cup {"Command"}, cmd : 0 .. MaxCalls]
ASSUME NoneAssumption == None \notin Message
Msg(type) == [type |-> type, cmd |-> 0]
Command(c) == [type |-> "Command", cmd |-> c]
Alive(i) == pc[i] # "ended"

Init ==
  /\ emu = [i \in Instances |-> [status |-> "Paused", prev |-> "Paused", stack |-> 0,
                                active |-> FALSE]]
  /\ pc = [i \in Instances |-> "top"] /\ queue = [i \in Instances |-> <<>>]
  /\ cur = [i \in Instances |-> None] /\ borrowed = [i \in Instances |-> FALSE]
  /\ sem = [i \in Instances |-> 0]
  /\ result = [i \in Instances |-> [cmd |-> 0, ok |-> FALSE]]
  /\ prog = [t \in Threads |-> <<>>] /\ calls = 0
  /\ dialog = None /\ manual = [i \in Instances |-> FALSE] /\ inactive = {}
  /\ checked = [i \in Instances |-> FALSE] /\ stray = {}

-----------------------------------------------------------------------------
(* The primitive steps of a call. *)

Send(i, m) == <<[do |-> "send", to |-> i, msg |-> m]>>
Wait(i, n) == <<[do |-> "wait", to |-> i, num |-> n]>>
Step(do, i) == <<[do |-> do, to |-> i]>>
Read(i, c) == <<[do |-> "read", to |-> i, cmd |-> c]>>

Call(i, type) == Send(i, Msg(type)) \o Wait(i, 1)

\* broadcastInstanceCommand goes on to the instances in left.
BroadcastTo(left, type) == <<[do |-> "broadcast", left |-> left, type |-> type]>>

\* Mutant of Broadcast: the other instances are not told.
BroadcastOwn(i, type) == Call(i, type)

Broadcast(i, type) == Call(i, type) \o BroadcastTo(Instances \ {i}, type)

emuPause(i) == Broadcast(i, "EmuPause")
emuUnpause(i) == Broadcast(i, "EmuUnpause")
emuTogglePause(i) == IF emu[i].status = "Paused" THEN emuUnpause(i) ELSE emuPause(i)
emuFrameStep(i) ==
  (IF emu[i].stack < PauseThreshold THEN Send(i, Msg("EmuPause")) ELSE <<>>)
  \o Send(i, Msg("EmuFrameStep")) \o Step("waitAll", i)
emuReset(i) == Call(i, "EmuReset")
bootROM(i, c) ==
  Send(i, Command(c)) \o Wait(i, 1) \o Read(i, c) \o Call(i, "EmuRun")
resultCommand(i, c) == Send(i, Command(c)) \o Wait(i, 1) \o Read(i, c)
importSavefile(i, c) ==
  Send(i, Msg("EmuReset")) \o Send(i, Command(c)) \o Wait(i, 2) \o Read(i, c)
borrowGL(i) ==
  Call(i, "BorrowGL") \o Step("context", i) \o Step("returnGL", i)

\* emuExit, and the wait for the thread in ~EmuInstance.
emuExit(i) == Send(i, Msg("Exit")) \o Step("waitAll", i) \o Step("join", i)

-----------------------------------------------------------------------------
(* Running a program. *)

Working(t) == prog[t] # <<>>
Now(t) == Head(prog[t])
Advance(t) == prog' = [prog EXCEPT ![t] = Tail(@)]
LoopTest(i) == IF emu[i].status = "Exit" THEN "ended" ELSE "top"
MutexFree(i) == pc[i] # "handle"

sendMessage(t) ==
  /\ Working(t) /\ Now(t).do = "send" /\ MutexFree(Now(t).to)
  /\ queue' = [queue EXCEPT ![Now(t).to] = Append(@, Now(t).msg)]
  /\ Advance(t)
  /\ UNCHANGED <<emu, pc, cur, borrowed, sem, result, calls, window, stray>>

\* Mutant of Enough: any credit will do.
EnoughOne(t, num) == sem[Now(t).to] >= 1

Enough(t, num) == sem[Now(t).to] >= num

\* A call from the emulation thread of the instance itself returns at once.
waitMessage(t) ==
  /\ Working(t) /\ Now(t).do = "wait"
  /\ IF Now(t).to = t THEN UNCHANGED sem
     ELSE /\ Enough(t, Now(t).num)
          /\ sem' = [sem EXCEPT ![Now(t).to] = @ - Now(t).num]
  /\ Advance(t)
  /\ UNCHANGED <<emu, pc, queue, cur, borrowed, result, calls, window, stray>>

\* One turn of waitAllMessages: the queue is looked at without the mutex.
waitAllMessages(t) ==
  /\ Working(t) /\ Now(t).do \in {"waitAll", "acquire"}
  /\ IF Now(t).do = "acquire"
     THEN /\ sem[Now(t).to] > 0
          /\ sem' = [sem EXCEPT ![Now(t).to] = @ - 1]
          /\ prog' = [prog EXCEPT ![t] = Step("waitAll", Now(t).to) \o Tail(@)]
     ELSE /\ UNCHANGED sem
          /\ prog' = [prog EXCEPT ![t] =
               IF Now(t).to = t \/ queue[Now(t).to] = <<>> THEN Tail(@)
               ELSE Step("acquire", Now(t).to) \o Tail(@)]
  /\ UNCHANGED <<emu, pc, queue, cur, borrowed, result, calls, window, stray>>

\* The caller looks at msgResult: what follows a failed boot is not done.
ReadResult(t) ==
  /\ Working(t) /\ Now(t).do = "read"
  /\ prog' = [prog EXCEPT ![t] = IF result[Now(t).to].ok THEN Tail(@) ELSE <<>>]
  /\ UNCHANGED <<emu, loop, calls, window, stray>>

broadcastInstanceCommand(t) ==
  /\ Working(t) /\ Now(t).do = "broadcast"
  /\ LET S == {j \in Now(t).left : Alive(j)}
     IN IF S = {} THEN Advance(t) /\ UNCHANGED stray
        ELSE \E j \in S :
               /\ prog' = [prog EXCEPT ![t] =
                    Call(j, Now(t).type) \o BroadcastTo(S \ {j}, Now(t).type) \o Tail(@)]
               /\ stray' = IF t = UI THEN stray ELSE stray \cup {j}
  /\ UNCHANGED <<emu, loop, calls, window>>

\* The UI thread makes its shared GL context.
CreateContext(t) ==
  /\ Working(t) /\ Now(t).do = "context"
  /\ Advance(t)
  /\ UNCHANGED <<emu, loop, calls, window, stray>>

\* wakeAll reaches the emulation thread only if it is already waiting.
returnGL(t) ==
  /\ Working(t) /\ Now(t).do = "returnGL"
  /\ pc' = [pc EXCEPT ![Now(t).to] = IF @ = "glwait" THEN LoopTest(Now(t).to) ELSE @]
  /\ Advance(t)
  /\ UNCHANGED <<emu, queue, cur, borrowed, sem, result, calls, window, stray>>

JoinThread(t) ==
  /\ Working(t) /\ Now(t).do = "join" /\ ~Alive(Now(t).to)
  /\ Advance(t)
  /\ UNCHANGED <<emu, loop, calls, window, stray>>

Run(t) ==
  \/ sendMessage(t) \/ waitMessage(t) \/ waitAllMessages(t) \/ ReadResult(t)
  \/ broadcastInstanceCommand(t) \/ CreateContext(t) \/ returnGL(t)
  \/ JoinThread(t)

-----------------------------------------------------------------------------
(* The loop of an emulation thread. *)

\* Hotkeys are looked at first; the calls they make only enqueue messages for
\* this instance, and wait for the other ones.
Hotkeys(i) ==
  /\ "Hotkeys" \in Ops /\ calls < MaxCalls
  /\ pc[i] = "top" /\ ~Working(i)
  /\ \E pressed \in (SUBSET {"Pause", "Reset", "FrameStep"}) \ {{}} :
       prog' = [prog EXCEPT ![i] =
         (IF "Pause" \in pressed THEN emuTogglePause(i) ELSE <<>>)
         \o (IF "Reset" \in pressed THEN emuReset(i) ELSE <<>>)
         \o (IF "FrameStep" \in pressed THEN emuFrameStep(i) ELSE <<>>)]
  /\ calls' = calls + 1 /\ pc' = [pc EXCEPT ![i] = "keys"]
  /\ stray' = stray \cup {i}
  /\ UNCHANGED <<emu, queue, cur, borrowed, sem, result, window>>

\* A frame, or the short sleep of a paused emulator.
Turn(i) ==
  /\ pc[i] \in {"top", "keys"} /\ ~Working(i)
  /\ pc' = [pc EXCEPT ![i] =
       IF emu[i].status \in {"Running", "FrameStep"} THEN "frame" ELSE "lock"]
  /\ emu' = [emu EXCEPT ![i].status = IF @ = "FrameStep" THEN "Paused" ELSE @]
  /\ UNCHANGED <<queue, cur, borrowed, sem, result, prog, calls, window, stray>>

\* The game switches the console off in the middle of a frame.
PowerOff(i) ==
  /\ "PowerOff" \in Ops /\ calls < MaxCalls
  /\ pc[i] = "frame" /\ ~Working(i)
  /\ prog' = [prog EXCEPT ![i] = Call(i, "EmuStop")]
  /\ calls' = calls + 1 /\ stray' = stray \cup {i}
  /\ UNCHANGED <<emu, loop, window>>

FrameOver(i) ==
  /\ pc[i] = "frame" /\ ~Working(i)
  /\ pc' = [pc EXCEPT ![i] = "lock"]
  /\ UNCHANGED <<emu, queue, cur, borrowed, sem, result, prog, calls, window, stray>>

\* handleMessages: take the mutex, and the next message off the queue.
TakeMessage(i) ==
  /\ \/ pc[i] = "lock"
     \/ pc[i] = "handle" /\ cur[i] = None
  /\ queue[i] # <<>>
  /\ pc' = [pc EXCEPT ![i] = "handle"]
  /\ cur' = [cur EXCEPT ![i] = Head(queue[i])]
  /\ queue' = [queue EXCEPT ![i] = Tail(@)]
  /\ UNCHANGED <<emu, borrowed, sem, result, prog, calls, window, stray>>

\* Pauses nest: only the first one remembers the status to go back to.
Paused(e) ==
  IF e.stack + 1 > PauseThreshold THEN [e EXCEPT !.stack = @ + 1]
  ELSE [e EXCEPT !.stack = @ + 1, !.prev = e.status, !.status = "Paused"]

\* Mutant of Unpaused: the stack is compared with emuPauseStackRunning.
UnpausedNever(e) ==
  IF e.stack < PauseThreshold THEN e ELSE [e EXCEPT !.stack = @ - 1]

Unpaused(e) ==
  CASE e.stack < PauseThreshold -> e
    [] e.stack > PauseThreshold -> [e EXCEPT !.stack = @ - 1]
    [] OTHER -> [e EXCEPT !.stack = @ - 1, !.status = e.prev]

\* windowEmuStart and windowEmuPause set the mark of the menu item.
Marked(mark, e, type) ==
  CASE type = "EmuRun" -> FALSE
    [] type = "EmuPause" /\ e.stack < PauseThreshold /\ e.status # "Paused" -> TRUE
    [] type = "EmuUnpause" /\ e.stack = PauseThreshold /\ e.prev # "Paused" -> FALSE
    [] OTHER -> mark

Started(e) == [e EXCEPT !.status = "Running", !.stack = 0, !.active = TRUE]

\* What handling a message does to the emulation thread's own state.
After(e, type) ==
  CASE type = "Exit" -> [e EXCEPT !.status = "Exit", !.stack = 0]
    [] type \in {"EmuRun", "EmuReset"} -> Started(e)
    [] type = "EmuPause" -> Paused(e)
    [] type = "EmuUnpause" -> Unpaused(e)
    [] type = "EmuStop" ->
         [e EXCEPT !.status = "Paused", !.active = FALSE]
    [] type = "EmuFrameStep" -> [e EXCEPT !.status = "FrameStep"]
    [] OTHER -> e

\* Mutant of Lends: the loop goes on with the GL context released.
LendsNothing(type) == FALSE

Lends(type) == type = "BorrowGL"

\* Mutant of Released: one credit for all the messages of a batch.
ReleasedOnce(i) == IF queue[i] = <<>> THEN sem[i] + 1 ELSE sem[i]

Released(i) == sem[i] + 1

HandleMessage(i) ==
  /\ pc[i] = "handle" /\ cur[i] # None
  /\ emu' = [emu EXCEPT ![i] = After(@, cur[i].type)]
  /\ checked' = [checked EXCEPT ![i] = Marked(@, emu[i], cur[i].type)]
  /\ borrowed' = [borrowed EXCEPT ![i] = @ \/ Lends(cur[i].type)]
  /\ IF cur[i].type = "Command"
     THEN \E ok \in BOOLEAN :
            result' = [result EXCEPT ![i] = [cmd |-> cur[i].cmd, ok |-> ok]]
     ELSE UNCHANGED result
  /\ sem' = [sem EXCEPT ![i] = Released(i)]
  /\ cur' = [cur EXCEPT ![i] = None]
  /\ UNCHANGED <<pc, queue, prog, calls, dialog, manual, inactive, stray>>

\* The queue is empty: give the mutex back; GL that was lent out has to come
\* back before the loop goes on.
MessagesDone(i) ==
  /\ pc[i] \in {"lock", "handle"} /\ cur[i] = None /\ queue[i] = <<>>
  /\ pc' = [pc EXCEPT ![i] = IF borrowed[i] THEN "gl" ELSE LoopTest(i)]
  /\ borrowed' = [borrowed EXCEPT ![i] = FALSE]
  /\ UNCHANGED <<emu, queue, cur, sem, result, prog, calls, window, stray>>

AwaitGL(i) ==
  /\ pc[i] = "gl"
  /\ pc' = [pc EXCEPT ![i] = "glwait"]
  /\ UNCHANGED <<emu, queue, cur, borrowed, sem, result, prog, calls, window, stray>>

EmulationThread(i) ==
  \/ Run(i) \/ Turn(i) \/ FrameOver(i) \/ TakeMessage(i) \/ HandleMessage(i)
  \/ MessagesDone(i) \/ AwaitGL(i)

-----------------------------------------------------------------------------
(* What the user does in the UI thread. *)

UICall(p) ==
  /\ calls < MaxCalls /\ ~Working(UI)
  /\ prog' = [prog EXCEPT ![UI] = p] /\ calls' = calls + 1
  /\ UNCHANGED <<emu, loop>>

\* Most calls take the credit of each of their messages.
Counted(p) == UICall(p) /\ UNCHANGED stray

\* waitAllMessages stops when the queue is empty, however many it took.
Uncounted(i, p) == UICall(p) /\ stray' = stray \cup {i}

NoCall == ~Working(UI) /\ UNCHANGED <<emu, loop, prog, calls, stray>>

\* A modal dialog pauses the emulation while it is open.
OpenDialog(i) ==
  /\ dialog = None /\ Alive(i)
  /\ Counted(emuPause(i))
  /\ dialog' = i /\ UNCHANGED <<manual, inactive, checked>>

CloseDialog ==
  /\ dialog # None
  /\ Counted(emuUnpause(dialog))
  /\ dialog' = None /\ UNCHANGED <<manual, inactive, checked>>

\* onPause: the click changes the mark, and the mark says what to do.
MenuPause(i) ==
  /\ dialog = None /\ Alive(i) /\ emu[i].active
  /\ Counted(IF checked[i] THEN emuUnpause(i) ELSE emuPause(i))
  /\ checked' = [checked EXCEPT ![i] = ~@]
  /\ manual' = [manual EXCEPT ![i] = ~checked[i]]
  /\ UNCHANGED <<dialog, inactive>>

MenuCommand(i) ==
  /\ dialog = None /\ Alive(i)
  /\ \/ Counted(bootROM(i, calls + 1)) \/ Counted(resultCommand(i, calls + 1))
     \/ Counted(importSavefile(i, calls + 1)) \/ Counted(Call(i, "Plain"))
     \/ emu[i].active /\ Counted(emuReset(i))
     \/ emu[i].active /\ Counted(Call(i, "EmuStop"))
     \/ "FrameStep" \in Ops /\ emu[i].active /\ Uncounted(i, emuFrameStep(i))
     \/ "GL" \in Ops /\ Counted(borrowGL(i))
     \/ "Exit" \in Ops /\ Uncounted(i, emuExit(i))
  /\ UNCHANGED window

\* onAppStateChanged with "pause on lost focus" set: only a running emulator is
\* paused, and one that the user has paused in the menu is not resumed.
LoseFocus(i) ==
  /\ "Focus" \in Ops /\ Alive(i) /\ i \notin inactive
  /\ IF emu[i].status = "Running" THEN Counted(emuPause(i)) ELSE NoCall
  /\ inactive' = inactive \cup {i} /\ UNCHANGED <<dialog, manual, checked>>

GetFocus(i) ==
  /\ "Focus" \in Ops /\ Alive(i) /\ i \in inactive
  /\ IF manual[i] THEN NoCall ELSE Counted(emuUnpause(i))
  /\ inactive' = inactive \ {i} /\ UNCHANGED <<dialog, manual, checked>>

UserAction ==
  \/ CloseDialog
  \/ \E i \in Instances : \/ OpenDialog(i) \/ MenuPause(i) \/ MenuCommand(i)
                          \/ LoseFocus(i) \/ GetFocus(i)

Next ==
  \/ UserAction \/ Run(UI)
  \/ \E i \in Instances : EmulationThread(i) \/ Hotkeys(i) \/ PowerOff(i)

\* Both kinds of threads are scheduled, and a mutex or a credit that stays
\* free is taken in the end; nothing makes the user do anything.
Fairness ==
  WF_vars(Run(UI)) /\ \A i \in Instances : WF_vars(EmulationThread(i))

Spec == Init /\ [][Next]_vars /\ Fairness

-----------------------------------------------------------------------------
(* Properties. *)

Steps == {"send", "wait", "waitAll", "acquire", "read", "broadcast", "context",
          "returnGL", "join"}

TypeOK ==
  /\ emu \in [Instances -> [status : Statuses, prev : Statuses, stack : Nat,
                            active : BOOLEAN]]
  /\ pc \in [Instances -> {"top", "keys", "frame", "lock", "handle", "gl", "glwait",
                          "ended"}]
  /\ \A i \in Instances :
       /\ \A k \in DOMAIN queue[i] : queue[i][k] \in Message
       /\ cur[i] \in Message \cup {None}
  /\ borrowed \in [Instances -> BOOLEAN]
  /\ sem \in [Instances -> Nat]
  /\ result \in [Instances -> [cmd : 0 .. MaxCalls, ok : BOOLEAN]]
  /\ \A t \in Threads : \A k \in DOMAIN prog[t] : prog[t][k].do \in Steps
  /\ calls \in 0 .. MaxCalls /\ dialog \in Instances \cup {None}
  /\ manual \in [Instances -> BOOLEAN] /\ inactive \subseteq Instances
  /\ checked \in [Instances -> BOOLEAN] /\ stray \subseteq Instances

\* A call that looks at msgResult sees the result of its own message, because
\* the credit it took was released for that message (EmuThread.cpp:464-468,
\* 665, and the reads at 779, 788, 814, 835, 842, 857), unless the instance has
\* got messages of a hotkey, of a game that switched the console off, of a
\* frame step or of another instance's broadcast: their credits stay behind,
\* or go to whoever asks first.
ResultIsOwn ==
  Working(UI) /\ Now(UI).do = "read" /\ Now(UI).to \notin stray
    => result[Now(UI).to].cmd = Now(UI).cmd

\* While a dialog is open no instance emulates a frame: emuPause has returned
\* from all of them, whatever pauses were there before.
PauseHolds ==
  dialog # None /\ ~Working(UI) => \A i \in Instances : pc[i] # "frame"

\* "make sure no GL context is in use by the emu thread" (Window.cpp:875):
\* while the UI thread creates its context the emulation thread is on its way
\* to waiting for returnGL.
GLExclusive ==
  Working(UI) /\ Now(UI).do = "context"
    => pc[Now(UI).to] \in {"handle", "gl", "glwait"}

\* An active emulator that is paused has a pause to take back, so the next
\* emuUnpause can resume it (EmuThread.cpp:504-533).
PausedIsOnStack ==
  \A i \in Instances :
    emu[i].active /\ emu[i].status = "Paused" => emu[i].stack >= PauseThreshold

\* The emulation thread waits for a wakeup that was already given.
WakeLost ==
  \E i \in Instances :
    /\ pc[i] = "glwait"
    /\ \/ queue[i] # <<>>
       \/ \A k \in DOMAIN prog[UI] : prog[UI][k].do # "returnGL"

\* Every call of the UI thread returns, unless the wakeup of returnGL was lost.
CallsReturn == Working(UI) ~> (~Working(UI) \/ WakeLost)
=============================================================================
