---------------------------- MODULE SoftRenderer ----------------------------
(***************************************************************************)
(* The software 3D renderer's worker thread (src/src/GPU3D_Soft.cpp) and   *)
(* the LCD loop of the emulation thread that feeds it (src/src/GPU.cpp,    *)
(* src/src/GPU3D.cpp).                                                     *)
(*                                                                         *)
(* Two threads meet at three counting semaphores and two atomic flags.     *)
(* The emulation thread asks for a frame at line 215 (RenderFrame), takes  *)
(* one credit of Sema_ScanlineCount for every line it shows (GetLine) and  *)
(* waits for the end of the frame at line 192 (VCount144).  Everything     *)
(* that restarts the renderer goes through SetupRenderThread.              *)
(*                                                                         *)
(* Pictures are abstracted to versions: `version' stands for the render    *)
(* state (polygons, registers, flat texture memory) and buffer[l] for the  *)
(* version line l of ColorBuffer was drawn from.  Version 0 is the state   *)
(* after a reset, whose picture is the zeroed buffer.                      *)
(***************************************************************************)
EXTENDS Integers

CONSTANTS
  Lines,        \* visible scanlines (192)
  RenderLine,   \* the line whose HBlank starts the 3D frame (215)
  LastLine,     \* the last line of a frame (262)
  MaxLine,      \* bound: no VCount write once a frame has lasted this long
  MaxVersion,   \* bound: render states are numbered 0 .. MaxVersion
  MaxCalls,     \* bound: outside calls in a behaviour
  Ops           \* which calls outside the plain frame loop may happen

AllOps == {"SetVCount", "SetEnabled", "Reset", "DoSavestate", "SetThreaded",
           "SetRenderer3D", "Wakeup"}

ASSUME LinesAssumption == Lines \in Nat \ {0}
ASSUME FrameAssumption ==
  /\ RenderLine \in Nat /\ LastLine \in Nat /\ MaxLine \in Nat
  /\ Lines < RenderLine /\ RenderLine < LastLine
ASSUME VersionAssumption == MaxVersion \in Nat /\ MaxVersion >= 2
ASSUME OpsAssumption == Ops \subseteq AllOps /\ MaxCalls \in Nat

VARIABLES
  main,         \* where the emulation thread is
  calls,        \* outside calls made so far
  op,           \* the call SetupRenderThread is working for
  back,         \* where that call returns to
  avail,        \* QSemaphore::available() read by Semaphore_Reset
  line, vcount, nextVCount, abort,
  threaded,     \* SoftRenderer::Threaded
  running,      \* RenderThreadRunning
  rendering,    \* RenderThreadRendering
  thread,       \* where the render thread is
  drawn,        \* lines of the current frame it has finished
  start, done, scan,  \* Sema_RenderStart, Sema_RenderDone, Sema_ScanlineCount
  version, buffer,
  renderIdentical,    \* GPU3D::RenderFrameIdentical
  frameIdentical      \* SoftRenderer::FrameIdentical

lcd == <<line, vcount, nextVCount, abort>>
call == <<op, back, avail>>
worker == <<thread, drawn, rendering>>
picture == <<version, buffer, renderIdentical, frameIdentical>>
semas == <<start, done, scan>>
vars == <<main, calls, call, lcd, threaded, running, worker, semas, picture>>

Visible == 0 .. Lines - 1
Versions == 0 .. MaxVersion
NoVCount == -1
NotDrawn == -1      \* a line between ClearBuffers and its final pass
NextVersion == (version % MaxVersion) + 1

MainPcs == {"between", "start", "vcount144", "hblank", "finish", "setup",
            "count", "reset", "busy", "waitDone", "clear", "clearScan", "return",
            "join"}
ThreadPcs == {"none", "wait", "check", "begin", "draw", "post", "unmark",
              "exited"}

(***************************************************************************)
(* Starting up: a new renderer has just been reset, and updateRenderer is  *)
(* about to tell it whether to use a thread.  FrameIdentical has no        *)
(* initial value.                                                          *)
(***************************************************************************)
Init ==
  /\ threaded \in BOOLEAN
  /\ main = IF threaded THEN "setup" ELSE "between"
  /\ calls = 0 /\ op = "SetThreaded" /\ back = "between" /\ avail = 0
  /\ line = 0 /\ vcount = 0 /\ nextVCount = NoVCount /\ abort = FALSE
  /\ running = FALSE /\ rendering = FALSE /\ thread = "none" /\ drawn = 0
  /\ start = 0 /\ done = 0 /\ scan = 0
  /\ version = 0 /\ buffer = [l \in Visible |-> 0]
  /\ renderIdentical = FALSE /\ frameIdentical \in BOOLEAN

-----------------------------------------------------------------------------
(* The LCD loop of the emulation thread. *)

StartFrame ==
  /\ main = "between"
  /\ main' = "start" /\ line' = 0
  /\ UNCHANGED <<call, vcount, nextVCount, abort, threaded, running, worker,
                 semas, picture>>

\* StartScanline up to the call of VCount144: VCount follows the line number
\* unless the game wrote it.
StartScanline ==
  /\ main = "start"
  /\ vcount' = IF line = 0 THEN 0
               ELSE IF nextVCount # NoVCount THEN nextVCount ELSE vcount + 1
  /\ nextVCount' = NoVCount
  /\ main' = IF vcount' = Lines THEN "vcount144" ELSE "hblank"
  /\ UNCHANGED <<call, line, abort, threaded, running, worker, semas, picture>>

VCount144Waits == running /\ ~abort

\* GPU3D::VBlank latches the render state: registers and, after a buffer
\* swap, polygons.  A swap counts as a new frame whatever it contains, and a
\* powered-down engine latches nothing.
LatchRenderState ==
  \/ UNCHANGED <<version, renderIdentical>>
  \/ version' \in {version, NextVersion} /\ renderIdentical' = FALSE
  \/ UNCHANGED version /\ renderIdentical' = TRUE

VCount144 ==
  /\ main = "vcount144"
  /\ VCount144Waits => done > 0
  /\ done' = IF VCount144Waits THEN done - 1 ELSE done
  /\ LatchRenderState
  /\ main' = "hblank"
  /\ UNCHANGED <<call, lcd, threaded, running, worker, start, scan, buffer,
                 frameIdentical>>

\* Mutant of NextLine: the line counter wraps before the last line.
NextLineWraps == (line + 1) % LastLine

NextLine == line + 1
AfterHBlank == IF vcount < LastLine THEN "start" ELSE "finish"

ShowsLine == main = "hblank" /\ vcount < Lines /\ line < Lines

\* Mutant of LineAvailable: the line is taken without asking the thread.
LineAvailableNow == TRUE

LineAvailable == running => scan > 0

\* StartHBlank on a visible line: GPU2D fetches the 3D line, one credit of
\* Sema_ScanlineCount each; an aborted frame fetches nothing.
GetLine ==
  /\ ShowsLine
  /\ ~abort => LineAvailable
  /\ scan' = IF running /\ ~abort THEN scan - 1 ELSE scan
  /\ main' = AfterHBlank /\ line' = NextLine
  /\ UNCHANGED <<call, vcount, nextVCount, abort, threaded, running, worker,
                 start, done, picture>>

\* Mutant of SamePicture: texture changes are not taken into account.
SamePictureNoTexture(changed) == renderIdentical

SamePicture(changed) == ~changed /\ renderIdentical

\* Mutant of RequestFrame: the request is posted a second time.
RequestFrameTwice == start + 2

RequestFrame == start + 1

\* RenderFrame: bring the texture copies up to date, decide whether the
\* picture can have changed, and wake the thread or draw at once.
RenderFrame ==
  \E changed \in BOOLEAN :
    /\ version' = IF changed THEN NextVersion ELSE version
    /\ frameIdentical' = SamePicture(changed)
    /\ start' = IF running THEN RequestFrame ELSE start
    /\ buffer' = IF running \/ frameIdentical' THEN buffer
                 ELSE [l \in Visible |-> version']

VCount215 ==
  /\ main = "hblank" /\ vcount = RenderLine
  /\ RenderFrame
  /\ main' = AfterHBlank /\ line' = NextLine
  /\ UNCHANGED <<call, vcount, nextVCount, abort, threaded, running, worker,
                 done, scan, renderIdentical>>

PlainHBlank ==
  /\ main = "hblank" /\ ~ShowsLine /\ vcount # RenderLine
  /\ main' = AfterHBlank /\ line' = NextLine
  /\ UNCHANGED <<call, vcount, nextVCount, abort, threaded, running, worker,
                 semas, picture>>

-----------------------------------------------------------------------------
(* SetupRenderThread, step by step: each semaphore call, and each read of a *)
(* flag the render thread writes, is a point where the threads interleave. *)

\* What the emulation thread does next once SetupRenderThread was called.
CallSetup(name, from) ==
  /\ op' = name /\ back' = from /\ main' = "setup" /\ UNCHANGED avail

\* FinishFrame: an aborted frame restarts the renderer.
FinishFrame ==
  /\ main = "finish"
  /\ IF abort THEN CallSetup("RestartFrame", "between")
              ELSE main' = "between" /\ UNCHANGED call
  /\ abort' = FALSE
  /\ UNCHANGED <<line, vcount, nextVCount, threaded, running, worker, semas,
                 picture>>

\* The thread is created if need be.
SetupStart ==
  /\ main = "setup" /\ threaded
  /\ running' = TRUE
  /\ thread' = IF running THEN thread ELSE "wait"
  /\ main' = "count"
  /\ UNCHANGED <<call, lcd, threaded, rendering, drawn, semas, picture>>

\* Semaphore_Reset(Sema_RenderStart) reads the count first and takes that many
\* afterwards.
SetupCount ==
  /\ main = "count"
  /\ avail' = start /\ main' = "reset"
  /\ UNCHANGED <<op, back, lcd, threaded, running, worker, semas, picture>>

SetupReset ==
  /\ main = "reset" /\ start >= avail
  /\ start' = start - avail /\ main' = "busy"
  /\ UNCHANGED <<call, lcd, threaded, running, worker, done, scan, picture>>

SetupBusy ==
  /\ main = "busy"
  /\ main' = IF rendering THEN "waitDone" ELSE "clear"
  /\ UNCHANGED <<call, lcd, threaded, running, worker, semas, picture>>

SetupWaitDone ==
  /\ main = "waitDone" /\ done > 0
  /\ done' = done - 1 /\ main' = "clear"
  /\ UNCHANGED <<call, lcd, threaded, running, worker, start, scan, picture>>

\* Semaphore_Reset(Sema_RenderDone): what the thread posts after the count was
\* read stays.  Sema_RenderStart is reset once more here: only the emulation
\* thread posts to it, so it is still empty.
SetupClear ==
  /\ main = "clear"
  /\ done' = 0 /\ main' = "clearScan"
  /\ UNCHANGED <<call, lcd, threaded, running, worker, start, scan, picture>>

ScanAfterSetup == 0

SetupClearScan ==
  /\ main = "clearScan"
  /\ scan' = ScanAfterSetup /\ main' = "return"
  /\ UNCHANGED <<call, lcd, threaded, running, worker, start, done, picture>>

\* Mutant of StopFlag: the thread is woken but not told to stop.
StopFlagKept == running

StopFlag == FALSE

\* StopRenderThread up to Thread_Wait; without a thread there is nothing to do.
StopRenderThread ==
  /\ main = "setup" /\ ~threaded
  /\ running' = StopFlag
  /\ start' = IF running THEN start + 1 ELSE start
  /\ main' = IF running THEN "join" ELSE "return"
  /\ UNCHANGED <<call, lcd, threaded, worker, done, scan, picture>>

\* Mutant of ThreadOver: StopRenderThread does not wait for the thread.
ThreadOverAtOnce == TRUE

ThreadOver == thread = "exited"

Join ==
  /\ main = "join" /\ ThreadOver
  /\ main' = "return"
  /\ UNCHANGED <<call, lcd, threaded, running, worker, semas, picture>>

\* What saving or loading a state does to the renderer's inputs: both end with
\* RenderFrameIdentical cleared, and a state loaded brings its AbortFrame.
SavestateRead ==
  /\ \/ UNCHANGED <<version, abort>>
     \/ version' \in {version, NextVersion} /\ abort' \in BOOLEAN
  /\ renderIdentical' = FALSE
  /\ UNCHANGED <<buffer, frameIdentical>>

\* The caller goes on: EnableRenderThread, with what DoSavestate reads or
\* SetRenderer3D's new renderer (fresh semaphores, zeroed buffer, an
\* uninitialised FrameIdentical, then SetThreaded with the user's setting)
\* before it.
Return ==
  /\ main = "return" /\ op # "SetRenderer3D"
  /\ start' = IF threaded THEN start + 1 ELSE start
  /\ main' = back
  /\ \/ op # "DoSavestate" /\ UNCHANGED <<picture, abort>>
     \/ op = "DoSavestate" /\ SavestateRead
  /\ UNCHANGED <<call, line, vcount, nextVCount, threaded, running, worker, done,
                 scan>>

NewRenderer ==
  /\ main = "return" /\ op = "SetRenderer3D"
  /\ start' = 0 /\ done' = 0 /\ scan' = 0
  /\ rendering' = FALSE /\ UNCHANGED <<thread, drawn>>
  /\ buffer' = [l \in Visible |-> 0] /\ frameIdentical' \in BOOLEAN
  /\ threaded' \in BOOLEAN
  /\ IF threaded' THEN CallSetup("SetThreaded", "between")
                  ELSE main' = "between" /\ UNCHANGED call
  /\ UNCHANGED <<lcd, running, version, renderIdentical>>

-----------------------------------------------------------------------------
(* Calls from outside the frame loop. *)

Call(name) == name \in Ops /\ calls < MaxCalls /\ calls' = calls + 1

\* The game writes VCount while the CPU runs between two LCD events.
SetVCount ==
  /\ Call("SetVCount") /\ main \in {"start", "hblank"} /\ line < MaxLine
  /\ \E val \in 0 .. LastLine :
       /\ abort' = (abort \/ nextVCount # val)
       /\ nextVCount' = val
  /\ UNCHANGED <<main, call, line, vcount, threaded, running, worker, semas,
                 picture>>

\* The game powers the 3D renderer down (POWCNT1) in the middle of a frame:
\* ResetRenderingState, under a thread that may be drawing from that state.
SetEnabled ==
  /\ Call("SetEnabled") /\ main \in {"start", "hblank"}
  /\ version' = 0
  /\ UNCHANGED <<main, call, lcd, threaded, running, worker, semas, buffer,
                 renderIdentical, frameIdentical>>

\* The console is reset between two frames (GPU3D::Reset, SoftRenderer::Reset):
\* the buffer is cleared before SetupRenderThread waits for the thread.
Reset ==
  /\ Call("Reset") /\ main = "between"
  /\ version' = 0 /\ buffer' = [l \in Visible |-> 0]
  /\ abort' = FALSE /\ vcount' = 0 /\ nextVCount' = NoVCount
  /\ CallSetup("Reset", "between")
  /\ UNCHANGED <<line, threaded, running, worker, semas, renderIdentical,
                 frameIdentical>>

\* A savestate is saved or loaded between two frames.
DoSavestate ==
  /\ Call("DoSavestate") /\ main = "between"
  /\ op' = "DoSavestate" /\ back' = "between" /\ UNCHANGED avail
  /\ main' = IF threaded THEN "setup" ELSE "return"
  /\ UNCHANGED <<lcd, threaded, running, worker, semas, picture>>

\* The user switches the threaded setting.
SetThreaded ==
  /\ Call("SetThreaded") /\ main = "between"
  /\ threaded' = ~threaded
  /\ CallSetup("SetThreaded", "between")
  /\ UNCHANGED <<lcd, running, worker, semas, picture>>

\* The user picks the software renderer again: the old one is destroyed,
\* which stops its thread.
SetRenderer3D ==
  /\ Call("SetRenderer3D") /\ main = "between"
  /\ op' = "SetRenderer3D" /\ back' = "between" /\ UNCHANGED avail
  /\ running' = StopFlag
  /\ start' = IF running THEN start + 1 ELSE start
  /\ main' = IF running THEN "join" ELSE "return"
  /\ UNCHANGED <<lcd, threaded, worker, done, scan, picture>>

\* An IRQ wakes a system that sleeps, or one that was just sent to sleep in the
\* middle of a frame, and restarts the frame.
Wakeup ==
  /\ Call("Wakeup") /\ main \in {"between", "start", "hblank"}
  /\ CallSetup("RestartFrame", main)
  /\ UNCHANGED <<lcd, threaded, running, worker, semas, picture>>

-----------------------------------------------------------------------------
(* RenderThreadFunc. *)

\* Between taking the token and raising RenderThreadRendering the thread
\* looks idle.
TakeStart ==
  /\ thread = "wait" /\ start > 0
  /\ start' = start - 1 /\ thread' = "check"
  /\ UNCHANGED <<main, call, lcd, threaded, running, rendering, drawn, done,
                 scan, picture>>

CheckRunning ==
  /\ thread = "check"
  /\ rendering' = (running \/ rendering)
  /\ thread' = IF running THEN "begin" ELSE "exited"
  /\ UNCHANGED <<main, call, lcd, threaded, running, drawn, semas, picture>>

IdenticalCredits == Lines

\* An identical frame hands out all its lines at once; otherwise ClearBuffers.
BeginFrame ==
  /\ thread = "begin"
  /\ IF frameIdentical
     THEN /\ scan' = scan + IdenticalCredits
          /\ thread' = "post" /\ drawn' = Lines /\ UNCHANGED buffer
     ELSE /\ buffer' = [l \in Visible |-> NotDrawn]
          /\ thread' = "draw" /\ drawn' = 0 /\ UNCHANGED scan
  /\ UNCHANGED <<main, call, lcd, threaded, running, rendering, start, done,
                 version, renderIdentical, frameIdentical>>

\* RenderPolygons: rasterise a line, finish it, and only then post its credit.
DrawLine ==
  /\ thread = "draw"
  /\ buffer' = [buffer EXCEPT ![drawn] = version]
  /\ drawn' = drawn + 1 /\ scan' = scan + 1
  /\ thread' = IF drawn + 1 = Lines THEN "post" ELSE "draw"
  /\ UNCHANGED <<main, call, lcd, threaded, running, rendering, start, done,
                 version, renderIdentical, frameIdentical>>

PostDone ==
  /\ thread = "post"
  /\ done' = done + 1 /\ thread' = "unmark"
  /\ UNCHANGED <<main, call, lcd, threaded, running, rendering, drawn, start,
                 scan, picture>>

Unmark ==
  /\ thread = "unmark"
  /\ rendering' = FALSE /\ thread' = "wait"
  /\ UNCHANGED <<main, call, lcd, threaded, running, drawn, semas, picture>>

RenderThreadFunc ==
  /\ UNCHANGED calls
  /\ \/ TakeStart \/ CheckRunning \/ BeginFrame \/ DrawLine \/ PostDone
     \/ Unmark

LCDLoop ==
  /\ UNCHANGED calls
  /\ \/ StartFrame \/ StartScanline \/ VCount144 \/ GetLine \/ VCount215
     \/ PlainHBlank \/ FinishFrame

Setup ==
  /\ UNCHANGED calls
  /\ \/ SetupStart \/ SetupCount \/ SetupReset \/ SetupBusy \/ SetupWaitDone
     \/ SetupClear \/ SetupClearScan \/ StopRenderThread \/ Join \/ Return \/ NewRenderer

Calls ==
  \/ SetVCount \/ SetEnabled \/ Reset \/ DoSavestate \/ SetThreaded
  \/ SetRenderer3D \/ Wakeup

Next == LCDLoop \/ Setup \/ Calls \/ RenderThreadFunc

\* The operating system runs both threads; nothing makes the user or the game
\* issue the outside calls.
Fairness == WF_vars(LCDLoop \/ Setup) /\ WF_vars(RenderThreadFunc)

Spec == Init /\ [][Next]_vars /\ Fairness

-----------------------------------------------------------------------------
(* Properties. *)

TypeOK ==
  /\ main \in MainPcs /\ thread \in ThreadPcs /\ calls \in 0 .. MaxCalls
  /\ op \in {"Reset", "RestartFrame", "DoSavestate", "SetThreaded",
            "SetRenderer3D"}
  /\ back \in {"between", "start", "hblank"} /\ avail \in Nat
  /\ line \in Nat /\ vcount \in Nat
  /\ nextVCount \in Nat \cup {NoVCount} /\ abort \in BOOLEAN
  /\ threaded \in BOOLEAN /\ running \in BOOLEAN /\ rendering \in BOOLEAN
  /\ drawn \in 0 .. Lines
  /\ start \in Nat /\ done \in Nat /\ scan \in Nat
  /\ version \in Versions
  /\ buffer \in [Visible -> Versions \cup {NotDrawn}]
  /\ renderIdentical \in BOOLEAN /\ frameIdentical \in BOOLEAN

\* The properties of the frame loop are about behaviours before the first call
\* from outside it.

\* A line the emulation thread can fetch was drawn from the render state of
\* this frame: counting credits is enough to tell which lines are finished
\* (GPU3D_Soft.cpp:1808-1812), and a frame skipped as identical is identical.
LinesAreCurrent ==
  calls = 0 /\ ShowsLine /\ ~abort /\ LineAvailable => buffer[line] = version

\* A frame passed over as identical needs no drawing: ColorBuffer already
\* holds its picture ("If no rendering is needed, just say we're done",
\* GPU3D_Soft.cpp:1787).
IdenticalIsDrawn ==
  calls = 0 /\ thread = "begin" /\ frameIdentical => \A l \in Visible : buffer[l] = version

\* While the render thread works on a frame the emulation thread changes
\* neither the render state nor FrameIdentical under it
\* (GPU3D_Soft.cpp:1779-1785 and 1796-1798).
RenderStateProtected ==
  [][(calls' = 0 /\ thread \in {"begin", "draw"})
     => version' = version /\ frameIdentical' = frameIdentical]_vars

\* Except while StopRenderThread waits for it, there is a render thread
\* exactly when RenderThreadRunning says so: none is leaked, and GetLine and
\* VCount144 never wait for one that is gone.
ThreadMatchesFlag ==
  main # "join" => (running <=> thread \notin {"none", "exited"})

\* StopRenderThread gets its thread back, whatever the thread was doing.
StopReturns == main = "join" ~> main # "join"

\* The emulation thread gets through frame after frame.
FramesComplete == [](calls = 0) => []<>(main = "between")

-----------------------------------------------------------------------------
(* The inductive invariant of the plain frame loop.                        *)

InSetup == main \in {"setup", "count", "reset", "busy", "clear", "clearScan", "return"}

\* The last frame has been handed over and the next not yet been asked for.
NoRequest ==
  \/ main = "hblank" /\ Lines <= line /\ line <= RenderLine
  \/ main = "start" /\ Lines < line /\ line <= RenderLine

\* Lines of the requested frame the emulation thread has fetched.
Fetched ==
  IF main \in {"start", "hblank", "vcount144"} /\ line <= Lines THEN line ELSE 0

AllCurrent == \A l \in Visible : buffer[l] = version

LCDPosition ==
  /\ main \in {"between", "start", "vcount144", "hblank", "finish"} \/ InSetup
  /\ abort = FALSE /\ nextVCount = NoVCount
  /\ op = "SetThreaded" /\ back = "between"
  /\ line <= LastLine + 1
  /\ main = "hblank" => vcount = line /\ line <= LastLine
  /\ main = "start" => line <= LastLine /\ (line = 0 \/ vcount + 1 = line)
  /\ main = "vcount144" => vcount = line /\ line = Lines

\* The thread runs exactly when it should, and its flag covers its work.
ThreadState ==
  /\ thread # "exited" /\ (thread = "none" <=> ~running)
  /\ running => threaded
  /\ InSetup => threaded
  /\ InSetup /\ main # "setup" => running
  /\ ~InSetup => (running <=> threaded)

FreshSetup ==
  InSetup => /\ start = 0 /\ done = 0 /\ scan = 0 /\ avail = 0
             /\ thread \in {"none", "wait"} /\ rendering = FALSE

\* Where the requested frame is: asked for, being drawn or finished; and how
\* many scanline credits are left to take.
Asked == /\ \/ start = 1 /\ thread \in {"wait", "unmark"}
            \/ start = 0 /\ thread \in {"check", "begin"}
         /\ scan = 0 /\ done = 0 /\ Fetched = 0
Drawing == /\ start = 0 /\ thread = "draw" /\ done = 0
           /\ drawn < Lines /\ scan + Fetched = drawn
Finished == /\ start = 0 /\ scan + Fetched = Lines
            /\ \/ thread = "post" /\ done = 0
               \/ thread \in {"wait", "unmark"} /\ done = 1

\* In the frame loop the three semaphores together say exactly how far the
\* render thread is: the credits of Sema_ScanlineCount and the lines already
\* fetched add up to the lines drawn, and each request and each end of frame
\* is posted once and taken once.
FrameCredits ==
  running /\ ~InSetup =>
    IF NoRequest
    THEN start = 0 /\ done = 0 /\ scan = 0 /\ thread \in {"wait", "unmark"}
    ELSE Asked \/ Drawing \/ Finished

PictureState ==
  /\ InSetup => AllCurrent
  /\ NoRequest => (renderIdentical => AllCurrent)
  /\ ~running /\ ~NoRequest => AllCurrent
  /\ running /\ ~InSetup /\ ~NoRequest =>
       /\ Asked => (frameIdentical => AllCurrent)
       /\ Drawing => \A l \in Visible : l < drawn => buffer[l] = version
       /\ Finished => AllCurrent

IInv == /\ TypeOK /\ LCDPosition /\ ThreadState /\ FreshSetup
        /\ FrameCredits /\ PictureState
=============================================================================
