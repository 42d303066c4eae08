------------------------- MODULE SoftRendererProofs -------------------------
(***************************************************************************)
(* The render-thread protocol of the plain frame loop, for every number of *)
(* scanlines: the credits add up, every line shown is a line of this       *)
(* frame, and the render state is left alone while the thread draws.       *)
(***************************************************************************)
EXTENDS SoftRenderer, TLAPS

USE DEF lcd, call, worker, picture, semas, Visible, Versions, NoVCount,
        NotDrawn, MainPcs, ThreadPcs

(* A thread that StopRenderThread waits for has been told to stop; any other *)
(* finds RenderThreadRunning set for as long as it lives.                    *)
FlagInv ==
  /\ running \in BOOLEAN /\ back \in {"between", "start", "hblank"}
  /\ main = "join" => ~running
  /\ ThreadMatchesFlag

LEMMA FlagLCDLoop == FlagInv /\ LCDLoop => FlagInv'
<1> SUFFICES ASSUME FlagInv, LCDLoop PROVE FlagInv'
  OBVIOUS
<1>1. main' # "join" /\ main # "join"
  BY DEF LCDLoop, StartFrame, StartScanline, VCount144, GetLine, ShowsLine, VCount215,
     PlainHBlank, FinishFrame, CallSetup, AfterHBlank
<1>2. UNCHANGED <<running, thread>> /\ back' \in {back, "between"}
  BY DEF LCDLoop, StartFrame, StartScanline, VCount144, GetLine, VCount215,
     PlainHBlank, FinishFrame, CallSetup
<1> QED
  BY <1>1, <1>2 DEF FlagInv, ThreadMatchesFlag

LEMMA FlagSetup == FlagInv /\ Setup => FlagInv'
<1> SUFFICES ASSUME FlagInv, Setup PROVE FlagInv'
  OBVIOUS
<1> USE DEF FlagInv, ThreadMatchesFlag
<1>1. CASE SetupStart
  BY <1>1 DEF SetupStart
<1>2. CASE StopRenderThread
  BY <1>2 DEF StopRenderThread, StopFlag
<1>3. CASE Join
  BY <1>3 DEF Join, ThreadOver
<1>4. CASE Return
  BY <1>4 DEF Return
<1>5. CASE NewRenderer
  BY <1>5 DEF NewRenderer, CallSetup
<1>6. CASE \/ SetupCount \/ SetupReset \/ SetupBusy \/ SetupWaitDone \/ SetupClear
          \/ SetupClearScan
  BY <1>6 DEF SetupCount, SetupReset, SetupBusy, SetupWaitDone, SetupClear, SetupClearScan
<1> QED
  BY <1>1, <1>2, <1>3, <1>4, <1>5, <1>6 DEF Setup

LEMMA FlagCalls == FlagInv /\ Calls => FlagInv'
<1> SUFFICES ASSUME FlagInv, Calls PROVE FlagInv'
  OBVIOUS
<1> USE DEF FlagInv, ThreadMatchesFlag, CallSetup
<1>1. CASE SetVCount
  BY <1>1 DEF SetVCount
<1>2. CASE SetEnabled \/ Reset
  BY <1>2 DEF SetEnabled, Reset
<1>3. CASE DoSavestate
  BY <1>3 DEF DoSavestate
<1>4. CASE SetThreaded \/ Wakeup
  BY <1>4 DEF SetThreaded, Wakeup
<1>5. CASE SetRenderer3D
  BY <1>5 DEF SetRenderer3D, StopFlag
<1> QED
  BY <1>1, <1>2, <1>3, <1>4, <1>5 DEF Calls

LEMMA FlagThread == FlagInv /\ RenderThreadFunc => FlagInv'
BY DEF FlagInv, ThreadMatchesFlag, RenderThreadFunc, TakeStart, CheckRunning, BeginFrame,
   DrawLine, PostDone, Unmark

(* Whatever is called from outside, in whatever state of the two threads:    *)
(* RenderThreadRunning is true exactly while there is a render thread, but   *)
(* for the time StopRenderThread waits for one (GPU3D_Soft.cpp:33-88).       *)
THEOREM ThreadFlagIsTrue == Spec => []ThreadMatchesFlag
<1>1. Init => FlagInv
  BY DEF Init, FlagInv, ThreadMatchesFlag
<1>2. FlagInv /\ [Next]_vars => FlagInv'
  <2>1. FlagInv /\ UNCHANGED vars => FlagInv'
    BY DEF FlagInv, ThreadMatchesFlag, vars
  <2> QED
    BY <2>1, FlagLCDLoop, FlagSetup, FlagCalls, FlagThread DEF Next
<1>3. FlagInv => ThreadMatchesFlag
  BY DEF FlagInv
<1> QED
  BY <1>1, <1>2, <1>3, PTL DEF Spec

(* The next render state's number is a version. *)
LEMMA NextVersionType == TypeOK => NextVersion \in Versions
BY VersionAssumption DEF TypeOK, NextVersion

USE LinesAssumption, FrameAssumption, VersionAssumption, OpsAssumption
USE DEF NextLine, IInv, TypeOK, LCDPosition, ThreadState, FreshSetup, FrameCredits,
        PictureState, InSetup, NoRequest, AllCurrent, Fetched, Asked, Drawing,
        Finished

(* A renderer that has just been reset satisfies the invariant. *)
LEMMA InitInv == Init => IInv
<1> SUFFICES ASSUME Init PROVE IInv
  OBVIOUS
<1>1. TypeOK
  <2>1. buffer \in [Visible -> Versions \cup {NotDrawn}] /\ version \in Versions
    BY DEF Init
  <2>2. main \in MainPcs /\ thread \in ThreadPcs /\ drawn \in 0 .. Lines
    BY DEF Init
  <2>3. calls \in 0 .. MaxCalls
    BY DEF Init
  <2>4. /\ threaded \in BOOLEAN /\ running \in BOOLEAN /\ rendering \in BOOLEAN
        /\ abort \in BOOLEAN /\ renderIdentical \in BOOLEAN
        /\ frameIdentical \in BOOLEAN
    BY Zenon DEF Init
  <2> QED
    BY <2>1, <2>2, <2>3, <2>4 DEF Init
<1>2. main \in {"setup", "between"} /\ (main = "setup" <=> threaded)
  BY DEF Init
<1>3. LCDPosition /\ ThreadState /\ FreshSetup
  BY <1>2 DEF Init
<1>4. FrameCredits /\ PictureState
  BY <1>2 DEF Init
<1> QED
  BY <1>1, <1>3, <1>4

(* Every step of the LCD loop keeps the invariant: GetLine trades a credit   *)
(* for a fetched line, VCount144 takes the end of the frame, VCount215 asks  *)
(* for the next one.                                                         *)
LEMMA LCDLoopInv == IInv /\ LCDLoop => IInv'
<1> SUFFICES ASSUME IInv, LCDLoop PROVE IInv'
  OBVIOUS
<1>0. calls' = calls
  BY DEF LCDLoop
<1> USE <1>0
<1>1. CASE StartFrame
  BY <1>1 DEF StartFrame
<1>2. CASE StartScanline
  <2>1. vcount' = line /\ nextVCount' = nextVCount
    BY <1>2 DEF StartScanline
  <2>2. main' = IF line = Lines THEN "vcount144" ELSE "hblank"
    BY <1>2, <2>1 DEF StartScanline
  <2>3. /\ Fetched' = Fetched /\ InSetup' = InSetup /\ ~InSetup
        /\ line = Lines \/ NoRequest' = NoRequest
        /\ line = Lines => ~NoRequest /\ ~NoRequest'
    BY <1>2, <2>2 DEF StartScanline
  <2> QED
    BY <1>2, <2>1, <2>2, <2>3 DEF StartScanline
<1>3. CASE VCount144
  <2>1. /\ main = "vcount144" /\ main' = "hblank" /\ line = Lines
        /\ ~NoRequest /\ NoRequest' /\ ~InSetup /\ ~InSetup' /\ Fetched = Lines
    BY <1>3 DEF VCount144
  <2>2. AllCurrent
    BY <1>3, <2>1 DEF VCount144, VCount144Waits
  <2>3. NextVersion \in Versions
    BY NextVersionType
  <2>4. version' \in Versions /\ renderIdentical' \in BOOLEAN
    BY <1>3, <2>3 DEF VCount144, LatchRenderState
  <2>5. renderIdentical' => AllCurrent'
    BY <1>3, <2>2 DEF VCount144, LatchRenderState
  <2>6. FrameCredits'
    BY <1>3, <2>1 DEF VCount144, VCount144Waits
  <2> QED
    BY <1>3, <2>1, <2>4, <2>5, <2>6 DEF VCount144
<1>4. CASE GetLine
  BY <1>4 DEF GetLine, ShowsLine, LineAvailable, AfterHBlank
<1>5. CASE VCount215
  BY <1>5, NextVersionType DEF VCount215, RenderFrame, RequestFrame, SamePicture,
     AfterHBlank
<1>6. CASE PlainHBlank
  <2>1. /\ main = "hblank" /\ line' = line + 1 /\ vcount = line
        /\ line >= Lines /\ line # RenderLine
        /\ main' = IF line < LastLine THEN "start" ELSE "finish"
    BY <1>6 DEF PlainHBlank, ShowsLine, AfterHBlank
  <2>2. Fetched' = 0 /\ (line > Lines => Fetched = 0) /\ ~InSetup /\ ~InSetup'
    BY <2>1
  <2>3. NoRequest' = NoRequest
    BY <2>1
  <2>4. line = Lines => NoRequest
    BY <2>1
  <2>5. TypeOK' /\ LCDPosition' /\ ThreadState' /\ FreshSetup'
    BY <1>6, <2>1, <2>2 DEF PlainHBlank
  <2>6. FrameCredits' /\ PictureState'
    BY <1>6, <2>1, <2>2, <2>3, <2>4 DEF PlainHBlank
  <2> QED
    BY <2>5, <2>6
<1>7. CASE FinishFrame
  <2>1. /\ main = "finish" /\ main' = "between"
        /\ UNCHANGED <<call, lcd, threaded, running, worker, semas, picture>>
    BY <1>7 DEF FinishFrame
  <2>2. Fetched = 0 /\ Fetched' = 0 /\ ~InSetup /\ ~InSetup'
    BY <2>1
  <2>3. ~NoRequest /\ ~NoRequest'
    BY <2>1
  <2>4. Asked' = Asked /\ Drawing' = Drawing /\ Finished' = Finished
    BY <2>1, <2>2
  <2>5. TypeOK' /\ LCDPosition' /\ ThreadState' /\ FreshSetup'
    BY <2>1, <2>2
  <2>6. FrameCredits' /\ PictureState'
    BY <2>1, <2>2, <2>3, <2>4
  <2> QED
    BY <2>5, <2>6
<1> QED
  BY <1>1, <1>2, <1>3, <1>4, <1>5, <1>6, <1>7 DEF LCDLoop

(* Setting the renderer up at the start keeps it; the branches for a running *)
(* or a stopping thread are not reached.                                     *)
LEMMA SetupInv == IInv /\ Setup => IInv'
<1> SUFFICES ASSUME IInv, Setup PROVE IInv'
  OBVIOUS
<1>0. calls' = calls
  BY DEF Setup
<1> USE <1>0
<1>1. CASE SetupStart
  BY <1>1 DEF SetupStart
<1>2. CASE SetupReset
  BY <1>2 DEF SetupReset
<1>3. CASE SetupBusy
  BY <1>3 DEF SetupBusy
<1>4. CASE SetupWaitDone
  BY <1>4 DEF SetupWaitDone
<1>5. CASE SetupClear
  BY <1>5 DEF SetupClear
<1>6. CASE SetupClearScan
  BY <1>6 DEF SetupClearScan, ScanAfterSetup
<1>7. CASE StopRenderThread
  BY <1>7 DEF StopRenderThread
<1>8. CASE Join
  BY <1>8 DEF Join, ThreadOver
<1>9. CASE Return
  BY <1>9 DEF Return
<1>10. CASE NewRenderer
  BY <1>10 DEF NewRenderer
<1>11. CASE SetupCount
  BY <1>11 DEF SetupCount
<1> QED
  BY <1>1, <1>2, <1>3, <1>4, <1>5, <1>6, <1>7, <1>8, <1>9, <1>10, <1>11 DEF Setup

(* Every step of the render thread keeps it: a line drawn is a credit posted. *)
LEMMA ThreadInv == IInv /\ RenderThreadFunc => IInv'
<1> SUFFICES ASSUME IInv, RenderThreadFunc PROVE IInv'
  OBVIOUS
<1>0. calls' = calls
  BY DEF RenderThreadFunc
<1> USE <1>0
<1>1. CASE TakeStart
  BY <1>1 DEF TakeStart
<1>2. CASE CheckRunning
  BY <1>2 DEF CheckRunning
<1>3. CASE BeginFrame
  BY <1>3 DEF BeginFrame, IdenticalCredits
<1>4. CASE DrawLine
  BY <1>4 DEF DrawLine
<1>5. CASE PostDone
  BY <1>5 DEF PostDone
<1>6. CASE Unmark
  <2>1. InSetup' = InSetup /\ NoRequest' = NoRequest /\ Fetched' = Fetched
    BY <1>6 DEF Unmark
  <2>2. running /\ ~InSetup
    BY <1>6 DEF Unmark
  <2>3. Asked' = Asked /\ Drawing' = Drawing /\ Finished' = Finished
    BY <1>6, <2>1 DEF Unmark
  <2>4. TypeOK' /\ LCDPosition' /\ ThreadState' /\ FreshSetup'
    BY <1>6, <2>1, <2>2 DEF Unmark
  <2>5. FrameCredits'
    BY <1>6, <2>1, <2>2, <2>3 DEF Unmark
  <2>6. PictureState'
    BY <1>6, <2>1, <2>2, <2>3 DEF Unmark
  <2> QED
    BY <2>4, <2>5, <2>6
<1> QED
  BY <1>1, <1>2, <1>3, <1>4, <1>5, <1>6 DEF RenderThreadFunc

(* With no call from outside the frame loop, IInv is inductive. *)
LEMMA StepInv == ASSUME calls' = 0, IInv, [Next]_vars PROVE IInv'
<1>1. ~Calls
  BY DEF Calls, Call, SetVCount, SetEnabled, Reset, DoSavestate, SetThreaded,
         SetRenderer3D, Wakeup
<1>2. CASE UNCHANGED vars
  BY <1>2 DEF vars
<1> QED
  BY <1>1, <1>2, LCDLoopInv, SetupInv, ThreadInv DEF Next

(* What the invariant says of the properties. *)
LEMMA InvImplies == IInv => /\ TypeOK /\ FrameCredits
                            /\ LinesAreCurrent /\ IdenticalIsDrawn
<1> SUFFICES ASSUME IInv PROVE LinesAreCurrent /\ IdenticalIsDrawn
  OBVIOUS
<1>1. ASSUME ShowsLine, LineAvailable PROVE buffer[line] = version
  <2>1. line \in Visible /\ Fetched = line /\ ~NoRequest /\ ~InSetup
    BY <1>1 DEF ShowsLine
  <2>2. CASE ~running
    BY <2>1, <2>2
  <2>3. CASE running
    <3>1. scan > 0
      BY <1>1, <2>3 DEF LineAvailable
    <3>2. CASE Drawing
      BY <2>1, <2>3, <3>1, <3>2
    <3>3. CASE Finished
      BY <2>1, <2>3, <3>3
    <3> QED
      BY <2>1, <2>3, <3>1, <3>2, <3>3
  <2> QED
    BY <2>2, <2>3
<1>2. IdenticalIsDrawn
  BY DEF IdenticalIsDrawn
<1> QED
  BY <1>1, <1>2 DEF LinesAreCurrent

(* Between RenderThreadRendering and the last line nothing the emulation     *)
(* thread does in the frame loop touches the render state.                   *)
LEMMA StepProtects ==
  ASSUME calls' = 0, IInv, Next, thread \in {"begin", "draw"}
  PROVE  version' = version /\ frameIdentical' = frameIdentical
<1>1. ~Calls
  BY DEF Calls, Call, SetVCount, SetEnabled, Reset, DoSavestate, SetThreaded,
         SetRenderer3D, Wakeup
<1>2. ~NoRequest /\ ~InSetup /\ done = 0 /\ running
  OBVIOUS
<1>3. ~VCount144
  BY <1>2 DEF VCount144, VCount144Waits
<1>4. ~VCount215
  <2> SUFFICES ASSUME VCount215 PROVE FALSE
    OBVIOUS
  <2>1. main = "hblank" /\ vcount = RenderLine /\ vcount = line
    BY DEF VCount215
  <2> QED
    BY <1>2, <2>1
<1>5. CASE LCDLoop
  BY <1>3, <1>4, <1>5 DEF LCDLoop, StartFrame, StartScanline, GetLine,
     PlainHBlank, FinishFrame
<1>6. CASE Setup
  BY <1>2, <1>6 DEF Setup, SetupStart, SetupCount, SetupReset, SetupBusy, SetupWaitDone,
     SetupClear, SetupClearScan, StopRenderThread, Join, Return, NewRenderer
<1>7. CASE RenderThreadFunc
  BY <1>7 DEF RenderThreadFunc, TakeStart, CheckRunning, BeginFrame,
     DrawLine, PostDone, Unmark
<1> QED
  BY <1>1, <1>5, <1>6, <1>7 DEF Next

HIDE DEF IInv, TypeOK, FrameCredits

(* The invariant holds until the first call from outside the frame loop. *)
LEMMA FrameLoopInv == Spec => [](calls \in Nat /\ (calls = 0 => IInv))
<1> DEFINE I == calls \in Nat /\ (calls = 0 => IInv)
<1>1. Init => I
  BY InitInv DEF Init
<1>2. I /\ [Next]_vars => I'
  <2> SUFFICES ASSUME I, [Next]_vars PROVE I'
    OBVIOUS
  <2>1. calls' \in Nat /\ (calls' = 0 => calls = 0)
    BY DEF Next, LCDLoop, Setup, RenderThreadFunc, Calls, Call, SetVCount, SetEnabled, Reset,
       DoSavestate, SetThreaded, SetRenderer3D, Wakeup, vars
  <2>2. calls' = 0 => IInv'
    BY <2>1, StepInv
  <2> QED
    BY <2>1, <2>2
<1> QED
  BY <1>1, <1>2, PTL DEF Spec

(* Semaphore credits: for any number of scanlines, the credits left, the     *)
(* lines fetched and the lines drawn always add up, and a frame is requested *)
(* and acknowledged exactly once (GPU3D_Soft.cpp:1709-1742, 1771-1814).      *)
THEOREM CreditsAddUp == Spec => [](calls = 0 => TypeOK /\ FrameCredits)
BY InvImplies, FrameLoopInv, PTL

(* GetLine is right not to wait for a specific row: a line it can return is  *)
(* always drawn from the current frame's render state.                       *)
THEOREM LinesShownAreCurrent == Spec => []LinesAreCurrent
<1>1. (calls = 0 => IInv) => LinesAreCurrent
  BY InvImplies DEF LinesAreCurrent
<1> QED
  BY <1>1, FrameLoopInv, PTL

(* A frame passed over as identical is already in the buffer. *)
THEOREM IdenticalFramesAreDrawn == Spec => []IdenticalIsDrawn
<1>1. (calls = 0 => IInv) => IdenticalIsDrawn
  BY InvImplies DEF IdenticalIsDrawn
<1> QED
  BY <1>1, FrameLoopInv, PTL

(* The render state never changes under a thread that is drawing: VCount144  *)
(* and the line-215 request keep the two sides apart.                        *)
THEOREM RenderStateIsProtected == Spec => RenderStateProtected
<1> DEFINE I == calls \in Nat /\ (calls = 0 => IInv)
<1>1. I /\ [Next]_vars => [(calls' = 0 /\ thread \in {"begin", "draw"})
        => version' = version /\ frameIdentical' = frameIdentical]_vars
  <2> SUFFICES ASSUME I, Next, calls' = 0, thread \in {"begin", "draw"}
               PROVE  version' = version /\ frameIdentical' = frameIdentical
    BY DEF vars
  <2>1. calls = 0
    BY DEF Next, LCDLoop, Setup, RenderThreadFunc, Calls, Call, SetVCount, SetEnabled, Reset,
       DoSavestate, SetThreaded, SetRenderer3D, Wakeup
  <2> QED
    BY <2>1, StepProtects
<1> QED
  BY <1>1, FrameLoopInv, PTL DEF Spec, RenderStateProtected
=============================================================================
