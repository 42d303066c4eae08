------------------------------- MODULE GXFIFO -------------------------------
(***************************************************************************)
(* The path of a geometry command from the ARM9 or a DMA channel to the    *)
(* geometry engine: unpacking of packed command words (WriteToGXFIFO), the *)
(* PIPE, the FIFO and the stall queue (CmdFIFOWrite, CmdFIFORead), the     *)
(* execution loop (GPU3D::Run), the stall of the ARM9 (GXFIFOStall), the   *)
(* GXFIFO interrupt, the DMA channel that the FIFO level starts, and the   *)
(* part of NDS::RunFrame that decides who runs and how far time advances.  *)
(*                                                                         *)
(* Time is counted in units of one ARM9 store instruction.  What a command *)
(* computes is abstracted to the cycles it takes.  The words a game writes *)
(* are the packed words of Program, each followed by its parameters.       *)
(***************************************************************************)
EXTENDS Integers, SequencesExt

CONSTANTS
    FIFOSize,     \* entries of CmdFIFO (256)
    StallSize,    \* entries of CmdStallQueue (64)
    Burst,        \* words a GX DMA moves per request (112)
    Slice,        \* longest run of the ARM9 within one turn of RunFrame
    Frame,        \* time between two vertical blanks
    FlushCycles,  \* CycleCount after SWAP_BUFFERS (325)
    MaxSTM,       \* most words one store instruction writes (16)
    CmdCycles,    \* cycles an entry may take
    DMALengths,   \* word counts a game may program
    Program       \* packed command words, in the order the game writes them

PIPESize == 4

\* A selection of the 256 command codes: the ones that the queues treat
\* differently, with their numbers of parameters.
CmdNumParams == [NOP |-> 0, MTX_PUSH |-> 0, MTX_MODE |-> 1, POS_TEST |-> 2,
                 SWAP_BUFFERS |-> 1]

Commands == DOMAIN CmdNumParams

ASSUME GXAssumption ==
    /\ FIFOSize \in Nat /\ FIFOSize >= 4
    /\ StallSize \in Nat \ {0}
    /\ Burst \in Nat \ {0}
    /\ Slice \in Nat \ {0}
    /\ Frame \in Nat \ {0}
    /\ FlushCycles \in Nat \ {0}
    /\ MaxSTM \in Nat \ {0}
    /\ CmdCycles \subseteq Nat \ {0}
    /\ CmdCycles # {}
    /\ DMALengths \subseteq Nat \ {0}
    /\ Program \in Seq([1..4 -> Commands])

VARIABLES
    CmdPIPE, CmdFIFO, CmdStallQueue,
    GXStall,         \* CPUStop & CPUStop_GXStall
    CurCommand,      \* the commands of the current packed word not yet done
    ParamCount,      \* parameters of the first of them already written
    packed,          \* packed words of Program already written
    issued,          \* history: the entries given to CmdFIFOWrite
    Busy,            \* GXSTAT bits: "gx" is 27, "stack" is 14, "test" is 0
    NumPushPopCommands, NumTestCommands,
    ExecParamCount, entry,
    CycleCount, FlushRequest, GeometryEnabled,
    IRQMode, irq,    \* GXSTAT bits 30-31, and IRQ_GXFIFO in IF[0]
    dma,             \* the DMA channel that feeds the FIFO
    pc, ret,         \* where RunFrame is, and where a call returns to
    stm,             \* words left of the store instruction or DMA unit
    left,            \* ARM9Target - ARM9Timestamp
    since,           \* ARM9Timestamp - GPU3D.Timestamp
    toVBlank         \* time until the next vertical blank

queues  == <<CmdPIPE, CmdFIFO, CmdStallQueue, GXStall>>
unpack  == <<CurCommand, ParamCount, packed, issued>>
status  == <<Busy, NumPushPopCommands, NumTestCommands>>
engine  == <<ExecParamCount, entry, CycleCount, FlushRequest, GeometryEnabled>>
irqs    == <<IRQMode, irq>>
clock   == <<left, since, toVBlank>>
control == <<pc, ret, stm>>
vars    == <<queues, unpack, status, engine, irqs, dma, clock, control>>

-----------------------------------------------------------------------------
(* The queues.                                                             *)

IsFull(q, n) == Len(q) >= n

\* FIFO::Write: a full queue drops what is written to it.
Write(q, n, e) == IF IsFull(q, n) THEN q ELSE Append(q, e)

IsStackCmd(c) == c = "MTX_PUSH"
IsTestCmd(c)  == c = "POS_TEST"

\* Mutant of ToPIPE: an entry overtakes the ones in the FIFO.
ToPIPEOvertaking == ~IsFull(CmdPIPE, PIPESize)

\* Where an entry goes: to the PIPE if nothing waits before it, to the FIFO,
\* or, when that is full, to the stall queue.
ToPIPE == CmdFIFO = <<>> /\ ~IsFull(CmdPIPE, PIPESize)
ToStall == ~ToPIPE /\ IsFull(CmdFIFO, FIFOSize)

\* Mutant of Account: pushing a matrix is only noted in the status bit.
AccountBitOnly(e) ==
    /\ Busy' = Busy \union {"gx"} \union {b \in {"stack"} : IsStackCmd(e)}
                                  \union {b \in {"test"} : IsTestCmd(e)}
    /\ NumTestCommands' = NumTestCommands + (IF IsTestCmd(e) THEN 1 ELSE 0)
    /\ UNCHANGED NumPushPopCommands

\* What CmdFIFOWrite does to GXSTAT.
Account(e) ==
    /\ Busy' = Busy \union {"gx"} \union {b \in {"stack"} : IsStackCmd(e)}
                                  \union {b \in {"test"} : IsTestCmd(e)}
    /\ NumPushPopCommands' = NumPushPopCommands + (IF IsStackCmd(e) THEN 1 ELSE 0)
    /\ NumTestCommands' = NumTestCommands + (IF IsTestCmd(e) THEN 1 ELSE 0)

\* GXFIFOStall.  It runs with CurCPU = 0, so it stops a DMA channel that is
\* executing but does not halt the ARM9, which ends its slice first.
GXFIFOStall ==
    /\ GXStall' = TRUE
    /\ dma' = [dma EXCEPT !.stall = @ \/ (~GXStall /\ ret = "dma")]

\* CmdFIFOWrite of entry e when the stall queue holds sq.  An entry that goes
\* to the stall queue is accounted when it leaves that queue.
CmdFIFOWrite(e, sq) ==
    \/ /\ ToPIPE
       /\ CmdPIPE' = Append(CmdPIPE, e)
       /\ CmdStallQueue' = sq
       /\ Account(e)
       /\ UNCHANGED <<CmdFIFO, GXStall, dma>>
    \/ /\ ToStall
       /\ CmdStallQueue' = Write(sq, StallSize, e)
       /\ GXFIFOStall
       /\ UNCHANGED <<CmdPIPE, CmdFIFO, status>>
    \/ /\ ~ToPIPE /\ ~ToStall
       /\ CmdFIFO' = Append(CmdFIFO, e)
       /\ CmdStallQueue' = sq
       /\ Account(e)
       /\ UNCHANGED <<CmdPIPE, GXStall, dma>>

-----------------------------------------------------------------------------
(* The DMA channel and the interrupt that follow the level of the FIFO.    *)

Half == FIFOSize \div 2

\* The registers and the state of a channel: whether it is enabled, waits for
\* the FIFO, repeats, and its word count; the words left of the transfer (none
\* if no transfer is in progress) and of the burst.
Channels == [on : BOOLEAN, gx : BOOLEAN, repeat : BOOLEAN, count : Nat,
             rem : Nat, iter : Nat, running : BOOLEAN, stall : BOOLEAN]

\* A disabled channel with no transfer in progress: what its other registers
\* hold has no effect, as enabling it writes them.
IdleDMA == [on |-> FALSE, gx |-> FALSE, repeat |-> FALSE, count |-> 0,
            rem |-> 0, iter |-> 0, running |-> FALSE, stall |-> FALSE]

\* DMA::Start: a transfer that is in progress goes on, a new one takes the word
\* count; a GX transfer moves at most Burst words per request.
Start(d) ==
    LET rem == IF d.rem > 0 THEN d.rem ELSE d.count IN
    IF d.running THEN d
    ELSE [d EXCEPT !.running = TRUE,
                   !.rem = rem,
                   !.iter = IF d.gx /\ rem > Burst THEN Burst ELSE rem]

\* CheckFIFODMA with the FIFO at the given level.
CheckFIFODMA(d, level) ==
    IF level < Half /\ d.on /\ d.gx THEN Start(d) ELSE d

\* CheckFIFOIRQ in the given mode with the FIFO at the given level.
FIFOIRQ(mode, level) == \/ mode = 1 /\ level < Half
                        \/ mode = 2 /\ level = 0

-----------------------------------------------------------------------------
(* Time.                                                                   *)

Least(a, b) == IF a < b THEN a ELSE b

Pass(d) ==
    /\ left' = left - d
    /\ since' = since + d
    /\ toVBlank' = toVBlank - d

-----------------------------------------------------------------------------
(* One turn of the loop of NDS::RunFrame.                                  *)

\* Mutant of CyclesToRunFor: no time passes while a swap is pending.
CyclesToRunForNone == IF CycleCount < 0 \/ FlushRequest THEN 0 ELSE CycleCount

CyclesToRunFor == IF CycleCount < 0 THEN 0 ELSE CycleCount

\* A stalled system only lets time pass until the engine can go on.
TurnStalled ==
    /\ pc = "iter" /\ GXStall
    /\ LET d == Least(Least(Slice, toVBlank), CyclesToRunFor) IN
       /\ left' = 0
       /\ since' = since + d
       /\ toVBlank' = toVBlank - d
    /\ pc' = "gpu" /\ ret' = "system"
    /\ UNCHANGED <<queues, unpack, status, engine, irqs, dma, stm>>

TurnRuns ==
    /\ pc = "iter" /\ ~GXStall
    /\ left' = Least(Slice, toVBlank)
    /\ pc' = IF dma.running THEN "dma" ELSE "arm9"
    /\ ret' = pc'
    /\ UNCHANGED <<queues, unpack, status, engine, irqs, dma, stm, since, toVBlank>>

\* RunSystem: the vertical blank ends a pending swap of the buffers.
System ==
    /\ pc = "system"
    /\ IF toVBlank = 0
       THEN /\ toVBlank' = Frame
            /\ FlushRequest' = (FlushRequest /\ ~GeometryEnabled)
       ELSE UNCHANGED <<toVBlank, FlushRequest>>
    /\ pc' = "iter"
    /\ UNCHANGED <<queues, unpack, status, ExecParamCount, entry, CycleCount,
                   GeometryEnabled, irqs, dma, left, since, ret, stm>>

-----------------------------------------------------------------------------
(* What an instruction of the ARM9 may do.                                 *)

InARM9 == pc = "arm9" /\ ret = "arm9"

\* A store of n words to the FIFO port (or elsewhere, once Program has been
\* written).
ARM9Store(n) ==
    /\ InARM9
    /\ pc' = "word" /\ stm' = n
    /\ UNCHANGED <<queues, unpack, status, engine, irqs, dma, clock, ret>>

\* Reading GXSTAT runs the engine up to the present first.
ReadGXSTAT ==
    /\ InARM9
    /\ pc' = "gpu"
    /\ UNCHANGED <<queues, unpack, status, engine, irqs, dma, clock, ret, stm>>

WriteGXSTAT(mode) ==
    /\ InARM9
    /\ IRQMode' = mode
    /\ irq' = FIFOIRQ(mode, Len(CmdFIFO))
    /\ pc' = "ended"
    /\ UNCHANGED <<queues, unpack, status, engine, dma, clock, ret, stm>>

\* Writing IF acknowledges the interrupt, which is a level: it is raised again
\* at once while its condition holds.
AckIRQ ==
    /\ InARM9 /\ irq
    /\ irq' = FIFOIRQ(IRQMode, Len(CmdFIFO))
    /\ pc' = "ended"
    /\ UNCHANGED <<queues, unpack, status, engine, IRQMode, dma, clock, ret, stm>>

\* DMA::WriteCnt enabling the channel: start at once, or when the FIFO asks for
\* words.  A channel that was disabled between two bursts resumes its transfer.
WriteCnt(n, gx, repeat) ==
    /\ InARM9 /\ ~dma.on
    /\ LET d == [dma EXCEPT !.on = TRUE, !.gx = gx, !.repeat = repeat, !.count = n] IN
       dma' = IF gx THEN CheckFIFODMA(d, Len(CmdFIFO)) ELSE Start(d)
    /\ pc' = "ended"
    /\ UNCHANGED <<queues, unpack, status, engine, irqs, clock, ret, stm>>

\* DMA::WriteCnt disabling it.
DisableDMA ==
    /\ InARM9 /\ dma.on
    /\ dma' = IF dma.rem = 0 THEN IdleDMA ELSE [dma EXCEPT !.on = FALSE]
    /\ pc' = "ended"
    /\ UNCHANGED <<queues, unpack, status, engine, irqs, clock, ret, stm>>

\* POWCNT1 switches the geometry engine.
SetEnabled ==
    /\ InARM9
    /\ GeometryEnabled' = ~GeometryEnabled
    /\ pc' = "ended"
    /\ UNCHANGED <<queues, unpack, status, ExecParamCount, entry, CycleCount,
                   FlushRequest, irqs, dma, clock, ret, stm>>

\* The end of an instruction, or of one word of a store multiple: a DMA that
\* was started halts the ARM9 here, a stall does not.
InstructionEnds ==
    /\ pc = "ended" /\ ret = "arm9"
    /\ \/ /\ stm > 1
          /\ stm' = stm - 1 /\ pc' = "word"
          /\ UNCHANGED <<clock, ret>>
       \/ /\ stm <= 1 /\ dma.running
          /\ stm' = 0 /\ pc' = "gpu" /\ ret' = "system"
          /\ UNCHANGED clock
       \/ /\ stm <= 1 /\ ~dma.running
          /\ stm' = 0
          /\ Pass(1)
          /\ pc' = IF left = 1 THEN "gpu" ELSE "arm9"
          /\ ret' = IF left = 1 THEN "system" ELSE "arm9"
    /\ UNCHANGED <<queues, unpack, status, engine, irqs, dma>>

-----------------------------------------------------------------------------
(* DMA::Run9.                                                              *)

DMAUnit ==
    /\ pc = "dma" /\ dma.iter > 0 /\ ~dma.stall /\ left > 0
    /\ pc' = "word" /\ stm' = 1
    /\ UNCHANGED <<queues, unpack, status, engine, irqs, dma, clock, ret>>

DMAUnitEnds ==
    /\ pc = "ended" /\ ret = "dma"
    /\ Pass(1)
    /\ dma' = [dma EXCEPT !.iter = @ - 1, !.rem = @ - 1]
    /\ pc' = "dma" /\ stm' = 0
    /\ UNCHANGED <<queues, unpack, status, engine, irqs, ret>>

\* Mutant of DMARunEnds: the FIFO is not asked again after a burst.
DMARunEndsOnce ==
    /\ pc = "dma" /\ (dma.iter = 0 \/ dma.stall \/ left = 0)
    /\ LET d == [dma EXCEPT !.stall = FALSE]
           halted == [d EXCEPT !.running = FALSE] IN
       dma' = IF d.rem = 0 THEN IF d.on /\ d.repeat THEN halted ELSE IdleDMA
              ELSE IF d.iter > 0 THEN d ELSE halted
    /\ pc' = "gpu" /\ ret' = "system"
    /\ UNCHANGED <<queues, unpack, status, engine, irqs, clock, stm>>

\* The end of a run: of the slice, of a burst, or of the transfer, after which
\* only a channel that repeats stays enabled.
DMARunEnds ==
    /\ pc = "dma" /\ (dma.iter = 0 \/ dma.stall \/ left = 0)
    /\ LET d == [dma EXCEPT !.stall = FALSE]
           halted == [d EXCEPT !.running = FALSE] IN
       dma' = IF d.rem = 0 THEN IF d.on /\ d.repeat THEN halted ELSE IdleDMA
              ELSE IF d.iter > 0 THEN d
              ELSE CheckFIFODMA(halted, Len(CmdFIFO))
    /\ pc' = "gpu" /\ ret' = "system"
    /\ UNCHANGED <<queues, unpack, status, engine, irqs, clock, stm>>

-----------------------------------------------------------------------------
(* GPU3D::WriteToGXFIFO.                                                   *)

NumCommands == Len(CurCommand)

\* A word arrives: a packed command word, a parameter, or a write that is
\* ignored.
Word ==
    /\ pc = "word"
    /\ \/ /\ \/ ~GeometryEnabled
             \/ NumCommands = 0 /\ packed = Len(Program)
          /\ pc' = "ended"
          /\ UNCHANGED <<CurCommand, ParamCount, packed>>
       \/ /\ GeometryEnabled /\ NumCommands = 0 /\ packed < Len(Program)
          /\ CurCommand' = Program[packed + 1]
          /\ ParamCount' = 0
          /\ packed' = packed + 1
          /\ pc' = IF CmdNumParams[CurCommand'[1]] > 0 THEN "ended" ELSE "unpack"
       \/ /\ GeometryEnabled /\ NumCommands > 0
          /\ ParamCount' = ParamCount + 1
          /\ pc' = "unpack"
          /\ UNCHANGED <<CurCommand, packed>>
    /\ UNCHANGED <<queues, issued, status, engine, irqs, dma, clock, ret, stm>>

\* A zero byte is padding, unless the whole word is zero.
IsCommand == \/ Head(CurCommand) # "NOP"
             \/ NumCommands = 4 /\ \A i \in 1..4 : CurCommand[i] = "NOP"

\* Mutant of CommandDone: the last parameter is not waited for.
CommandDoneEarly == ParamCount + 1 >= CmdNumParams[Head(CurCommand)]

CommandDone == ParamCount >= CmdNumParams[Head(CurCommand)]

\* One turn of the unpacking loop.
Unpack ==
    /\ pc = "unpack"
    /\ IF IsCommand
       THEN /\ CmdFIFOWrite(Head(CurCommand), CmdStallQueue)
            /\ issued' = Append(issued, Head(CurCommand))
       ELSE UNCHANGED <<queues, issued, status, dma>>
    /\ CurCommand' = IF CommandDone THEN Tail(CurCommand) ELSE CurCommand
    /\ ParamCount' = IF CommandDone THEN 0 ELSE ParamCount
    /\ pc' = IF /\ CommandDone
                /\ NumCommands > 1
                /\ CmdNumParams[CurCommand[2]] = 0
             THEN "unpack" ELSE "ended"
    /\ UNCHANGED <<packed, engine, irqs, clock, ret, stm>>

-----------------------------------------------------------------------------
(* GPU3D::Run.                                                             *)

Return == pc' = IF ret = "arm9" THEN "ended" ELSE "system"

\* Bits 14 and 0 of GXSTAT are cleared lazily.
IdleBits == {b \in {"stack"} : NumPushPopCommands = 0}
              \union {b \in {"test"} : NumTestCommands = 0}

Run ==
    /\ pc = "gpu"
    /\ since' = 0
    /\ IF \/ ~GeometryEnabled \/ FlushRequest
          \/ CmdPIPE = <<>> /\ "gx" \notin Busy
       THEN Return /\ UNCHANGED CycleCount
       ELSE CycleCount' = CycleCount - since /\ pc' = "exec"
    /\ UNCHANGED <<queues, unpack, status, ExecParamCount, entry, FlushRequest,
                   GeometryEnabled, irqs, dma, left, toVBlank, ret, stm>>

\* Mutant of CmdFIFORead: the PIPE is refilled one entry too late.
CmdFIFOReadLate ==
    /\ pc = "exec" /\ CycleCount <= 0 /\ CmdPIPE # <<>>
    /\ Busy' = Busy \ IdleBits
    /\ entry' = Head(CmdPIPE)
    /\ LET n == Least(2, Len(CmdFIFO)) IN
       IF Len(CmdPIPE) - 1 <= 1
       THEN /\ CmdPIPE' = Tail(CmdPIPE) \o SubSeq(CmdFIFO, 1, n)
            /\ CmdFIFO' = SubSeq(CmdFIFO, n + 1, Len(CmdFIFO))
            /\ pc' = "drain"
       ELSE /\ CmdPIPE' = Tail(CmdPIPE)
            /\ UNCHANGED CmdFIFO
            /\ pc' = "execute"
    /\ UNCHANGED <<CmdStallQueue, GXStall, unpack, NumPushPopCommands,
                   NumTestCommands, ExecParamCount, CycleCount, FlushRequest,
                   GeometryEnabled, irqs, dma, clock, ret, stm>>

\* CmdFIFORead, up to the stall queue: the PIPE is refilled by two entries
\* once it is half empty.
CmdFIFORead ==
    /\ pc = "exec" /\ CycleCount <= 0 /\ CmdPIPE # <<>>
    /\ Busy' = Busy \ IdleBits
    /\ entry' = Head(CmdPIPE)
    /\ LET n == Least(2, Len(CmdFIFO)) IN
       IF Len(CmdPIPE) - 1 <= 2
       THEN /\ CmdPIPE' = Tail(CmdPIPE) \o SubSeq(CmdFIFO, 1, n)
            /\ CmdFIFO' = SubSeq(CmdFIFO, n + 1, Len(CmdFIFO))
            /\ pc' = "drain"
       ELSE /\ CmdPIPE' = Tail(CmdPIPE)
            /\ UNCHANGED CmdFIFO
            /\ pc' = "execute"
    /\ UNCHANGED <<CmdStallQueue, GXStall, unpack, NumPushPopCommands,
                   NumTestCommands, ExecParamCount, CycleCount, FlushRequest,
                   GeometryEnabled, irqs, dma, clock, ret, stm>>

\* The rest of CmdFIFORead: the stall queue moves up, ...
Drain ==
    /\ pc = "drain" /\ CmdStallQueue # <<>> /\ ~IsFull(CmdFIFO, FIFOSize)
    /\ CmdFIFOWrite(Head(CmdStallQueue), Tail(CmdStallQueue))
    /\ UNCHANGED <<unpack, engine, irqs, clock, control>>

\* ... the system goes on when it is empty, and the new level is signalled.
Drained ==
    /\ pc = "drain" /\ (CmdStallQueue = <<>> \/ IsFull(CmdFIFO, FIFOSize))
    /\ GXStall' = (GXStall /\ CmdStallQueue # <<>>)
    /\ dma' = CheckFIFODMA(dma, Len(CmdFIFO))
    /\ irq' = FIFOIRQ(IRQMode, Len(CmdFIFO))
    /\ pc' = "execute"
    /\ UNCHANGED <<CmdPIPE, CmdFIFO, CmdStallQueue, unpack, status, engine,
                   IRQMode, clock, ret, stm>>

\* ExecuteCommand: the effect of one entry on the counters and on time.
ExecuteCommand(c) ==
    /\ pc = "execute"
    /\ IF CmdNumParams[entry] <= 1
       THEN /\ NumPushPopCommands' = NumPushPopCommands -
                                        (IF IsStackCmd(entry) THEN 1 ELSE 0)
            /\ UNCHANGED <<ExecParamCount, NumTestCommands>>
       ELSE LET done == ExecParamCount + 1 >= CmdNumParams[entry] IN
            /\ ExecParamCount' = IF done THEN 0 ELSE ExecParamCount + 1
            /\ NumTestCommands' = NumTestCommands -
                                     (IF done /\ IsTestCmd(entry)
                                      THEN CmdNumParams[entry] ELSE 0)
            /\ UNCHANGED NumPushPopCommands
    /\ FlushRequest' = (FlushRequest \/ entry = "SWAP_BUFFERS")
    /\ CycleCount' = IF entry = "SWAP_BUFFERS" THEN FlushCycles ELSE CycleCount + c
    /\ pc' = "exec"
    /\ UNCHANGED <<queues, unpack, Busy, entry, GeometryEnabled, irqs, dma, clock,
                   ret, stm>>

\* The end of Run.  Whether the vertex, normal and polygon pipelines still
\* keep the engine busy (FinishWork) is not modelled.
RunEnds ==
    /\ pc = "exec" /\ (CycleCount > 0 \/ CmdPIPE = <<>>)
    /\ IF CycleCount <= 0
       THEN /\ CycleCount' = 0
            /\ \E idle \in SUBSET {"gx"} : Busy' = Busy \ (IdleBits \union idle)
       ELSE UNCHANGED <<CycleCount, Busy>>
    /\ Return
    /\ UNCHANGED <<queues, unpack, NumPushPopCommands, NumTestCommands,
                   ExecParamCount, entry, FlushRequest, GeometryEnabled, irqs, dma,
                   clock, ret, stm>>

-----------------------------------------------------------------------------
Init ==
    /\ CmdPIPE = <<>> /\ CmdFIFO = <<>> /\ CmdStallQueue = <<>> /\ GXStall = FALSE
    /\ CurCommand = <<>> /\ ParamCount = 0 /\ packed = 0 /\ issued = <<>>
    /\ Busy = {} /\ NumPushPopCommands = 0 /\ NumTestCommands = 0
    /\ ExecParamCount = 0 /\ entry = "NOP"
    /\ CycleCount = 0 /\ FlushRequest = FALSE /\ GeometryEnabled = TRUE
    /\ IRQMode = 0 /\ irq = FALSE
    /\ dma = IdleDMA
    /\ pc = "iter" /\ ret = "system" /\ stm = 0
    /\ left = 0 /\ since = 0 /\ toVBlank = Frame

Next ==
    \/ TurnStalled \/ TurnRuns \/ System
    \/ \E n \in 1..MaxSTM : ARM9Store(n)
    \/ ReadGXSTAT
    \/ \E mode \in 0..2 : WriteGXSTAT(mode)
    \/ AckIRQ
    \/ \E n \in DMALengths, gx, repeat \in BOOLEAN : WriteCnt(n, gx, repeat)
    \/ DisableDMA
    \/ SetEnabled
    \/ InstructionEnds
    \/ DMAUnit \/ DMAUnitEnds \/ DMARunEnds
    \/ Word \/ Unpack
    \/ Run \/ CmdFIFORead \/ Drain \/ Drained
    \/ \E c \in CmdCycles : ExecuteCommand(c)
    \/ RunEnds

\* Everything runs on the emulation thread, which always takes its next step.
Spec == Init /\ [][Next]_vars /\ WF_vars(Next)

-----------------------------------------------------------------------------
(* Properties.                                                             *)

\* Types and ranges of the state of the queues, the engine and RunFrame.
TypeOK ==
    /\ CmdPIPE \in Seq(Commands) /\ Len(CmdPIPE) <= PIPESize
    /\ CmdFIFO \in Seq(Commands) /\ Len(CmdFIFO) <= FIFOSize
    /\ CmdStallQueue \in Seq(Commands) /\ Len(CmdStallQueue) <= StallSize
    /\ GXStall \in BOOLEAN
    /\ CurCommand \in Seq(Commands) /\ ParamCount \in Nat
    /\ packed \in 0..Len(Program) /\ issued \in Seq(Commands)
    /\ Busy \subseteq {"gx", "stack", "test"}
    /\ NumPushPopCommands \in Nat /\ NumTestCommands \in Nat
    /\ ExecParamCount \in Nat /\ entry \in Commands
    /\ CycleCount \in Int
    /\ FlushRequest \in BOOLEAN /\ GeometryEnabled \in BOOLEAN
    /\ IRQMode \in 0..2 /\ irq \in BOOLEAN
    /\ dma \in Channels
    /\ pc \in {"iter", "arm9", "word", "unpack", "ended", "dma", "gpu", "exec",
               "drain", "execute", "system"}
    /\ ret \in {"arm9", "dma", "system"}
    /\ stm \in 0..MaxSTM /\ left \in 0..Slice /\ since \in Nat /\ toVBlank \in 0..Frame

\* The commands on their way, oldest first.
Pending == CmdPIPE \o CmdFIFO \o CmdStallQueue

\* An entry that finds no room meets a full FIFO and a full stall queue, and
\* a PIPE that CmdFIFORead need not refill.
Capacity == FIFOSize + StallSize + 3

Queue == INSTANCE GXQueue WITH queue <- Pending

\* The three queues together are one first-in first-out queue: no entry is
\* doubled or overtaken on its way through CmdFIFOWrite, the refill of the
\* PIPE and the draining of the stall queue, and none is lost before as many
\* wait as the three queues hold together (FIFO::Write drops an entry that
\* meets a full stall queue; whether a game can fill it is the question of
\* StallQueueSuffices).
QueueSpec == Queue!Spec

\* The entries a packed word stands for: one per parameter, and one for a
\* command without parameters.
EntriesOf(c) == [i \in 1..(IF CmdNumParams[c] = 0 THEN 1 ELSE CmdNumParams[c]) |-> c]

Entries(w) ==
    IF \A i \in 1..4 : w[i] = "NOP" THEN <<"NOP">>
    ELSE FlattenSeq([i \in 1..4 |-> IF w[i] = "NOP" THEN <<>> ELSE EntriesOf(w[i])])

Stream(n) == FlattenSeq([i \in 1..n |-> Entries(Program[i])])

\* WriteToGXFIFO unpacks the words to the entries they stand for, however
\* the stores and DMA bursts that bring them are cut.
Unpacked ==
    /\ IsPrefix(issued, Stream(Len(Program)))
    /\ NumCommands = 0 => issued = Stream(packed)

Count(q, T(_)) == Cardinality({i \in DOMAIN q : T(q[i])})

Between == pc \notin {"drain", "execute"}

\* The queues are filled from the front: entries wait in the FIFO only behind
\* a PIPE that CmdFIFORead need not refill, in the stall queue only behind a
\* full FIFO, and the system is stalled exactly while some do.  An empty PIPE,
\* the condition of Run, therefore means that nothing is left to do.
QueuesBacked ==
    Between => /\ CmdFIFO # <<>> => Len(CmdPIPE) > 2
               /\ CmdStallQueue # <<>> => IsFull(CmdFIFO, FIFOSize)
               /\ GXStall <=> CmdStallQueue # <<>>

\* GXSTAT does not report the matrix stack, the tests or the engine idle
\* while a command that keeps them busy waits in the PIPE or the FIFO, and
\* the counters behind it never drift, also for commands of several entries
\* and for entries that passed through the stall queue.
StatusTrue ==
    Between => /\ NumPushPopCommands = Count(CmdPIPE \o CmdFIFO, IsStackCmd)
               /\ NumTestCommands =
                     Count(CmdPIPE \o CmdFIFO, IsTestCmd) + ExecParamCount
               /\ NumPushPopCommands > 0 => "stack" \in Busy
               /\ NumTestCommands > 0 => "test" \in Busy
               /\ CmdPIPE # <<>> => "gx" \in Busy

\* A stalled system goes on, unless the ARM9 switched the engine off before
\* its slice ended: time keeps advancing while the engine waits for the
\* vertical blank, and the engine then takes enough entries.
StallEnds == GXStall ~> (~GXStall \/ ~GeometryEnabled)

\* What the FIFO level has to trigger is triggered: a game that waits for the
\* interrupt gets it when the FIFO becomes less than half full, a GX DMA is
\* started again until all its words are written, and one that repeats begins
\* the next transfer when the FIFO it has filled becomes less than half full.
RequestsServed ==
    /\ (IRQMode = 1 /\ ~irq /\ Len(CmdFIFO) >= Half)
          ~> (irq \/ IRQMode # 1 \/ ~GeometryEnabled)
    /\ (dma.on /\ dma.rem > 0) ~> (~dma.on \/ dma.rem = 0 \/ ~GeometryEnabled)
    /\ (dma.on /\ dma.gx /\ dma.rem = 0 /\ Len(CmdFIFO) >= Half)
          ~> (~dma.on \/ dma.rem > 0 \/ ~GeometryEnabled)

\* "worst case is if a STMxx opcode causes this, which is why our stall queue
\* has 64 entries": an entry that meets a full FIFO finds room in the stall
\* queue, if that holds what one store instruction can write.
StallQueueSuffices ==
    [][(StallSize >= 4 * MaxSTM /\ issued' # issued)
          => Len(Pending') = Len(Pending) + 1]_vars
=============================================================================
