--------------------------- MODULE MCNDSScheduler ---------------------------
(***************************************************************************)
(* Small instances of NDSScheduler.  The LCD, the SPU and the RTC are      *)
(* there, with the display FIFO (periodic, started by the LCD handler) and *)
(* ROMTransfer (one-shot, started by a CPU, then by its own handler), in   *)
(* the order of the ids of the code.  Cycle counts are scaled down; the    *)
(* display FIFO comes round faster than the longest step of a CPU.         *)
(***************************************************************************)
EXTENDS NDSScheduler

CONSTANTS DisplayFIFO, ROMTransfer

MCChained == [e \in Events |->
  CASE e = LCD -> {DisplayFIFO} \cap Events
    [] e = ROMTransfer -> {ROMTransfer}
    [] OTHER -> {}]

MCPeriods == [e \in Events |-> CASE e = LCD -> {3, 4}
                                 [] e = SPU -> {4}
                                 [] e = DisplayFIFO -> {1}
                                 [] OTHER -> {}]

MCDelay == [e \in Events |-> 1]
=============================================================================
