------------------------------- MODULE MCVRAM -------------------------------
(***************************************************************************)
(* A game that moves bank D between LCDC and two texture slots and lets    *)
(* the ARM7 fill bank C, which it overlays with I in the background of the *)
(* second screen; I comes and goes.                                        *)
(***************************************************************************)
EXTENDS VRAM

Cnt(mst, ofs) == [mst |-> mst, ofs |-> ofs]

MCUses ==
  [b \in Banks |->
     CASE b = "C" -> {Cnt(2, 1), Cnt(4, 0)}
       [] b = "D" -> {Cnt(0, 0), Cnt(3, 0), Cnt(3, 1)}
       [] b = "I" -> {Off, Cnt(1, 0)}
       [] OTHER -> {}]

\* The game was saved while the ARM7 had C, which it is not told of any more
\* because VRAMCNT_C was written twice, and a texture was in place.
SavedCnt ==
  [b \in Banks |-> CASE b = "C" -> Cnt(2, 1) [] b = "D" -> Cnt(3, 0) [] OTHER -> Off]
MCSaves ==
  {[cnt |-> SavedCnt, stat |-> {}, map |-> UNION {Placed(b, SavedCnt[b]) : b \in Banks},
    mem |-> [b \in Banks |-> IF b \in {"C", "D"} THEN {4} ELSE {}]]}
=============================================================================
