------------------------------ MODULE MCGXFIFO ------------------------------
(***************************************************************************)
(* Display lists that swap the buffers early and then bring more entries   *)
(* than the queues hold, with padding, a command of two parameters, and a  *)
(* word of four no-ops.                                                    *)
(***************************************************************************)
EXTENDS GXFIFO

FourPushes == <<"MTX_PUSH", "MTX_PUSH", "MTX_PUSH", "MTX_PUSH">>

MCProgram == << <<"SWAP_BUFFERS", "MTX_PUSH", "MTX_PUSH", "NOP">>,
                <<"POS_TEST", "MTX_MODE", "NOP", "MTX_PUSH">>,
                FourPushes,
                <<"NOP", "NOP", "NOP", "NOP">> >>

\* A longer list, for a stall queue of four entries.
LongProgram == MCProgram \o <<FourPushes>>
=============================================================================
