------------------------------ MODULE GXQueue ------------------------------
(***************************************************************************)
(* What the command FIFO of the geometry engine promises to a game: the    *)
(* command entries it submits are executed once, in the order of           *)
(* submission, however many hardware queues an entry passes through, and   *)
(* an entry may be lost only if Capacity entries wait already.             *)
(***************************************************************************)
EXTENDS Naturals, Sequences

CONSTANTS Commands, Capacity

VARIABLES issued,   \* the entries submitted so far
          queue     \* the entries submitted and not yet taken for execution

qvars == <<issued, queue>>

Init == issued = <<>> /\ queue = <<>>

Submit(c) ==
    /\ issued' = Append(issued, c)
    /\ queue' = Append(queue, c)

Lose(c) ==
    /\ Len(queue) >= Capacity
    /\ issued' = Append(issued, c)
    /\ UNCHANGED queue

Execute ==
    /\ queue # <<>>
    /\ queue' = Tail(queue)
    /\ UNCHANGED issued

Next == Execute \/ \E c \in Commands : Submit(c) \/ Lose(c)

Spec == Init /\ [][Next]_qvars
=============================================================================
