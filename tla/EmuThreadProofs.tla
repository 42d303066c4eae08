--------------------------- MODULE EmuThreadProofs ---------------------------
(***************************************************************************)
(* Proofs about the message protocol of the emulation threads: the pause   *)
(* stack whatever threads send (as long as nobody steps frames); the       *)
(* credits of an instance, whatever is sent to the other ones, and with    *)
(* them the results a call reads; and the calls of a UI thread that is the *)
(* only sender: it has the GL context for itself, and a dialog stops every *)
(* instance.                                                               *)
(***************************************************************************)
EXTENDS EmuThread, SequenceTheorems, TLAPS

-----------------------------------------------------------------------------
(* Types: the messages of the kinds in C, and the steps that send them. *)

MessageOf(C) == [type : C \cup {"Command"}, cmd : 0 .. MaxCalls]

StepOf(C) ==
  [do : {"send"}, to : Instances, msg : MessageOf(C)]
    \cup [do : {"wait"}, to : Instances, num : {1, 2}]
    \cup [do : {"waitAll", "acquire", "context", "returnGL", "join"}, to : Instances]
    \cup [do : {"read"}, to : Instances, cmd : 0 .. MaxCalls]
    \cup [do : {"broadcast"}, left : SUBSET Instances, type : C]

Emulator == [status : Statuses, prev : Statuses, stack : Nat, active : BOOLEAN]
Places == {"top", "keys", "frame", "lock", "handle", "gl", "glwait", "ended"}

Types(C) ==
  /\ emu \in [Instances -> Emulator] /\ pc \in [Instances -> Places]
  /\ queue \in [Instances -> Seq(MessageOf(C))]
  /\ cur \in [Instances -> MessageOf(C) \cup {None}]
  /\ borrowed \in [Instances -> BOOLEAN] /\ sem \in [Instances -> Nat]
  /\ result \in [Instances -> [cmd : 0 .. MaxCalls, ok : BOOLEAN]]
  /\ prog \in [Threads -> Seq(StepOf(C))]
  /\ calls \in 0 .. MaxCalls /\ dialog \in Instances \cup {None}
  /\ manual \in [Instances -> BOOLEAN] /\ inactive \subseteq Instances
  /\ checked \in [Instances -> BOOLEAN] /\ stray \subseteq Instances

-----------------------------------------------------------------------------
(* The pause stack of an emulator that nobody steps frame by frame. *)

Stepless == Controls \ {"EmuFrameStep"}

StackOK(e) ==
  /\ e.status # "FrameStep" /\ e.prev # "FrameStep"
  /\ e.stack >= 1 => e.status = "Paused"
  /\ e.active => /\ e.status = "Paused" => e.stack >= 1
                 /\ e.stack >= 1 => e.prev # "Paused"

Stacks == \A i \in Instances : StackOK(emu[i])

-----------------------------------------------------------------------------
(* The UI thread as the only sender: what it has asked of an instance, and *)
(* how far the instance has come with it. *)

SendStep(i, m) == [do |-> "send", to |-> i, msg |-> m]
WaitStep(i, n) == [do |-> "wait", to |-> i, num |-> n]
ReadStep(i, c) == [do |-> "read", to |-> i, cmd |-> c]
BroadcastStep(L, type) == [do |-> "broadcast", left |-> L, type |-> type]
OtherStep(do, i) == [do |-> do, to |-> i]

\* The instance runs and was not told to exit.
Up(i) == pc[i] # "ended" /\ emu[i].status # "Exit" /\ emu[i].prev # "Exit"

Idle(i) == Up(i) /\ queue[i] = <<>> /\ cur[i] = None /\ sem[i] = 0
Gone(i) == pc[i] = "ended" /\ queue[i] = <<>> /\ cur[i] = None
AtRest(i) == Idle(i) \/ Gone(i)

\* The emulation thread has given the GL context away.
Lent(i) == pc[i] \in {"gl", "glwait"} \/ (pc[i] = "handle" /\ borrowed[i])

Answered(i, m) ==
  /\ m.type = "Command" => result[i].cmd = m.cmd
  /\ m.type = "BorrowGL" => Lent(i)

\* Message m is on the queue, being handled, or handled and its credit given.
Asked(i, m) ==
  /\ Up(i)
  /\ \/ queue[i] = <<m>> /\ cur[i] = None /\ sem[i] = 0
     \/ queue[i] = <<>> /\ cur[i] = m /\ pc[i] = "handle" /\ sem[i] = 0
     \/ queue[i] = <<>> /\ cur[i] = None /\ sem[i] = 1 /\ Answered(i, m)

\* The two messages of importSavefile.
AskedTwo(i, c) ==
  /\ Up(i)
  /\ \/ queue[i] = <<Msg("EmuReset"), Command(c)>> /\ cur[i] = None /\ sem[i] = 0
     \/ queue[i] = <<Command(c)>> /\ cur[i] = Msg("EmuReset") /\ pc[i] = "handle"
          /\ sem[i] = 0
     \/ queue[i] = <<Command(c)>> /\ cur[i] = None /\ sem[i] = 1
     \/ queue[i] = <<>> /\ cur[i] = Command(c) /\ pc[i] = "handle" /\ sem[i] = 1
     \/ queue[i] = <<>> /\ cur[i] = None /\ sem[i] = 2 /\ result[i].cmd = c

Leaving(i) ==
  \/ Up(i) /\ queue[i] = <<Msg("Exit")>> /\ cur[i] = None
  \/ Up(i) /\ queue[i] = <<>> /\ cur[i] = Msg("Exit") /\ pc[i] = "handle"
  \/ queue[i] = <<>> /\ cur[i] = None /\ emu[i].status = "Exit"

\* What is left of a call whose next step sends a message to i: a call of one
\* message, a broadcast, a command with a result, a boot, an import, a loan.
Sends(i, p) ==
  \/ \E T \in Controls \ {"Exit"} : p = <<SendStep(i, Msg(T)), WaitStep(i, 1)>>
  \/ \E T \in {"EmuPause", "EmuUnpause"}, L \in SUBSET Instances :
       p = <<SendStep(i, Msg(T)), WaitStep(i, 1), BroadcastStep(L, T)>>
  \/ \E c \in 1 .. MaxCalls :
       \/ p = <<SendStep(i, Command(c)), WaitStep(i, 1), ReadStep(i, c)>>
       \/ p = <<SendStep(i, Command(c)), WaitStep(i, 1), ReadStep(i, c),
                SendStep(i, Msg("EmuRun")), WaitStep(i, 1)>>
       \/ p = <<SendStep(i, Msg("EmuReset")), SendStep(i, Command(c)),
                WaitStep(i, 2), ReadStep(i, c)>>
  \/ p = <<SendStep(i, Msg("BorrowGL")), WaitStep(i, 1), OtherStep("context", i),
           OtherStep("returnGL", i)>>

\* What is left of a call that waits for the answer to m.
Waits(i, m, p) ==
  \/ m.type \in Controls \ {"Exit"} /\ p = <<WaitStep(i, 1)>>
  \/ m.type \in {"EmuPause", "EmuUnpause"}
       /\ \E L \in SUBSET Instances : p = <<WaitStep(i, 1), BroadcastStep(L, m.type)>>
  \/ m.type = "Command"
       /\ \/ p = <<WaitStep(i, 1), ReadStep(i, m.cmd)>>
          \/ p = <<WaitStep(i, 1), ReadStep(i, m.cmd), SendStep(i, Msg("EmuRun")),
                   WaitStep(i, 1)>>
  \/ m.type = "BorrowGL"
       /\ p = <<WaitStep(i, 1), OtherStep("context", i), OtherStep("returnGL", i)>>

\* What is left of a call that reads the result of its command.
Reads(i, p) ==
  \E c \in 0 .. MaxCalls :
    /\ result[i].cmd = c
    /\ \/ p = <<ReadStep(i, c)>>
       \/ p = <<ReadStep(i, c), SendStep(i, Msg("EmuRun")), WaitStep(i, 1)>>

\* The call of the UI thread is busy with i and has p left.
Phase(i, p) ==
  \/ Idle(i) /\ Sends(i, p)
  \/ \E m \in Message : Asked(i, m) /\ Waits(i, m, p)
  \/ \E c \in 1 .. MaxCalls :
       \/ /\ Asked(i, Msg("EmuReset"))
          /\ p = <<SendStep(i, Command(c)), WaitStep(i, 2), ReadStep(i, c)>>
       \/ AskedTwo(i, c) /\ p = <<WaitStep(i, 2), ReadStep(i, c)>>
  \/ Idle(i) /\ Reads(i, p)
  \/ Idle(i) /\ Lent(i) /\ p = <<OtherStep("context", i), OtherStep("returnGL", i)>>
  \/ Idle(i) /\ p = <<OtherStep("returnGL", i)>>

\* The call of the UI thread is the exit of i.
Exits(i, p) ==
  \/ /\ Idle(i)
     /\ p = <<SendStep(i, Msg("Exit")), OtherStep("waitAll", i), OtherStep("join", i)>>
  \/ /\ Leaving(i)
     /\ \/ p = <<OtherStep("waitAll", i), OtherStep("join", i)>>
        \/ p = <<OtherStep("acquire", i), OtherStep("join", i)>>
        \/ p = <<OtherStep("join", i)>>

\* The call of the UI thread is between two instances, or there is none.
Between(p) ==
  p = <<>> \/ \E T \in {"EmuPause", "EmuUnpause"}, L \in SUBSET Instances :
                p = <<BroadcastStep(L, T)>>

Engaged(i) ==
  /\ \A j \in Instances \ {i} : AtRest(j)
  /\ Phase(i, prog[UI]) \/ (dialog = None /\ Exits(i, prog[UI]))

Protocol ==
  /\ \A i \in Instances : prog[i] = <<>>
  /\ dialog # None => pc[dialog] # "ended"
  /\ \/ Between(prog[UI]) /\ \A j \in Instances : AtRest(j)
     \/ \E i \in Instances : Engaged(i)

-----------------------------------------------------------------------------
(* A dialog: the instances that emuPause has been through stand still. *)

Still(i) == pc[i] # "frame" /\ (pc[i] = "ended" \/ emu[i].status = "Paused")

Stopping ==
  dialog # None =>
    \/ prog[UI] = <<>> /\ \A j \in Instances : Still(j)
    \/ \E L \in SUBSET Instances :
         \/ prog[UI] = <<BroadcastStep(L, "EmuPause")>> /\ \A j \in Instances \ L : Still(j)
         \/ \E i \in Instances :
              /\ \A j \in Instances \ (L \cup {i}) : Still(j)
              /\ \/ prog[UI] = <<SendStep(i, Msg("EmuPause")), WaitStep(i, 1),
                                 BroadcastStep(L, "EmuPause")>>
                 \/ /\ prog[UI] = <<WaitStep(i, 1), BroadcastStep(L, "EmuPause")>>
                    /\ sem[i] = 1 => Still(i)

-----------------------------------------------------------------------------
(* Every message and every step of a program has its type. *)

\* The kinds of messages in C are all that threads send: frames are stepped
\* only by a hotkey or by the menu.
AllKinds(C) ==
  /\ C \subseteq Controls /\ Stepless \subseteq C
  /\ "EmuFrameStep" \in C \/ Ops \cap {"Hotkeys", "FrameStep"} = {}

\* The primitive steps have their types (EmuThread.cpp:457-475).
LEMMA StepTypes ==
  ASSUME NEW C, NEW i \in Instances
  PROVE  /\ \A m \in MessageOf(C) : Send(i, m) \in Seq(StepOf(C))
         /\ \A n \in {1, 2} : Wait(i, n) \in Seq(StepOf(C))
         /\ \A d \in {"waitAll", "acquire", "context", "returnGL", "join"} :
              Step(d, i) \in Seq(StepOf(C))
         /\ \A c \in 0 .. MaxCalls : Read(i, c) \in Seq(StepOf(C))
         /\ \A T \in C : Msg(T) \in MessageOf(C)
         /\ \A c \in 0 .. MaxCalls : Command(c) \in MessageOf(C)
<1>1. \A m \in MessageOf(C) : Send(i, m) \in Seq(StepOf(C))
  <2> TAKE m \in MessageOf(C)
  <2>1. [do |-> "send", to |-> i, msg |-> m] \in StepOf(C)
    BY DEF StepOf
  <2> QED BY <2>1 DEF Send
<1>2. \A n \in {1, 2} : Wait(i, n) \in Seq(StepOf(C))
  <2> TAKE n \in {1, 2}
  <2>1. [do |-> "wait", to |-> i, num |-> n] \in StepOf(C)
    BY DEF StepOf
  <2> QED BY <2>1 DEF Wait
<1>3. \A d \in {"waitAll", "acquire", "context", "returnGL", "join"} :
        Step(d, i) \in Seq(StepOf(C))
  <2> TAKE d \in {"waitAll", "acquire", "context", "returnGL", "join"}
  <2>1. [do |-> d, to |-> i] \in StepOf(C)
    BY DEF StepOf
  <2> QED BY <2>1 DEF Step
<1>4. \A c \in 0 .. MaxCalls : Read(i, c) \in Seq(StepOf(C))
  <2> TAKE c \in 0 .. MaxCalls
  <2>1. [do |-> "read", to |-> i, cmd |-> c] \in StepOf(C)
    BY DEF StepOf
  <2> QED BY <2>1 DEF Read
<1>5. \A T \in C : Msg(T) \in MessageOf(C)
  BY OpsAssumption DEF Msg, MessageOf
<1>6. \A c \in 0 .. MaxCalls : Command(c) \in MessageOf(C)
  BY DEF Command, MessageOf
<1> QED BY <1>1, <1>2, <1>3, <1>4, <1>5, <1>6

\* broadcastInstanceCommand goes on with what is left (main.cpp:171-180).
LEMMA BroadcastTypes ==
  ASSUME NEW C, NEW L \in SUBSET Instances, NEW T \in C
  PROVE  BroadcastTo(L, T) \in Seq(StepOf(C))
<1>1. [do |-> "broadcast", left |-> L, type |-> T] \in StepOf(C)
  BY DEF StepOf
<1> QED BY <1>1 DEF BroadcastTo

\* A sequence of well-typed steps is put together from well-typed ones.
LEMMA JoinTypes ==
  ASSUME NEW S, NEW s \in Seq(S), NEW t \in Seq(S)
  PROVE  s \o t \in Seq(S)
  OBVIOUS

\* The programs of the API calls have their types (EmuThread.cpp:682-858).
LEMMA CallTypes ==
  ASSUME NEW C, AllKinds(C), NEW i \in Instances, NEW c \in 0 .. MaxCalls
  PROVE  /\ \A T \in C : Call(i, T) \in Seq(StepOf(C))
         /\ emuPause(i) \in Seq(StepOf(C)) /\ emuUnpause(i) \in Seq(StepOf(C))
         /\ emuTogglePause(i) \in Seq(StepOf(C))
         /\ Ops \cap {"Hotkeys", "FrameStep"} # {} => emuFrameStep(i) \in Seq(StepOf(C))
         /\ emuReset(i) \in Seq(StepOf(C)) /\ emuExit(i) \in Seq(StepOf(C))
         /\ bootROM(i, c) \in Seq(StepOf(C)) /\ resultCommand(i, c) \in Seq(StepOf(C))
         /\ importSavefile(i, c) \in Seq(StepOf(C)) /\ borrowGL(i) \in Seq(StepOf(C))
<1> DEFINE S == StepOf(C)
<1>0. C \subseteq Controls /\ Stepless \subseteq C
  BY DEF AllKinds
<1>1. /\ "Exit" \in C /\ "EmuRun" \in C /\ "EmuPause" \in C /\ "EmuUnpause" \in C
      /\ "EmuStop" \in C /\ "EmuReset" \in C /\ "BorrowGL" \in C /\ "Plain" \in C
  BY <1>0 DEF Stepless, Controls
<1>2. \A T \in C : Send(i, Msg(T)) \in Seq(S)
  BY StepTypes
<1>3. Send(i, Command(c)) \in Seq(S) /\ Read(i, c) \in Seq(S)
  BY StepTypes
<1>4. Wait(i, 1) \in Seq(S) /\ Wait(i, 2) \in Seq(S)
  BY StepTypes
<1>5. /\ Step("waitAll", i) \in Seq(S) /\ Step("join", i) \in Seq(S)
      /\ Step("context", i) \in Seq(S) /\ Step("returnGL", i) \in Seq(S)
  BY StepTypes
<1>6. \A T \in C : BroadcastTo(Instances \ {i}, T) \in Seq(S)
  BY BroadcastTypes
<1> HIDE DEF S
<1>7. \A T \in C : Call(i, T) \in Seq(S)
  BY <1>2, <1>4, JoinTypes DEF Call
<1>8. \A T \in C : Broadcast(i, T) \in Seq(S)
  BY <1>6, <1>7, JoinTypes DEF Broadcast
<1>9. emuPause(i) \in Seq(S) /\ emuUnpause(i) \in Seq(S)
  BY <1>1, <1>8 DEF emuPause, emuUnpause
<1>10. emuTogglePause(i) \in Seq(S)
  BY <1>9 DEF emuTogglePause
<1>11. ASSUME Ops \cap {"Hotkeys", "FrameStep"} # {} PROVE emuFrameStep(i) \in Seq(S)
  <2>1. "EmuFrameStep" \in C
    BY <1>11 DEF AllKinds
  <2>2. <<>> \in Seq(S)
    OBVIOUS
  <2>3. Send(i, Msg("EmuPause")) \in Seq(S) /\ Send(i, Msg("EmuFrameStep")) \in Seq(S)
    BY <1>1, <1>2, <2>1
  <2> QED BY <1>5, <2>2, <2>3, JoinTypes DEF emuFrameStep
<1>12. emuReset(i) \in Seq(S)
  BY <1>1, <1>7 DEF emuReset
<1>13. emuExit(i) \in Seq(S)
  BY <1>1, <1>2, <1>5, JoinTypes DEF emuExit
<1>14. bootROM(i, c) \in Seq(S)
  BY <1>1, <1>3, <1>4, <1>7, JoinTypes DEF bootROM
<1>15. resultCommand(i, c) \in Seq(S)
  BY <1>3, <1>4, JoinTypes DEF resultCommand
<1>16. importSavefile(i, c) \in Seq(S)
  BY <1>1, <1>2, <1>3, <1>4, JoinTypes DEF importSavefile
<1>17. borrowGL(i) \in Seq(S)
  BY <1>1, <1>5, <1>7, JoinTypes DEF borrowGL
<1> QED BY <1>7, <1>9, <1>10, <1>11, <1>12, <1>13, <1>14, <1>15, <1>16, <1>17 DEF S

\* The next step of a working thread, by what it does.
LEMMA NowTypes ==
  ASSUME NEW C, Types(C), NEW t \in Threads, Working(t)
  PROVE  /\ Now(t) \in StepOf(C) /\ Tail(prog[t]) \in Seq(StepOf(C))
         /\ Now(t).do # "broadcast" => Now(t).to \in Instances
         /\ Now(t).do = "send" => Now(t).msg \in MessageOf(C)
         /\ Now(t).do = "wait" => Now(t).num \in {1, 2}
         /\ Now(t).do = "broadcast" => Now(t).left \subseteq Instances /\ Now(t).type \in C
<1>1. prog[t] \in Seq(StepOf(C)) /\ prog[t] # <<>>
  BY DEF Types, Working
<1>2. Head(prog[t]) \in StepOf(C) /\ Tail(prog[t]) \in Seq(StepOf(C))
  BY <1>1
<1> QED BY <1>2 DEF Now, StepOf

\* A step of a thread's program keeps the types.
LEMMA RunTypes ==
  ASSUME NEW C, AllKinds(C), Types(C), NEW t \in Threads, Run(t)
  PROVE  Types(C)'
<1> DEFINE S == StepOf(C)
<1>0. Working(t)
  BY DEF Run, sendMessage, waitMessage, waitAllMessages, ReadResult,
         broadcastInstanceCommand, CreateContext, returnGL, JoinThread
<1>1. /\ Now(t) \in S /\ Tail(prog[t]) \in Seq(S)
      /\ Now(t).do # "broadcast" => Now(t).to \in Instances
      /\ Now(t).do = "send" => Now(t).msg \in MessageOf(C)
      /\ Now(t).do = "wait" => Now(t).num \in {1, 2}
      /\ Now(t).do = "broadcast" => Now(t).left \subseteq Instances /\ Now(t).type \in C
  BY <1>0, NowTypes
<1>2. prog \in [Threads -> Seq(S)]
  BY DEF Types
<1>3. \A p \in Seq(S) : [prog EXCEPT ![t] = p] \in [Threads -> Seq(S)]
  BY <1>2
<1>4. Advance(t) => prog' \in [Threads -> Seq(S)]
  BY <1>1, <1>3 DEF Advance
<1> HIDE DEF S
<1>5. CASE sendMessage(t)
  <2>1. queue' \in [Instances -> Seq(MessageOf(C))]
    BY <1>1, <1>5 DEF sendMessage, Types
  <2> QED BY <1>4, <1>5, <2>1 DEF sendMessage, Types, window, S
<1>6. CASE waitMessage(t)
  <2> DEFINE i == Now(t).to  n == Now(t).num
  <2>0. i \in Instances /\ n \in Nat /\ sem \in [Instances -> Nat]
    BY <1>1, <1>6 DEF waitMessage, Types
  <2>1. sem' \in [Instances -> Nat]
    <3>1. sem' = sem \/ (sem[i] >= n /\ sem' = [sem EXCEPT ![i] = @ - n])
      BY <1>6 DEF waitMessage, Enough
    <3> HIDE DEF i, n
    <3>2. sem[i] >= n => sem[i] - n \in Nat
      BY <2>0
    <3> QED BY <2>0, <3>1, <3>2
  <2> QED BY <1>4, <1>6, <2>1 DEF waitMessage, Types, window, S
<1>7. CASE waitAllMessages(t)
  <2>1. Now(t).to \in Instances /\ Now(t).do \in {"waitAll", "acquire"}
    BY <1>1, <1>7 DEF waitAllMessages
  <2>2. sem' \in [Instances -> Nat]
    <3> DEFINE i == Now(t).to
    <3>0. i \in Instances /\ sem \in [Instances -> Nat]
      BY <2>1 DEF Types
    <3>1. sem' = sem \/ (sem[i] > 0 /\ sem' = [sem EXCEPT ![i] = @ - 1])
      BY <1>7 DEF waitAllMessages
    <3> HIDE DEF i
    <3>2. sem[i] > 0 => sem[i] - 1 \in Nat
      BY <3>0
    <3> QED BY <3>0, <3>1, <3>2
  <2>3. Step("waitAll", Now(t).to) \in Seq(S) /\ Step("acquire", Now(t).to) \in Seq(S)
    BY <2>1, StepTypes DEF S
  <2>4. /\ Step("waitAll", Now(t).to) \o Tail(prog[t]) \in Seq(S)
        /\ Step("acquire", Now(t).to) \o Tail(prog[t]) \in Seq(S)
    BY <1>1, <2>3, JoinTypes
  <2>5. prog' \in [Threads -> Seq(S)]
    BY <1>1, <1>3, <1>7, <2>4 DEF waitAllMessages
  <2> QED BY <1>7, <2>2, <2>5 DEF waitAllMessages, Types, window, S
<1>8. CASE ReadResult(t)
  <2>1. <<>> \in Seq(S)
    OBVIOUS
  <2>2. prog' \in [Threads -> Seq(S)]
    BY <1>1, <1>3, <1>8, <2>1 DEF ReadResult
  <2> QED BY <1>8, <2>2 DEF ReadResult, Types, loop, window, S
<1>9. CASE broadcastInstanceCommand(t)
  <2> DEFINE A == {j \in Now(t).left : Alive(j)}
  <2>1. A \subseteq Instances /\ Now(t).type \in C
    BY <1>1, <1>9 DEF broadcastInstanceCommand
  <2>2. ASSUME NEW j \in A
        PROVE  Call(j, Now(t).type) \o BroadcastTo(A \ {j}, Now(t).type) \o Tail(prog[t])
                 \in Seq(S)
    <3>1. j \in Instances /\ A \ {j} \in SUBSET Instances
      BY <2>1
    <3>2. 0 \in 0 .. MaxCalls
      BY OpsAssumption
    <3>3. Call(j, Now(t).type) \in Seq(S)
      BY <2>1, <3>1, <3>2, CallTypes DEF S
    <3> HIDE DEF A
    <3>4. BroadcastTo(A \ {j}, Now(t).type) \in Seq(S)
      BY <2>1, <3>1, BroadcastTypes DEF S
    <3> QED BY <1>1, <3>3, <3>4, JoinTypes
  <2>3. Advance(t) \/ \E j \in A : prog' = [prog EXCEPT ![t] =
          Call(j, Now(t).type) \o BroadcastTo(A \ {j}, Now(t).type) \o Tail(@)]
    BY <1>9 DEF broadcastInstanceCommand
  <2> HIDE DEF A
  <2>4. prog' \in [Threads -> Seq(S)]
    BY <1>3, <1>4, <2>2, <2>3
  <2>5. stray' = stray \/ \E j \in A : stray' = stray \cup {j}
    BY <1>9 DEF broadcastInstanceCommand, A
  <2>6. stray' \subseteq Instances
    BY <2>1, <2>5 DEF Types
  <2> QED BY <1>9, <2>4, <2>6 DEF broadcastInstanceCommand, Types, loop, window, S
<1>10. CASE CreateContext(t)
  BY <1>4, <1>10 DEF CreateContext, Types, loop, window, S
<1>11. CASE returnGL(t)
  <2>1. pc' \in [Instances -> Places]
    BY <1>1, <1>11 DEF returnGL, Types, Places, LoopTest
  <2> QED BY <1>4, <1>11, <2>1 DEF returnGL, Types, window, S
<1>12. CASE JoinThread(t)
  BY <1>4, <1>12 DEF JoinThread, Types, loop, window, S
<1> QED BY <1>5, <1>6, <1>7, <1>8, <1>9, <1>10, <1>11, <1>12 DEF Run

\* The pause stack and the status keep their types (EmuThread.cpp:485-663).
LEMMA AfterTypes ==
  ASSUME NEW e \in Emulator, NEW type
  PROVE  After(e, type) \in Emulator
<1>0. e.stack \in Nat /\ e.status \in Statuses /\ e.prev \in Statuses
  BY DEF Emulator
<1>1. Paused(e) \in Emulator
  <2>1. e.stack + 1 \in Nat
    BY <1>0
  <2>2. [e EXCEPT !.stack = e.stack + 1] \in Emulator
    BY <2>1 DEF Emulator
  <2>3. [e EXCEPT !.stack = e.stack + 1, !.prev = e.status, !.status = "Paused"] \in Emulator
    BY <1>0, <2>1 DEF Emulator, Statuses
  <2> QED BY <2>2, <2>3 DEF Paused
<1>2. Unpaused(e) \in Emulator
  <2>1. CASE e.stack < 1
    <3>1. Unpaused(e) = e
      BY <1>0, <2>1 DEF Unpaused, PauseThreshold
    <3> QED BY <3>1
  <2>2. CASE e.stack > 1
    <3>1. e.stack - 1 \in Nat
      BY <1>0, <2>2
    <3>2. Unpaused(e) = [e EXCEPT !.stack = e.stack - 1]
      BY <1>0, <2>2 DEF Unpaused, PauseThreshold
    <3>3. [e EXCEPT !.stack = e.stack - 1] \in Emulator
      BY <3>1 DEF Emulator
    <3> QED BY <3>2, <3>3
  <2>3. CASE e.stack = 1
    <3>1. e.stack - 1 \in Nat
      BY <2>3
    <3>2. Unpaused(e) = [e EXCEPT !.stack = e.stack - 1, !.status = e.prev]
      BY <2>3 DEF Unpaused, PauseThreshold
    <3>3. [e EXCEPT !.stack = e.stack - 1, !.status = e.prev] \in Emulator
      BY <1>0, <3>1 DEF Emulator
    <3> QED BY <3>2, <3>3
  <2> QED BY <1>0, <2>1, <2>2, <2>3
<1>3. Started(e) \in Emulator
  BY DEF Started, Emulator, Statuses
<1>4. [e EXCEPT !.status = "Exit", !.stack = 0] \in Emulator
  BY DEF Emulator, Statuses
<1>5. [e EXCEPT !.status = "Paused", !.active = FALSE] \in Emulator
  BY DEF Emulator, Statuses
<1>6. [e EXCEPT !.status = "FrameStep"] \in Emulator
  BY DEF Emulator, Statuses
<1> QED BY <1>1, <1>2, <1>3, <1>4, <1>5, <1>6 DEF After

\* The loop of an emulation thread keeps the types.
LEMMA LoopTypes ==
  ASSUME NEW C, AllKinds(C), Types(C), NEW i \in Instances,
         Turn(i) \/ FrameOver(i) \/ TakeMessage(i) \/ HandleMessage(i)
           \/ MessagesDone(i) \/ AwaitGL(i)
  PROVE  Types(C)'
<1>1. CASE Turn(i)
  <2>0. emu \in [Instances -> Emulator]
    BY DEF Types
  <2>1. emu' \in [Instances -> Emulator]
    <3> DEFINE e == [emu[i] EXCEPT !.status = IF emu[i].status = "FrameStep" THEN "Paused"
                                              ELSE emu[i].status]
    <3>1. e \in Emulator
      BY <2>0 DEF Emulator, Statuses
    <3>2. emu' = [emu EXCEPT ![i] = e]
      BY <1>1 DEF Turn
    <3> HIDE DEF e
    <3> QED BY <2>0, <3>1, <3>2
  <2>2. pc' \in [Instances -> Places]
    BY <1>1 DEF Turn, Types, Places
  <2> QED BY <1>1, <2>1, <2>2 DEF Turn, Types, window
<1>2. CASE FrameOver(i)
  <2>1. pc' \in [Instances -> Places]
    BY <1>2 DEF FrameOver, Types, Places
  <2> QED BY <1>2, <2>1 DEF FrameOver, Types, window
<1>3. CASE TakeMessage(i)
  <2>1. pc' \in [Instances -> Places]
    BY <1>3 DEF TakeMessage, Types, Places
  <2>2. queue[i] \in Seq(MessageOf(C)) /\ queue[i] # <<>>
    BY <1>3 DEF TakeMessage, Types
  <2>3. Head(queue[i]) \in MessageOf(C) /\ Tail(queue[i]) \in Seq(MessageOf(C))
    BY <2>2
  <2>4. cur' \in [Instances -> MessageOf(C) \cup {None}]
    BY <1>3, <2>3 DEF TakeMessage, Types
  <2>5. queue' \in [Instances -> Seq(MessageOf(C))]
    BY <1>3, <2>3 DEF TakeMessage, Types
  <2> QED BY <1>3, <2>1, <2>4, <2>5 DEF TakeMessage, Types, window
<1>4. CASE HandleMessage(i)
  <2>1. emu' \in [Instances -> Emulator]
    BY <1>4, AfterTypes DEF HandleMessage, Types
  <2>2. borrowed' \in [Instances -> BOOLEAN]
    BY <1>4 DEF HandleMessage, Types
  <2>3. cur[i] \in MessageOf(C)
    BY <1>4 DEF HandleMessage, Types
  <2> DEFINE Results == [cmd : 0 .. MaxCalls, ok : BOOLEAN]
  <2>7. cur[i].cmd \in 0 .. MaxCalls
    BY <2>3 DEF MessageOf
  <2>8. \A ok \in BOOLEAN : [cmd |-> cur[i].cmd, ok |-> ok] \in Results
    BY <2>7
  <2>9. result \in [Instances -> Results]
    BY DEF Types
  <2>10. result' = result \/ \E ok \in BOOLEAN :
           result' = [result EXCEPT ![i] = [cmd |-> cur[i].cmd, ok |-> ok]]
    BY <1>4 DEF HandleMessage
  <2> HIDE DEF Results
  <2>4. result' \in [Instances -> Results]
    BY <2>8, <2>9, <2>10
  <2>5. sem' \in [Instances -> Nat]
    BY <1>4 DEF HandleMessage, Types, Released
  <2>6. cur' \in [Instances -> MessageOf(C) \cup {None}]
    BY <1>4 DEF HandleMessage, Types
  <2>11. checked' \in [Instances -> BOOLEAN]
    <3>1. PICK m : m = Marked(checked[i], emu[i], cur[i].type)
      OBVIOUS
    <3>2. checked \in [Instances -> BOOLEAN]
      BY DEF Types
    <3>3. m \in BOOLEAN
      BY <3>1, <3>2 DEF Marked
    <3>4. checked' = [checked EXCEPT ![i] = m]
      BY <1>4, <3>1 DEF HandleMessage
    <3> QED BY <3>2, <3>3, <3>4, Zenon
  <2> QED BY <1>4, <2>1, <2>2, <2>4, <2>5, <2>6, <2>11 DEF HandleMessage, Types, window, Results
<1>5. CASE MessagesDone(i)
  <2>1. pc' \in [Instances -> Places]
    BY <1>5 DEF MessagesDone, Types, Places, LoopTest
  <2> QED BY <1>5, <2>1 DEF MessagesDone, Types, window
<1>6. CASE AwaitGL(i)
  <2>1. pc' \in [Instances -> Places]
    BY <1>6 DEF AwaitGL, Types, Places
  <2> QED BY <1>6, <2>1 DEF AwaitGL, Types, window
<1> QED BY <1>1, <1>2, <1>3, <1>4, <1>5, <1>6

\* A call of the UI thread keeps the types if its program has them.
LEMMA UICallTypes ==
  ASSUME NEW C, Types(C), NEW p \in Seq(StepOf(C)), UICall(p),
         dialog' \in Instances \cup {None}, manual' \in [Instances -> BOOLEAN],
         inactive' \subseteq Instances, checked' \in [Instances -> BOOLEAN],
         stray' \subseteq Instances
  PROVE  Types(C)'
<1>1. prog' \in [Threads -> Seq(StepOf(C))]
  BY DEF UICall, Types
<1>2. calls' \in 0 .. MaxCalls
  BY OpsAssumption DEF UICall, Types
<1> QED BY <1>1, <1>2 DEF UICall, Types, loop

\* What the user does keeps the types.
LEMMA UserTypes ==
  ASSUME NEW C, AllKinds(C), Types(C), UserAction
  PROVE  Types(C)'
<1>0. 0 \in 0 .. MaxCalls /\ (calls < MaxCalls => calls + 1 \in 0 .. MaxCalls)
  BY OpsAssumption DEF Types
<1> DEFINE W(i) == /\ emuPause(i) \in Seq(StepOf(C)) /\ emuUnpause(i) \in Seq(StepOf(C))
                   /\ emuTogglePause(i) \in Seq(StepOf(C))
<1>1. \A i \in Instances : W(i)
  BY <1>0, CallTypes
<1>2. dialog \in Instances \cup {None} /\ manual \in [Instances -> BOOLEAN]
        /\ inactive \subseteq Instances
  /\ checked \in [Instances -> BOOLEAN] /\ stray \subseteq Instances
  BY DEF Types
<1>3. CASE CloseDialog
  <2>1. dialog \in Instances
    BY <1>2, <1>3 DEF CloseDialog, Counted
  <2>2. emuUnpause(dialog) \in Seq(StepOf(C)) /\ UICall(emuUnpause(dialog))
    BY <1>1, <1>3, <2>1 DEF CloseDialog, Counted
  <2>3. /\ dialog' \in Instances \cup {None} /\ manual' \in [Instances -> BOOLEAN]
        /\ inactive' \subseteq Instances
         /\ checked' \in [Instances -> BOOLEAN] /\ stray' \subseteq Instances
    BY <1>2, <1>3 DEF CloseDialog, Counted
  <2> QED BY <2>2, <2>3, UICallTypes
<1>4. ASSUME NEW i \in Instances, OpenDialog(i) PROVE Types(C)'
  <2>1. emuPause(i) \in Seq(StepOf(C)) /\ UICall(emuPause(i))
    BY <1>1, <1>4 DEF OpenDialog, Counted
  <2>2. /\ dialog' \in Instances \cup {None} /\ manual' \in [Instances -> BOOLEAN]
        /\ inactive' \subseteq Instances
         /\ checked' \in [Instances -> BOOLEAN] /\ stray' \subseteq Instances
    BY <1>2, <1>4 DEF OpenDialog, Counted
  <2> QED BY <2>1, <2>2, UICallTypes
<1>5. ASSUME NEW i \in Instances, MenuPause(i) PROVE Types(C)'
  <2> DEFINE p == IF checked[i] THEN emuUnpause(i) ELSE emuPause(i)
  <2>1. p \in Seq(StepOf(C)) /\ UICall(p)
    BY <1>1, <1>5 DEF MenuPause, Counted
  <2>2. manual' \in [Instances -> BOOLEAN] /\ checked' \in [Instances -> BOOLEAN]
    BY <1>2, <1>5, Zenon DEF MenuPause
  <2>3. /\ dialog' \in Instances \cup {None} /\ inactive' \subseteq Instances
        /\ stray' \subseteq Instances
    BY <1>2, <1>5 DEF MenuPause, Counted
  <2> QED BY <2>1, <2>2, <2>3, UICallTypes
<1>6. ASSUME NEW i \in Instances, MenuCommand(i) PROVE Types(C)'
  <2> DEFINE c == calls + 1
  <2>1. calls < MaxCalls
    BY <1>6 DEF MenuCommand, Counted, Uncounted, UICall
  <2>2. c \in 0 .. MaxCalls /\ "Plain" \in C /\ "EmuStop" \in C
    BY <1>0, <2>1 DEF AllKinds, Stepless, Controls
  <2>3. \E p \in {bootROM(i, c), resultCommand(i, c), importSavefile(i, c),
                  Call(i, "Plain"), emuReset(i), Call(i, "EmuStop"), borrowGL(i),
                  emuExit(i)} \cup (IF "FrameStep" \in Ops THEN {emuFrameStep(i)} ELSE {}) :
          UICall(p)
    BY <1>6 DEF MenuCommand, Counted, Uncounted
  <2> HIDE DEF c
  <2>4. /\ \A T \in C : Call(i, T) \in Seq(StepOf(C))
        /\ Ops \cap {"Hotkeys", "FrameStep"} # {} => emuFrameStep(i) \in Seq(StepOf(C))
        /\ emuReset(i) \in Seq(StepOf(C)) /\ emuExit(i) \in Seq(StepOf(C))
        /\ bootROM(i, c) \in Seq(StepOf(C)) /\ resultCommand(i, c) \in Seq(StepOf(C))
        /\ importSavefile(i, c) \in Seq(StepOf(C)) /\ borrowGL(i) \in Seq(StepOf(C))
    BY <2>2, CallTypes
  <2>5. \E p \in Seq(StepOf(C)) : UICall(p)
    BY <2>2, <2>3, <2>4
  <2>6. /\ dialog' \in Instances \cup {None} /\ manual' \in [Instances -> BOOLEAN]
        /\ inactive' \subseteq Instances
         /\ checked' \in [Instances -> BOOLEAN] /\ stray' \subseteq Instances
    BY <1>2, <1>6 DEF MenuCommand, Counted, Uncounted, window
  <2> QED BY <2>5, <2>6, UICallTypes
<1>7. ASSUME NEW i \in Instances, LoseFocus(i) PROVE Types(C)'
  <2>1. /\ dialog' \in Instances \cup {None} /\ manual' \in [Instances -> BOOLEAN]
        /\ inactive' \subseteq Instances /\ checked' \in [Instances -> BOOLEAN]
        /\ stray' \subseteq Instances
    BY <1>2, <1>7 DEF LoseFocus, Counted, NoCall
  <2>2. CASE NoCall
    BY <2>1, <2>2 DEF NoCall, Types, loop
  <2>3. CASE Counted(emuPause(i))
    BY <1>1, <2>1, <2>3, UICallTypes DEF Counted
  <2> QED BY <1>7, <2>2, <2>3 DEF LoseFocus
<1>8. ASSUME NEW i \in Instances, GetFocus(i) PROVE Types(C)'
  <2>1. /\ dialog' \in Instances \cup {None} /\ manual' \in [Instances -> BOOLEAN]
        /\ inactive' \subseteq Instances /\ checked' \in [Instances -> BOOLEAN]
        /\ stray' \subseteq Instances
    BY <1>2, <1>8 DEF GetFocus, Counted, NoCall
  <2>2. CASE NoCall
    BY <2>1, <2>2 DEF NoCall, Types, loop
  <2>3. CASE Counted(emuUnpause(i))
    BY <1>1, <2>1, <2>3, UICallTypes DEF Counted
  <2> QED BY <1>8, <2>2, <2>3 DEF GetFocus
<1> QED BY <1>3, <1>4, <1>5, <1>6, <1>7, <1>8 DEF UserAction

\* The calls an emulation thread makes itself keep the types.
LEMMA OwnCallTypes ==
  ASSUME NEW C, AllKinds(C), Types(C), NEW i \in Instances, Hotkeys(i) \/ PowerOff(i)
  PROVE  Types(C)'
<1>0. 0 \in 0 .. MaxCalls /\ i \in Threads /\ "EmuStop" \in C
  BY OpsAssumption DEF Threads, AllKinds, Stepless, Controls
<1>1. /\ emuTogglePause(i) \in Seq(StepOf(C)) /\ emuReset(i) \in Seq(StepOf(C))
      /\ Ops \cap {"Hotkeys", "FrameStep"} # {} => emuFrameStep(i) \in Seq(StepOf(C))
      /\ \A T \in C : Call(i, T) \in Seq(StepOf(C))
  BY <1>0, CallTypes
<1>2. calls' \in 0 .. MaxCalls
  <2>1. calls < MaxCalls /\ calls' = calls + 1
    BY DEF Hotkeys, PowerOff
  <2>2. calls \in 0 .. MaxCalls
    BY DEF Types
  <2> QED BY <2>1, <2>2, OpsAssumption
<1>3. prog \in [Threads -> Seq(StepOf(C))]
  BY DEF Types
<1>4. CASE Hotkeys(i)
  <2>1. PICK pressed \in (SUBSET {"Pause", "Reset", "FrameStep"}) \ {{}} :
         prog' = [prog EXCEPT ![i] =
           (IF "Pause" \in pressed THEN emuTogglePause(i) ELSE <<>>)
           \o (IF "Reset" \in pressed THEN emuReset(i) ELSE <<>>)
           \o (IF "FrameStep" \in pressed THEN emuFrameStep(i) ELSE <<>>)]
    BY <1>4 DEF Hotkeys
  <2> DEFINE S == StepOf(C)
             a == IF "Pause" \in pressed THEN emuTogglePause(i) ELSE <<>>
             b == IF "Reset" \in pressed THEN emuReset(i) ELSE <<>>
             f == IF "FrameStep" \in pressed THEN emuFrameStep(i) ELSE <<>>
  <2>2. "Hotkeys" \in Ops
    BY <1>4 DEF Hotkeys
  <2>3. emuFrameStep(i) \in Seq(S)
    BY <1>1, <2>2
  <2>4. a \in Seq(S) /\ b \in Seq(S) /\ f \in Seq(S)
    BY <1>1, <2>3
  <2>5. prog' = [prog EXCEPT ![i] = a \o b \o f]
    BY <2>1
  <2> HIDE DEF S, a, b, f
  <2>6. a \o b \o f \in Seq(S)
    BY <2>4, JoinTypes
  <2>7. prog' \in [Threads -> Seq(S)]
    BY <1>3, <2>5, <2>6 DEF S
  <2>8. pc' \in [Instances -> Places]
    BY <1>4 DEF Hotkeys, Types, Places
  <2> QED BY <1>2, <1>4, <2>7, <2>8 DEF Hotkeys, Types, window, S
<1>5. CASE PowerOff(i)
  <2>1. prog' \in [Threads -> Seq(StepOf(C))]
    BY <1>0, <1>1, <1>3, <1>5 DEF PowerOff
  <2> QED BY <1>2, <1>5, <2>1 DEF PowerOff, Types, loop, window
<1> QED BY <1>4, <1>5

\* A fresh set of emulation threads has the types (EmuThread.cpp:62-69).
LEMMA InitTypes == ASSUME NEW C, Init PROVE Types(C)
<1>1. emu \in [Instances -> Emulator]
  BY DEF Init, Emulator, Statuses
<1>2. pc \in [Instances -> Places]
  BY DEF Init, Places
<1>3. queue \in [Instances -> Seq(MessageOf(C))] /\ prog \in [Threads -> Seq(StepOf(C))]
  BY DEF Init
<1>4. result \in [Instances -> [cmd : 0 .. MaxCalls, ok : BOOLEAN]]
  BY OpsAssumption DEF Init
<1>5. cur \in [Instances -> MessageOf(C) \cup {None}]
  BY DEF Init
<1>6. borrowed \in [Instances -> BOOLEAN] /\ sem \in [Instances -> Nat]
  BY DEF Init
<1>7. calls \in 0 .. MaxCalls
  BY OpsAssumption DEF Init
<1>8. /\ dialog \in Instances \cup {None} /\ manual \in [Instances -> BOOLEAN]
      /\ inactive \subseteq Instances
  /\ checked \in [Instances -> BOOLEAN] /\ stray \subseteq Instances
  BY DEF Init
<1> QED BY <1>1, <1>2, <1>3, <1>4, <1>5, <1>6, <1>7, <1>8 DEF Types

\* Every step keeps the types.
LEMMA NextTypes ==
  ASSUME NEW C, AllKinds(C), Types(C), [Next]_vars
  PROVE  Types(C)'
<1>1. CASE UNCHANGED vars
  BY <1>1 DEF vars, loop, window, Types
<1>2. CASE UserAction
  BY <1>2, UserTypes
<1>3. CASE Run(UI)
  BY <1>3, RunTypes DEF Threads
<1>4. ASSUME NEW i \in Instances, EmulationThread(i) PROVE Types(C)'
  <2>1. i \in Threads
    BY DEF Threads
  <2> QED BY <1>4, <2>1, RunTypes, LoopTypes DEF EmulationThread
<1>5. ASSUME NEW i \in Instances, Hotkeys(i) \/ PowerOff(i) PROVE Types(C)'
  BY <1>5, OwnCallTypes
<1> QED BY <1>1, <1>2, <1>3, <1>4, <1>5 DEF Next

\* Whatever calls the threads make, the messages, the programs, the credits
\* and the emulators keep their types.
THEOREM TypeInvariance == Spec => []Types(Controls)
<1>1. AllKinds(Controls)
  BY DEF AllKinds, Stepless, Controls
<1>2. Init => Types(Controls)
  BY InitTypes
<1>3. Types(Controls) /\ [Next]_vars => Types(Controls)'
  BY <1>1, NextTypes
<1> QED BY <1>2, <1>3, PTL DEF Spec

\* The type invariant of the module follows.
THEOREM TypeCorrect == Spec => []TypeOK
<1>1. Types(Controls) => TypeOK
  <2> SUFFICES ASSUME Types(Controls) PROVE TypeOK
    OBVIOUS
  <2>1. \A i \in Instances : \A k \in DOMAIN queue[i] : queue[i][k] \in Message
    <3> SUFFICES ASSUME NEW i \in Instances, NEW k \in DOMAIN queue[i]
                 PROVE  queue[i][k] \in Message
      OBVIOUS
    <3>1. queue[i] \in Seq(MessageOf(Controls))
      BY DEF Types
    <3>2. queue[i][k] \in MessageOf(Controls)
      BY <3>1
    <3> QED BY <3>2 DEF MessageOf, Message
  <2>2. \A t \in Threads : \A k \in DOMAIN prog[t] : prog[t][k].do \in Steps
    <3> SUFFICES ASSUME NEW t \in Threads, NEW k \in DOMAIN prog[t]
                 PROVE  prog[t][k].do \in Steps
      OBVIOUS
    <3>1. prog[t] \in Seq(StepOf(Controls))
      BY DEF Types
    <3>2. prog[t][k] \in StepOf(Controls)
      BY <3>1
    <3> QED BY <3>2 DEF StepOf, Steps
  <2>3. \A i \in Instances : cur[i] \in Message \cup {None}
    BY DEF Types, MessageOf, Message
  <2> QED BY <2>1, <2>2, <2>3 DEF Types, TypeOK, Emulator, Places
<1> QED BY <1>1, TypeInvariance, PTL

-----------------------------------------------------------------------------
(* A paused emulator has a pause to take back. *)

\* Handling a message keeps the pause stack and the status in step
\* (EmuThread.cpp:504-559).
LEMMA AfterStack ==
  ASSUME NEW e \in Emulator, StackOK(e), NEW type, type # "EmuFrameStep"
  PROVE  StackOK(After(e, type))
<1>0. /\ e.stack \in Nat /\ e.status \in Statuses /\ e.prev \in Statuses
      /\ e.active \in BOOLEAN
  BY DEF Emulator
<1>1. StackOK(Paused(e))
  <2>1. CASE e.stack = 0
    <3> DEFINE f == [e EXCEPT !.stack = e.stack + 1, !.prev = e.status, !.status = "Paused"]
    <3>1. Paused(e) = f
      BY <2>1 DEF Paused, PauseThreshold
    <3>2. /\ f.stack = 1 /\ f.prev = e.status /\ f.status = "Paused" /\ f.active = e.active
      BY <2>1 DEF Emulator
    <3>3. e.active => e.status # "Paused"
      BY <2>1 DEF StackOK
    <3> HIDE DEF f
    <3> QED BY <3>1, <3>2, <3>3 DEF StackOK
  <2>2. CASE e.stack >= 1
    <3> DEFINE f == [e EXCEPT !.stack = e.stack + 1]
    <3>1. Paused(e) = f
      BY <1>0, <2>2 DEF Paused, PauseThreshold
    <3>2. /\ f.stack = e.stack + 1 /\ f.prev = e.prev /\ f.status = e.status
          /\ f.active = e.active
      BY DEF Emulator
    <3>3. f.stack >= 1
      BY <1>0, <3>2
    <3> HIDE DEF f
    <3> QED BY <2>2, <3>1, <3>2, <3>3 DEF StackOK
  <2> QED BY <1>0, <2>1, <2>2
<1>2. StackOK(Unpaused(e))
  <2>1. CASE e.stack = 0
    <3>1. Unpaused(e) = e
      BY <2>1 DEF Unpaused, PauseThreshold
    <3> QED BY <3>1
  <2>2. CASE e.stack = 1
    <3> DEFINE f == [e EXCEPT !.stack = e.stack - 1, !.status = e.prev]
    <3>1. Unpaused(e) = f
      BY <2>2 DEF Unpaused, PauseThreshold
    <3>2. f.stack = 0 /\ f.prev = e.prev /\ f.status = e.prev /\ f.active = e.active
      BY <2>2 DEF Emulator
    <3>3. e.active => e.prev # "Paused"
      BY <2>2 DEF StackOK
    <3> HIDE DEF f
    <3> QED BY <3>1, <3>2, <3>3 DEF StackOK
  <2>3. CASE e.stack > 1
    <3> DEFINE f == [e EXCEPT !.stack = e.stack - 1]
    <3>1. Unpaused(e) = f
      BY <1>0, <2>3 DEF Unpaused, PauseThreshold
    <3>2. /\ f.stack = e.stack - 1 /\ f.prev = e.prev /\ f.status = e.status
          /\ f.active = e.active
      BY DEF Emulator
    <3>3. f.stack >= 1
      BY <1>0, <2>3, <3>2
    <3> HIDE DEF f
    <3> QED BY <1>0, <2>3, <3>1, <3>2, <3>3 DEF StackOK
  <2> QED BY <1>0, <2>1, <2>2, <2>3
<1>3. StackOK(Started(e))
  <2> DEFINE f == [e EXCEPT !.status = "Running", !.stack = 0, !.active = TRUE]
  <2>1. f.stack = 0 /\ f.prev = e.prev /\ f.status = "Running" /\ f.active = TRUE
    BY DEF Emulator
  <2> HIDE DEF f
  <2>2. StackOK(f)
    BY <2>1 DEF StackOK
  <2> QED BY <2>2 DEF Started, f
<1>4. StackOK([e EXCEPT !.status = "Exit", !.stack = 0])
  <2> DEFINE f == [e EXCEPT !.status = "Exit", !.stack = 0]
  <2>1. f.stack = 0 /\ f.prev = e.prev /\ f.status = "Exit" /\ f.active = e.active
    BY DEF Emulator
  <2> HIDE DEF f
  <2>2. StackOK(f)
    BY <2>1 DEF StackOK
  <2> QED BY <2>2 DEF f
<1>5. StackOK([e EXCEPT !.status = "Paused", !.active = FALSE])
  <2> DEFINE f == [e EXCEPT !.status = "Paused", !.active = FALSE]
  <2>1. f.stack = e.stack /\ f.prev = e.prev /\ f.status = "Paused" /\ f.active = FALSE
    BY DEF Emulator
  <2> HIDE DEF f
  <2>2. StackOK(f)
    BY <2>1 DEF StackOK
  <2> QED BY <2>2 DEF f
<1> QED BY <1>1, <1>2, <1>3, <1>4, <1>5 DEF After

\* Every step keeps the pause stacks when no message is a frame step.
LEMMA NextStacks ==
  ASSUME Types(Stepless), Stacks, [Next]_vars
  PROVE  Stacks'
<1>0. emu \in [Instances -> Emulator]
  BY DEF Types
<1>1. ASSUME UNCHANGED emu PROVE Stacks'
  BY <1>1 DEF Stacks
<1>2. ASSUME NEW i \in Instances, NEW e, StackOK(e), emu' = [emu EXCEPT ![i] = e]
      PROVE  Stacks'
  BY <1>0, <1>2 DEF Stacks
<1>3. CASE UNCHANGED vars
  BY <1>1, <1>3 DEF vars
<1>4. CASE UserAction
  <2>1. UNCHANGED emu
    BY <1>4 DEF UserAction, CloseDialog, OpenDialog, MenuPause, MenuCommand, LoseFocus,
                GetFocus, UICall, Counted, Uncounted, NoCall
  <2> QED BY <1>1, <2>1
<1>5. ASSUME NEW t, Run(t) PROVE Stacks'
  <2>1. UNCHANGED emu
    BY <1>5 DEF Run, sendMessage, waitMessage, waitAllMessages, ReadResult,
                broadcastInstanceCommand, CreateContext, returnGL, JoinThread
  <2> QED BY <1>1, <2>1
<1>6. ASSUME NEW i \in Instances, EmulationThread(i) PROVE Stacks'
  <2>1. CASE Turn(i)
    <3>1. emu[i].status # "FrameStep" /\ emu[i] \in Emulator
      BY <1>0 DEF Stacks, StackOK
    <3> DEFINE e == [emu[i] EXCEPT !.status = IF emu[i].status = "FrameStep" THEN "Paused"
                                              ELSE emu[i].status]
    <3>2. e = emu[i]
      BY <3>1 DEF Emulator
    <3>3. emu' = [emu EXCEPT ![i] = e]
      BY <2>1 DEF Turn
    <3>4. StackOK(emu[i])
      BY DEF Stacks
    <3> HIDE DEF e
    <3> QED BY <1>2, <3>2, <3>3, <3>4
  <2>2. CASE HandleMessage(i)
    <3>1. cur[i] \in MessageOf(Stepless)
      BY <2>2 DEF HandleMessage, Types
    <3>2. cur[i].type # "EmuFrameStep"
      BY <3>1 DEF MessageOf, Stepless
    <3>3. StackOK(After(emu[i], cur[i].type))
      BY <1>0, <3>2, AfterStack DEF Stacks
    <3> QED BY <1>2, <2>2, <3>3 DEF HandleMessage
  <2>3. ASSUME FrameOver(i) \/ TakeMessage(i) \/ MessagesDone(i) \/ AwaitGL(i)
        PROVE  Stacks'
    BY <1>1, <2>3 DEF FrameOver, TakeMessage, MessagesDone, AwaitGL
  <2> QED BY <1>5, <1>6, <2>1, <2>2, <2>3 DEF EmulationThread
<1>7. ASSUME NEW i \in Instances, Hotkeys(i) \/ PowerOff(i) PROVE Stacks'
  BY <1>1, <1>7 DEF Hotkeys, PowerOff
<1> QED BY <1>3, <1>4, <1>5, <1>6, <1>7 DEF Next

\* Emulators start with an empty stack.
LEMMA InitStacks == Init => Stacks
<1> DEFINE e == [status |-> "Paused", prev |-> "Paused", stack |-> 0, active |-> FALSE]
<1>1. StackOK(e)
  <2>1. e.status = "Paused" /\ e.prev = "Paused" /\ e.stack = 0 /\ e.active = FALSE
    OBVIOUS
  <2> HIDE DEF e
  <2> QED BY <2>1 DEF StackOK
<1>2. Init => emu = [i \in Instances |-> e]
  BY DEF Init
<1> HIDE DEF e
<1> QED BY <1>1, <1>2 DEF Stacks

\* As long as nobody steps frame by frame, the stacks are in step.
THEOREM StacksInvariance ==
  ASSUME Ops \cap {"Hotkeys", "FrameStep"} = {}
  PROVE  Spec => [](Types(Stepless) /\ Stacks)
<1>1. AllKinds(Stepless)
  BY DEF AllKinds, Stepless
<1>2. Init => Types(Stepless) /\ Stacks
  BY InitTypes, InitStacks
<1>3. Types(Stepless) /\ Stacks /\ [Next]_vars => (Types(Stepless) /\ Stacks)'
  BY <1>1, NextTypes, NextStacks
<1> QED BY <1>2, <1>3, PTL DEF Spec

\* An active emulator that is paused has a pause on its stack, whoever sent the
\* pauses, stops and resets and in whatever order they were handled
\* (EmuThread.cpp:504-559). With frame stepping it is not so: the status goes
\* back to paused at the end of the stepped frame whatever the stack is.
THEOREM PausedHasAPause ==
  ASSUME Ops \cap {"Hotkeys", "FrameStep"} = {}
  PROVE  Spec => []PausedIsOnStack
<1>1. Stacks => PausedIsOnStack
  BY DEF Stacks, StackOK, PausedIsOnStack, PauseThreshold
<1> QED BY <1>1, StacksInvariance, PTL

-----------------------------------------------------------------------------
(* The programs of the calls, written out. *)

\* Two short sequences put together.
LEMMA Pair ==
  ASSUME NEW a, NEW b
  PROVE  <<a>> \o <<b>> = <<a, b>> /\ Append(<<a>>, b) = <<a, b>>
<1> DEFINE S == {a, b}  s == <<a>>  t == <<b>>  u == <<a, b>>
<1>1. s \in Seq(S) /\ t \in Seq(S) /\ u \in Seq(S) /\ b \in S
  OBVIOUS
<1>2. Len(s) = 1 /\ Len(t) = 1 /\ Len(u) = 2
  OBVIOUS
<1>3. s \o t \in Seq(S) /\ Len(s \o t) = 2
  BY <1>1, <1>2, ConcatProperties
<1>4. \A k \in 1 .. 2 : (s \o t)[k] = u[k]
  BY <1>1, <1>2, ConcatProperties
<1>5. s \o t = u
  BY <1>1, <1>2, <1>3, <1>4, SeqEqual
<1>6. Append(s, b) \in Seq(S) /\ Len(Append(s, b)) = 2
  BY <1>1, <1>2
<1>7. \A k \in 1 .. 2 : Append(s, b)[k] = u[k]
  BY <1>1, <1>2
<1>8. Append(s, b) = u
  BY <1>1, <1>2, <1>6, <1>7, SeqEqual
<1> QED BY <1>5, <1>8

\* A pair and one more.
LEMMA Triple ==
  ASSUME NEW a, NEW b, NEW c
  PROVE  <<a, b>> \o <<c>> = <<a, b, c>> /\ <<a, b, c>> \o <<>> = <<a, b, c>>
<1> DEFINE S == {a, b, c}  s == <<a, b>>  t == <<c>>  u == <<a, b, c>>
<1>1. s \in Seq(S) /\ t \in Seq(S) /\ u \in Seq(S)
  OBVIOUS
<1>2. Len(s) = 2 /\ Len(t) = 1 /\ Len(u) = 3
  OBVIOUS
<1>3. s \o t \in Seq(S) /\ Len(s \o t) = 3
  BY <1>1, <1>2, ConcatProperties
<1>4. \A k \in 1 .. 3 : (s \o t)[k] = u[k]
  BY <1>1, <1>2, ConcatProperties
<1>5. s \o t = u
  BY <1>1, <1>2, <1>3, <1>4, SeqEqual
<1>6. u \o <<>> = u
  BY <1>1
<1> QED BY <1>5, <1>6

\* Three steps and one or two more.
LEMMA Longer ==
  ASSUME NEW a, NEW b, NEW c, NEW d, NEW e
  PROVE  /\ <<a, b, c>> \o <<d>> = <<a, b, c, d>>
         /\ <<a, b, c>> \o <<d, e>> = <<a, b, c, d, e>>
<1> DEFINE S == {a, b, c, d, e}  s == <<a, b, c>>  t == <<d>>  u == <<a, b, c, d>>
           v == <<d, e>>  w == <<a, b, c, d, e>>
<1>1. s \in Seq(S) /\ t \in Seq(S) /\ u \in Seq(S) /\ v \in Seq(S) /\ w \in Seq(S)
  OBVIOUS
<1>2. Len(s) = 3 /\ Len(t) = 1 /\ Len(u) = 4 /\ Len(v) = 2 /\ Len(w) = 5
  OBVIOUS
<1>3. s \o t \in Seq(S) /\ Len(s \o t) = 4 /\ s \o v \in Seq(S) /\ Len(s \o v) = 5
  BY <1>1, <1>2, ConcatProperties
<1>4. \A k \in 1 .. 4 : (s \o t)[k] = u[k]
  BY <1>1, <1>2, ConcatProperties
<1>5. \A k \in 1 .. 5 : (s \o v)[k] = w[k]
  BY <1>1, <1>2, ConcatProperties
<1>6. s \o t = u
  BY <1>1, <1>2, <1>3, <1>4, SeqEqual
<1>7. s \o v = w
  BY ZenonT(60), <1>1, <1>2, <1>3, <1>5, SeqEqual
<1> QED BY <1>6, <1>7

\* The calls of the UI thread, step by step (EmuThread.cpp:682-858).
LEMMA CallShapes ==
  ASSUME NEW i, NEW c, NEW T
  PROVE  /\ Call(i, T) = <<SendStep(i, Msg(T)), WaitStep(i, 1)>>
         /\ Broadcast(i, T) = <<SendStep(i, Msg(T)), WaitStep(i, 1),
                                BroadcastStep(Instances \ {i}, T)>>
         /\ resultCommand(i, c) = <<SendStep(i, Command(c)), WaitStep(i, 1), ReadStep(i, c)>>
         /\ bootROM(i, c) = <<SendStep(i, Command(c)), WaitStep(i, 1), ReadStep(i, c),
                              SendStep(i, Msg("EmuRun")), WaitStep(i, 1)>>
         /\ importSavefile(i, c) = <<SendStep(i, Msg("EmuReset")), SendStep(i, Command(c)),
                                     WaitStep(i, 2), ReadStep(i, c)>>
         /\ borrowGL(i) = <<SendStep(i, Msg("BorrowGL")), WaitStep(i, 1),
                            OtherStep("context", i), OtherStep("returnGL", i)>>
         /\ emuExit(i) = <<SendStep(i, Msg("Exit")), OtherStep("waitAll", i),
                           OtherStep("join", i)>>
<1>0. /\ \A m : Send(i, m) = <<SendStep(i, m)>>
      /\ \A n : Wait(i, n) = <<WaitStep(i, n)>>
      /\ \A d : Step(d, i) = <<OtherStep(d, i)>>
      /\ Read(i, c) = <<ReadStep(i, c)>>
      /\ \A L, U : BroadcastTo(L, U) = <<BroadcastStep(L, U)>>
  BY DEF Send, Wait, Step, Read, BroadcastTo, SendStep, WaitStep, OtherStep, ReadStep,
         BroadcastStep
<1>1. \A U : Call(i, U) = <<SendStep(i, Msg(U)), WaitStep(i, 1)>>
  BY ONLY <1>0, Pair DEF Call
<1>2. Broadcast(i, T) = <<SendStep(i, Msg(T)), WaitStep(i, 1),
                          BroadcastStep(Instances \ {i}, T)>>
  BY ONLY <1>0, <1>1, Triple DEF Broadcast
<1>3. Send(i, Command(c)) \o Wait(i, 1) = <<SendStep(i, Command(c)), WaitStep(i, 1)>>
  BY ONLY <1>0, Pair
<1>4. Send(i, Command(c)) \o Wait(i, 1) \o Read(i, c)
        = <<SendStep(i, Command(c)), WaitStep(i, 1), ReadStep(i, c)>>
  BY ONLY <1>0, <1>3, Triple
<1>5. bootROM(i, c) = <<SendStep(i, Command(c)), WaitStep(i, 1), ReadStep(i, c),
                        SendStep(i, Msg("EmuRun")), WaitStep(i, 1)>>
  <2>1. <<SendStep(i, Command(c)), WaitStep(i, 1), ReadStep(i, c)>>
          \o <<SendStep(i, Msg("EmuRun")), WaitStep(i, 1)>>
          = <<SendStep(i, Command(c)), WaitStep(i, 1), ReadStep(i, c),
              SendStep(i, Msg("EmuRun")), WaitStep(i, 1)>>
    BY ONLY ZenonT(60), Longer
  <2>2. Call(i, "EmuRun") = <<SendStep(i, Msg("EmuRun")), WaitStep(i, 1)>>
    BY <1>1
  <2> QED BY ONLY <1>4, <2>1, <2>2, Zenon DEF bootROM
<1>6. Send(i, Msg("EmuReset")) \o Send(i, Command(c))
        = <<SendStep(i, Msg("EmuReset")), SendStep(i, Command(c))>>
  BY ONLY <1>0, Pair
<1>7. Send(i, Msg("EmuReset")) \o Send(i, Command(c)) \o Wait(i, 2)
        = <<SendStep(i, Msg("EmuReset")), SendStep(i, Command(c)), WaitStep(i, 2)>>
  BY ONLY <1>0, <1>6, Triple
<1>8. importSavefile(i, c) = <<SendStep(i, Msg("EmuReset")), SendStep(i, Command(c)),
                               WaitStep(i, 2), ReadStep(i, c)>>
  BY ONLY ZenonT(60), <1>0, <1>7, Longer DEF importSavefile
<1>9. Call(i, "BorrowGL") \o Step("context", i)
        = <<SendStep(i, Msg("BorrowGL")), WaitStep(i, 1), OtherStep("context", i)>>
  BY ONLY <1>0, <1>1, Triple
<1>10. borrowGL(i) = <<SendStep(i, Msg("BorrowGL")), WaitStep(i, 1),
                       OtherStep("context", i), OtherStep("returnGL", i)>>
  BY ONLY ZenonT(60), <1>0, <1>9, Longer DEF borrowGL
<1>11. Send(i, Msg("Exit")) \o Step("waitAll", i)
         = <<SendStep(i, Msg("Exit")), OtherStep("waitAll", i)>>
  BY ONLY <1>0, Pair
<1>12. emuExit(i) = <<SendStep(i, Msg("Exit")), OtherStep("waitAll", i), OtherStep("join", i)>>
  BY ONLY <1>0, <1>11, Triple DEF emuExit
<1> QED BY <1>1, <1>2, <1>4, <1>5, <1>8, <1>10, <1>12 DEF resultCommand

-----------------------------------------------------------------------------
(* A turn of an emulation thread keeps its part of the protocol. *)

LoopStep(i) ==
  Turn(i) \/ FrameOver(i) \/ TakeMessage(i) \/ HandleMessage(i)
    \/ MessagesDone(i) \/ AwaitGL(i)

\* Only an exit message brings the status of an exit (EmuThread.cpp:487-489).
LEMMA AfterUp ==
  ASSUME NEW e \in Emulator, NEW type, type # "Exit",
         e.status # "Exit", e.prev # "Exit"
  PROVE  After(e, type).status # "Exit" /\ After(e, type).prev # "Exit"
<1>1. Paused(e).status # "Exit" /\ Paused(e).prev # "Exit"
  BY DEF Paused, Emulator
<1>2. Unpaused(e).status # "Exit" /\ Unpaused(e).prev # "Exit"
  <2>1. Unpaused(e) \in {e, [e EXCEPT !.stack = e.stack - 1],
                         [e EXCEPT !.stack = e.stack - 1, !.status = e.prev]}
    BY DEF Unpaused
  <2> QED BY <2>1 DEF Emulator
<1>3. Started(e).status # "Exit" /\ Started(e).prev # "Exit"
  BY DEF Started, Emulator
<1>4. [e EXCEPT !.status = "Paused", !.active = FALSE].status = "Paused"
        /\ [e EXCEPT !.status = "Paused", !.active = FALSE].prev # "Exit"
  BY DEF Emulator
<1>5. [e EXCEPT !.status = "FrameStep"].status = "FrameStep"
        /\ [e EXCEPT !.status = "FrameStep"].prev # "Exit"
  BY DEF Emulator
<1> QED BY <1>1, <1>2, <1>3, <1>4, <1>5 DEF After

\* The loop of an instance touches nothing of the others, nor any program.
LEMMA Elsewhere ==
  ASSUME NEW C, Types(C), NEW i \in Instances, LoopStep(i), NEW j \in Instances \ {i}
  PROVE  /\ emu'[j] = emu[j] /\ pc'[j] = pc[j] /\ queue'[j] = queue[j] /\ cur'[j] = cur[j]
         /\ borrowed'[j] = borrowed[j] /\ sem'[j] = sem[j] /\ result'[j] = result[j]
  BY DEF LoopStep, Turn, FrameOver, TakeMessage, HandleMessage, MessagesDone, AwaitGL, Types

\* The loop does not run the programs of calls.
LEMMA LoopLeaves ==
  ASSUME NEW i \in Instances, LoopStep(i)
  PROVE  UNCHANGED <<prog, calls, dialog, manual, inactive>>
  BY DEF LoopStep, Turn, FrameOver, TakeMessage, HandleMessage, MessagesDone, AwaitGL, window

\* A thread that has ended takes no more turns.
LEMMA GoneStays ==
  ASSUME NEW i \in Instances, Gone(i)
  PROVE  ~LoopStep(i)
  BY DEF Gone, LoopStep, Turn, FrameOver, TakeMessage, HandleMessage, MessagesDone, AwaitGL

\* What is left of the loop, apart from messages, changes neither the queue nor
\* the credits, and keeps an instance up.
LEMMA LoopOnly ==
  ASSUME NEW C, Types(C), NEW i \in Instances, Up(i),
         Turn(i) \/ FrameOver(i) \/ MessagesDone(i) \/ AwaitGL(i)
  PROVE  /\ Up(i)' /\ UNCHANGED <<queue, cur, sem, result>> /\ (Lent(i) => Lent(i)')
         /\ pc[i] = "handle" => cur[i] = None
<1>0. /\ emu[i] \in Emulator /\ pc[i] \in Places /\ borrowed[i] \in BOOLEAN
      /\ emu \in [Instances -> Emulator] /\ pc \in [Instances -> Places]
      /\ borrowed \in [Instances -> BOOLEAN]
  BY DEF Types
<1>1. pc[i] # "ended" /\ emu[i].status # "Exit" /\ emu[i].prev # "Exit"
  BY DEF Up
<1>2. CASE Turn(i)
  <2>1. pc'[i] \in {"frame", "lock"} /\ pc[i] \in {"top", "keys"}
    BY <1>0, <1>2 DEF Turn
  <2>2. emu'[i] = [emu[i] EXCEPT !.status = IF emu[i].status = "FrameStep" THEN "Paused"
                                            ELSE emu[i].status]
    BY <1>0, <1>2 DEF Turn
  <2>3. emu'[i].status # "Exit" /\ emu'[i].prev # "Exit"
    BY <1>0, <1>1, <2>2 DEF Emulator
  <2>4. UNCHANGED <<queue, cur, sem, result>>
    BY <1>2 DEF Turn
  <2> QED BY <2>1, <2>3, <2>4 DEF Up, Lent
<1>3. CASE FrameOver(i)
  <2>1. pc[i] = "frame" /\ pc'[i] = "lock" /\ UNCHANGED <<emu, queue, cur, sem, result>>
    BY <1>0, <1>3 DEF FrameOver
  <2> QED BY <1>1, <2>1 DEF Up, Lent
<1>4. CASE MessagesDone(i)
  <2>1. /\ pc'[i] = IF borrowed[i] THEN "gl" ELSE "top"
        /\ pc[i] \in {"lock", "handle"} /\ UNCHANGED <<emu, queue, cur, sem, result>>
        /\ cur[i] = None
    BY <1>0, <1>1, <1>4 DEF MessagesDone, LoopTest
  <2> QED BY <1>0, <1>1, <2>1 DEF Up, Lent
<1>5. CASE AwaitGL(i)
  <2>1. /\ pc[i] = "gl" /\ pc'[i] = "glwait"
        /\ UNCHANGED <<emu, queue, cur, sem, result>>
    BY <1>0, <1>5 DEF AwaitGL
  <2> QED BY <1>1, <2>1 DEF Up, Lent
<1> QED BY <1>2, <1>3, <1>4, <1>5

\* Taking a message off the queue (EmuThread.cpp:481-485).
LEMMA Taken ==
  ASSUME NEW C, Types(C), NEW i \in Instances, TakeMessage(i)
  PROVE  /\ queue[i] # <<>> /\ queue'[i] = Tail(queue[i]) /\ cur'[i] = Head(queue[i])
         /\ pc'[i] = "handle" /\ pc[i] # "ended" /\ (pc[i] = "handle" => cur[i] = None)
         /\ emu'[i] = emu[i] /\ sem'[i] = sem[i] /\ result'[i] = result[i]
         /\ borrowed'[i] = borrowed[i]
  BY DEF TakeMessage, Types

\* Handling a message (EmuThread.cpp:484-666).
LEMMA Handled ==
  ASSUME NEW C, Types(C), NEW i \in Instances, HandleMessage(i)
  PROVE  /\ cur[i] # None /\ cur'[i] = None /\ pc[i] = "handle" /\ pc'[i] = "handle"
         /\ queue'[i] = queue[i] /\ sem'[i] = sem[i] + 1
         /\ emu'[i] = After(emu[i], cur[i].type)
         /\ cur[i].type = "Command" => result'[i].cmd = cur[i].cmd
         /\ cur[i].type = "BorrowGL" => borrowed'[i]
         /\ cur[i].type # "Command" => result'[i] = result[i]
<1>1. /\ emu \in [Instances -> Emulator] /\ pc \in [Instances -> Places]
      /\ sem \in [Instances -> Nat] /\ cur \in [Instances -> MessageOf(C) \cup {None}]
  BY DEF Types
<1>2. /\ cur[i] # None /\ cur'[i] = None /\ pc[i] = "handle" /\ pc'[i] = "handle"
      /\ queue'[i] = queue[i] /\ sem'[i] = sem[i] + 1
      /\ emu'[i] = After(emu[i], cur[i].type)
  BY <1>1 DEF HandleMessage, Released
<1>3. cur[i].type = "BorrowGL" => borrowed'[i]
  BY DEF HandleMessage, Types, Lends
<1>4. /\ cur[i].type = "Command" => result'[i].cmd = cur[i].cmd
      /\ cur[i].type # "Command" => result'[i] = result[i]
  BY DEF HandleMessage, Types
<1> QED BY <1>2, <1>3, <1>4

\* An instance that was asked nothing stays so, and keeps its last result and
\* a GL context it has lent out.
LEMMA IdleStays ==
  ASSUME NEW C, Types(C), NEW i \in Instances, LoopStep(i), Idle(i)
  PROVE  Idle(i)' /\ result'[i] = result[i] /\ (Lent(i) => Lent(i)')
<1>1. Up(i) /\ queue[i] = <<>> /\ cur[i] = None /\ sem[i] = 0
  BY DEF Idle
<1>2. Turn(i) \/ FrameOver(i) \/ MessagesDone(i) \/ AwaitGL(i)
  BY <1>1 DEF LoopStep, TakeMessage, HandleMessage
<1>3. Up(i)' /\ UNCHANGED <<queue, cur, sem, result>> /\ (Lent(i) => Lent(i)')
  BY <1>1, <1>2, LoopOnly
<1> QED BY <1>1, <1>3 DEF Idle

\* A message is taken, handled and answered, in that order and once.
LEMMA AskedStays ==
  ASSUME NEW C, Types(C), NEW i \in Instances, LoopStep(i),
         NEW m \in Message, m.type # "Exit", Asked(i, m)
  PROVE  Asked(i, m)'
<1>0. m # None /\ Up(i) /\ emu[i] \in Emulator
  BY NoneAssumption DEF Asked, Types
<1>1. CASE Turn(i) \/ FrameOver(i) \/ MessagesDone(i) \/ AwaitGL(i)
  <2>1. /\ Up(i)' /\ UNCHANGED <<queue, cur, sem, result>> /\ (Lent(i) => Lent(i)')
        /\ pc[i] = "handle" => cur[i] = None
    BY <1>0, <1>1, LoopOnly
  <2>2. \/ queue[i] = <<m>> /\ cur[i] = None /\ sem[i] = 0
        \/ queue[i] = <<>> /\ cur[i] = None /\ sem[i] = 1 /\ Answered(i, m)
    BY <1>0, <2>1 DEF Asked
  <2>3. Answered(i, m) => Answered(i, m)'
    BY <2>1 DEF Answered
  <2> QED BY <2>1, <2>2, <2>3 DEF Asked
<1>2. CASE TakeMessage(i)
  <2>1. /\ queue[i] # <<>> /\ queue'[i] = Tail(queue[i]) /\ cur'[i] = Head(queue[i])
        /\ pc'[i] = "handle" /\ emu'[i] = emu[i] /\ sem'[i] = sem[i]
    BY <1>2, Taken
  <2>2. queue[i] = <<m>> /\ sem[i] = 0
    BY <2>1 DEF Asked
  <2>3. queue'[i] = <<>> /\ cur'[i] = m
    BY <2>1, <2>2
  <2>4. Up(i)'
    BY <1>0, <2>1 DEF Up
  <2> QED BY <2>1, <2>2, <2>3, <2>4 DEF Asked
<1>3. CASE HandleMessage(i)
  <2>1. /\ cur[i] # None /\ cur'[i] = None /\ pc'[i] = "handle"
        /\ queue'[i] = queue[i] /\ sem'[i] = sem[i] + 1
        /\ emu'[i] = After(emu[i], cur[i].type)
        /\ cur[i].type = "Command" => result'[i].cmd = cur[i].cmd
        /\ cur[i].type = "BorrowGL" => borrowed'[i]
    BY <1>3, Handled
  <2>2. queue[i] = <<>> /\ cur[i] = m /\ sem[i] = 0
    BY <2>1 DEF Asked
  <2>3. queue'[i] = <<>> /\ sem'[i] = 1
    BY <2>1, <2>2
  <2>4. Up(i)'
    BY <1>0, <2>1, <2>2, AfterUp DEF Up
  <2>5. Answered(i, m)'
    BY <2>1, <2>2 DEF Answered, Lent
  <2> QED BY <2>1, <2>3, <2>4, <2>5 DEF Asked
<1> QED BY <1>1, <1>2, <1>3 DEF LoopStep

\* The reset and the command of importSavefile are handled in that order, and
\* the second credit comes after the command (EmuThread.cpp:852-858).
LEMMA AskedTwoStays ==
  ASSUME NEW C, Types(C), NEW i \in Instances, LoopStep(i),
         NEW c \in 0 .. MaxCalls, AskedTwo(i, c)
  PROVE  AskedTwo(i, c)'
<1> DEFINE R == Msg("EmuReset")  D == Command(c)
<1>0. /\ R # None /\ D # None /\ R.type = "EmuReset" /\ D.type = "Command" /\ D.cmd = c
      /\ Up(i) /\ emu[i] \in Emulator
  <2>1. R \in Message /\ D \in Message
    BY OpsAssumption DEF Msg, Command, Message, Controls
  <2> QED BY <2>1, NoneAssumption DEF AskedTwo, Types, Msg, Command
<1>1. \/ queue[i] = <<R, D>> /\ cur[i] = None /\ sem[i] = 0
      \/ queue[i] = <<D>> /\ cur[i] = R /\ pc[i] = "handle" /\ sem[i] = 0
      \/ queue[i] = <<D>> /\ cur[i] = None /\ sem[i] = 1
      \/ queue[i] = <<>> /\ cur[i] = D /\ pc[i] = "handle" /\ sem[i] = 1
      \/ queue[i] = <<>> /\ cur[i] = None /\ sem[i] = 2 /\ result[i].cmd = c
  BY DEF AskedTwo
<1> DEFINE Two == \/ queue[i] = <<R, D>> /\ cur[i] = None /\ sem[i] = 0
                  \/ queue[i] = <<D>> /\ cur[i] = R /\ pc[i] = "handle" /\ sem[i] = 0
                  \/ queue[i] = <<D>> /\ cur[i] = None /\ sem[i] = 1
                  \/ queue[i] = <<>> /\ cur[i] = D /\ pc[i] = "handle" /\ sem[i] = 1
                  \/ queue[i] = <<>> /\ cur[i] = None /\ sem[i] = 2 /\ result[i].cmd = c
<1> SUFFICES Up(i)' /\ Two'
  BY DEF AskedTwo
<1> HIDE DEF R, D
<1>2. CASE Turn(i) \/ FrameOver(i) \/ MessagesDone(i) \/ AwaitGL(i)
  <2>1. /\ Up(i)' /\ UNCHANGED <<queue, cur, sem, result>>
        /\ pc[i] = "handle" => cur[i] = None
    BY <1>0, <1>2, LoopOnly
  <2> QED BY <1>0, <1>1, <2>1
<1>3. CASE TakeMessage(i)
  <2>1. /\ queue[i] # <<>> /\ queue'[i] = Tail(queue[i]) /\ cur'[i] = Head(queue[i])
        /\ pc'[i] = "handle" /\ emu'[i] = emu[i] /\ sem'[i] = sem[i]
        /\ pc[i] = "handle" => cur[i] = None
    BY <1>3, Taken
  <2>2. Up(i)'
    BY <1>0, <2>1 DEF Up
  <2>3. CASE queue[i] = <<R, D>> /\ sem[i] = 0
    <3>1. queue'[i] = <<D>> /\ cur'[i] = R
      BY <2>1, <2>3
    <3> QED BY <2>1, <2>2, <2>3, <3>1
  <2>4. CASE queue[i] = <<D>> /\ cur[i] = None /\ sem[i] = 1
    <3>1. queue'[i] = <<>> /\ cur'[i] = D
      BY <2>1, <2>4
    <3> QED BY <2>1, <2>2, <2>4, <3>1
  <2> QED BY <1>0, <1>1, <2>1, <2>3, <2>4
<1>4. CASE HandleMessage(i)
  <2>1. /\ cur[i] # None /\ cur'[i] = None /\ pc'[i] = "handle"
        /\ queue'[i] = queue[i] /\ sem'[i] = sem[i] + 1
        /\ emu'[i] = After(emu[i], cur[i].type)
        /\ cur[i].type = "Command" => result'[i].cmd = cur[i].cmd
    BY <1>4, Handled
  <2>2. Up(i)'
    BY <1>0, <1>1, <2>1, AfterUp DEF Up
  <2>3. CASE queue[i] = <<D>> /\ cur[i] = R /\ sem[i] = 0
    <3>1. queue'[i] = <<D>> /\ cur'[i] = None /\ sem'[i] = 1
      BY <2>1, <2>3
    <3> QED BY <2>2, <3>1
  <2>4. CASE queue[i] = <<>> /\ cur[i] = D /\ sem[i] = 1
    <3>1. queue'[i] = <<>> /\ cur'[i] = None /\ sem'[i] = 2 /\ result'[i].cmd = c
      BY <1>0, <2>1, <2>4
    <3> QED BY <2>2, <3>1
  <2> QED BY <1>1, <2>1, <2>3, <2>4
<1> QED BY <1>2, <1>3, <1>4 DEF LoopStep

\* After msg_Exit the thread handles nothing more and runs into the end of its
\* loop (EmuThread.cpp:154, 487-489).
LEMMA LeavingStays ==
  ASSUME NEW C, Types(C), NEW i \in Instances, LoopStep(i), Leaving(i)
  PROVE  Leaving(i)' /\ (emu[i].status = "Exit" => emu'[i].status = "Exit")
<1> DEFINE X == Msg("Exit")
<1>0. X # None /\ X.type = "Exit" /\ emu[i] \in Emulator
  BY OpsAssumption, NoneAssumption DEF Msg, Message, Controls, Types
<1>1. \/ Up(i) /\ queue[i] = <<X>> /\ cur[i] = None
      \/ Up(i) /\ queue[i] = <<>> /\ cur[i] = X /\ pc[i] = "handle"
      \/ queue[i] = <<>> /\ cur[i] = None /\ emu[i].status = "Exit"
  BY DEF Leaving
<1> DEFINE Leave == \/ Up(i) /\ queue[i] = <<X>> /\ cur[i] = None
                    \/ Up(i) /\ queue[i] = <<>> /\ cur[i] = X /\ pc[i] = "handle"
                    \/ queue[i] = <<>> /\ cur[i] = None /\ emu[i].status = "Exit"
<1> SUFFICES Leave' /\ (emu[i].status = "Exit" => emu'[i].status = "Exit")
  BY DEF Leaving
<1> HIDE DEF X
<1>2. CASE Turn(i) \/ FrameOver(i) \/ MessagesDone(i) \/ AwaitGL(i)
  <2>1. UNCHANGED <<queue, cur>>
    BY <1>2 DEF Turn, FrameOver, MessagesDone, AwaitGL
  <2>2. emu[i].status = "Exit" => emu'[i].status = "Exit"
    <3>1. CASE Turn(i)
      <4>1. emu'[i] = [emu[i] EXCEPT !.status = IF emu[i].status = "FrameStep" THEN "Paused"
                                                ELSE emu[i].status]
        BY <3>1 DEF Turn, Types
      <4> QED BY <1>0, <4>1 DEF Emulator
    <3> QED BY <1>2, <3>1 DEF FrameOver, MessagesDone, AwaitGL
  <2>3. Up(i) => Up(i)' /\ (pc[i] = "handle" => cur[i] = None)
    BY <1>2, LoopOnly
  <2> QED BY <1>0, <1>1, <2>1, <2>2, <2>3
<1>3. CASE TakeMessage(i)
  <2>1. /\ queue[i] # <<>> /\ queue'[i] = Tail(queue[i]) /\ cur'[i] = Head(queue[i])
        /\ pc'[i] = "handle" /\ emu'[i] = emu[i]
    BY <1>3, Taken
  <2>2. Up(i) => Up(i)'
    BY <2>1 DEF Up
  <2>3. Up(i) /\ queue[i] = <<X>>
    BY <1>1, <2>1
  <2>4. queue'[i] = <<>> /\ cur'[i] = X
    BY <2>1, <2>3
  <2> QED BY <2>1, <2>2, <2>3, <2>4
<1>4. CASE HandleMessage(i)
  <2>1. /\ cur[i] # None /\ cur'[i] = None /\ queue'[i] = queue[i]
        /\ emu'[i] = After(emu[i], cur[i].type)
    BY <1>4, Handled
  <2>2. Up(i) /\ queue[i] = <<>> /\ cur[i] = X
    BY <1>0, <1>1, <2>1
  <2>3. emu'[i] = [emu[i] EXCEPT !.status = "Exit", !.stack = 0]
    BY <1>0, <2>1, <2>2 DEF After
  <2>4. emu'[i].status = "Exit"
    BY <1>0, <2>3 DEF Emulator
  <2> QED BY <2>1, <2>2, <2>4
<1> QED BY <1>2, <1>3, <1>4 DEF LoopStep

\* What holds of an instance alone survives a turn of any loop.
LEMMA LocalStays ==
  ASSUME NEW C, Types(C), NEW i \in Instances, LoopStep(i), NEW k \in Instances
  PROVE  /\ Idle(k) => Idle(k)' /\ result'[k] = result[k] /\ (Lent(k) => Lent(k)')
         /\ Gone(k) => Gone(k)'
         /\ \A m \in Message : m.type # "Exit" /\ Asked(k, m) => Asked(k, m)'
         /\ \A c \in 0 .. MaxCalls : AskedTwo(k, c) => AskedTwo(k, c)'
         /\ Leaving(k) => Leaving(k)'
<1>1. CASE k = i
  <2>1. ~Gone(k)
    BY <1>1, GoneStays
  <2>2. Idle(k) => Idle(k)' /\ result'[k] = result[k] /\ (Lent(k) => Lent(k)')
    BY <1>1, IdleStays
  <2>3. \A m \in Message : m.type # "Exit" /\ Asked(k, m) => Asked(k, m)'
    BY <1>1, AskedStays
  <2>4. \A c \in 0 .. MaxCalls : AskedTwo(k, c) => AskedTwo(k, c)'
    BY <1>1, AskedTwoStays
  <2>5. Leaving(k) => Leaving(k)'
    BY <1>1, LeavingStays
  <2> QED BY <2>1, <2>2, <2>3, <2>4, <2>5
<1>2. CASE k # i
  <2>0. /\ emu'[k] = emu[k] /\ pc'[k] = pc[k] /\ queue'[k] = queue[k] /\ cur'[k] = cur[k]
        /\ borrowed'[k] = borrowed[k] /\ sem'[k] = sem[k] /\ result'[k] = result[k]
    BY <1>2, Elsewhere
  <2>1. (Up(k) => Up(k)') /\ (Lent(k) => Lent(k)') /\ (Gone(k) => Gone(k)')
    BY <2>0 DEF Up, Lent, Gone
  <2>2. Idle(k) => Idle(k)'
    BY <2>0, <2>1 DEF Idle
  <2>3. ASSUME NEW m \in Message, Asked(k, m) PROVE Asked(k, m)'
    <3>1. Answered(k, m) => Answered(k, m)'
      BY <2>0, <2>1 DEF Answered
    <3> QED BY <2>0, <2>1, <2>3, <3>1 DEF Asked
  <2>4. ASSUME NEW c \in 0 .. MaxCalls, AskedTwo(k, c) PROVE AskedTwo(k, c)'
    BY <2>0, <2>1, <2>4 DEF AskedTwo
  <2>5. Leaving(k) => Leaving(k)'
    BY <2>0, <2>1 DEF Leaving
  <2> QED BY <2>0, <2>1, <2>2, <2>3, <2>4, <2>5
<1> QED BY <1>1, <1>2

\* The phase of a call survives a turn of any loop.
LEMMA PhaseStays ==
  ASSUME NEW C, Types(C), NEW i \in Instances, LoopStep(i), NEW k \in Instances, NEW p
  PROVE  /\ AtRest(k) => AtRest(k)'
         /\ Phase(k, p) => Phase(k, p)'
         /\ Exits(k, p) => Exits(k, p)'
<1>0. /\ Idle(k) => Idle(k)' /\ result'[k] = result[k] /\ (Lent(k) => Lent(k)')
      /\ Gone(k) => Gone(k)'
      /\ \A m \in Message : m.type # "Exit" /\ Asked(k, m) => Asked(k, m)'
      /\ \A c \in 0 .. MaxCalls : AskedTwo(k, c) => AskedTwo(k, c)'
      /\ Leaving(k) => Leaving(k)'
  BY LocalStays
<1>1. AtRest(k) => AtRest(k)'
  BY <1>0 DEF AtRest
<1>2. ASSUME Phase(k, p) PROVE Phase(k, p)'
  <2>1. CASE Idle(k) /\ Sends(k, p)
    BY <1>0, <2>1 DEF Phase, Sends
  <2>2. ASSUME NEW m \in Message, Asked(k, m), Waits(k, m, p) PROVE Phase(k, p)'
    <3>1. m.type # "Exit"
      BY <2>2 DEF Waits
    <3>2. Asked(k, m)'
      BY <1>0, <2>2, <3>1
    <3>3. Waits(k, m, p)'
      BY <2>2 DEF Waits
    <3> QED BY <3>2, <3>3 DEF Phase
  <2>3. ASSUME NEW c \in 1 .. MaxCalls, Asked(k, Msg("EmuReset")),
               p = <<SendStep(k, Command(c)), WaitStep(k, 2), ReadStep(k, c)>>
        PROVE  Phase(k, p)'
    <3> DEFINE m == Msg("EmuReset")
    <3>1. m \in Message /\ m.type # "Exit" /\ Asked(k, m)
      BY <2>3, OpsAssumption DEF Msg, Message, Controls
    <3> HIDE DEF m
    <3>2. Asked(k, m)'
      BY <1>0, <3>1
    <3> QED BY <2>3, <3>2 DEF Phase, m
  <2>4. ASSUME NEW c \in 1 .. MaxCalls, AskedTwo(k, c),
               p = <<WaitStep(k, 2), ReadStep(k, c)>>
        PROVE  Phase(k, p)'
    <3>1. AskedTwo(k, c)'
      BY <1>0, <2>4
    <3> QED BY <2>4, <3>1 DEF Phase
  <2>5. CASE Idle(k) /\ Reads(k, p)
    <3>1. Reads(k, p)'
      BY <1>0, <2>5 DEF Reads
    <3> QED BY <1>0, <2>5, <3>1 DEF Phase
  <2>6. CASE Idle(k) /\ Lent(k) /\ p = <<OtherStep("context", k), OtherStep("returnGL", k)>>
    BY <1>0, <2>6 DEF Phase
  <2>7. CASE Idle(k) /\ p = <<OtherStep("returnGL", k)>>
    BY <1>0, <2>7 DEF Phase
  <2> QED BY <1>2, <2>1, <2>2, <2>3, <2>4, <2>5, <2>6, <2>7 DEF Phase
<1>3. ASSUME Exits(k, p) PROVE Exits(k, p)'
  BY <1>0, <1>3 DEF Exits
<1> QED BY <1>1, <1>2, <1>3

\* A turn of a loop keeps the protocol.
LEMMA LoopProtocol ==
  ASSUME NEW C, Types(C), Protocol, NEW i \in Instances, LoopStep(i)
  PROVE  Protocol'
<1>0. UNCHANGED <<prog, dialog>>
  BY LoopLeaves
<1>1. PICK p : p = prog[UI]
  OBVIOUS
<1>2. PICK d : d = dialog
  OBVIOUS
<1>3. p = prog'[UI] /\ d = dialog'
  BY <1>0, <1>1, <1>2
<1>4. \A k \in Instances : /\ AtRest(k) => AtRest(k)'
                           /\ Phase(k, p) => Phase(k, p)'
                           /\ Exits(k, p) => Exits(k, p)'
  BY PhaseStays
<1>5. \A k \in Instances : prog'[k] = <<>>
  BY <1>0 DEF Protocol
<1>6. CASE Between(p) /\ \A j \in Instances : AtRest(j)
  <2>1. \A j \in Instances : AtRest(j)'
    BY <1>4, <1>6
  <2>2. d # None => pc'[d] # "ended"
    <3> SUFFICES ASSUME d # None PROVE pc'[d] # "ended"
      OBVIOUS
    <3>1. d \in Instances /\ pc[d] # "ended"
      BY <1>2 DEF Types, Protocol
    <3>2. Idle(d)
      BY <1>6, <3>1 DEF AtRest, Gone
    <3>3. Idle(d)'
      BY <3>1, <3>2, LocalStays
    <3> QED BY <3>3 DEF Idle, Up
  <2>3. Between(prog[UI])'
    BY <1>3, <1>6 DEF Between
  <2> QED BY <1>3, <1>5, <2>1, <2>2, <2>3 DEF Protocol
<1>7. ASSUME NEW k \in Instances, \A j \in Instances \ {k} : AtRest(j),
             Phase(k, p) \/ (d = None /\ Exits(k, p))
      PROVE  Protocol'
  <2>1. \A j \in Instances \ {k} : AtRest(j)'
    BY <1>4, <1>7
  <2>2. Phase(k, p)' \/ (d = None /\ Exits(k, p)')
    BY <1>4, <1>7
  <2>3. Phase(k, prog[UI])' \/ (dialog' = None /\ Exits(k, prog[UI])')
    BY <1>3, <2>2
  <2>4. d # None => pc'[d] # "ended"
    <3> SUFFICES ASSUME d # None PROVE pc'[d] # "ended"
      OBVIOUS
    <3>1. d \in Instances /\ pc[d] # "ended"
      BY <1>2 DEF Types, Protocol
    <3>2. CASE d = k
      <4>1. Phase(k, p)'
        BY <2>2
      <4>2. Up(k)'
        BY <4>1 DEF Phase, Idle, Asked, AskedTwo
      <4> QED BY <3>2, <4>2 DEF Up
    <3>3. CASE d # k
      <4>1. Idle(d)
        BY <1>7, <3>1, <3>3 DEF AtRest, Gone
      <4>2. Idle(d)'
        BY <3>1, <4>1, LocalStays
      <4> QED BY <4>2 DEF Idle, Up
    <3> QED BY <3>2, <3>3
  <2>5. Engaged(k)'
    BY <2>1, <2>3 DEF Engaged
  <2> QED BY <1>3, <1>5, <2>4, <2>5 DEF Protocol
<1> QED BY <1>1, <1>2, <1>6, <1>7 DEF Protocol, Engaged

-----------------------------------------------------------------------------
(* The steps of the UI thread keep the protocol. *)

UIOnly == Ops \subseteq {"GL", "Exit", "Focus"}

\* A UI thread that makes no call has nothing outstanding.
LEMMA NothingOwed ==
  ASSUME Protocol, prog[UI] = <<>>
  PROVE  \A j \in Instances : AtRest(j)
<1>1. ASSUME NEW i \in Instances, Engaged(i) PROVE FALSE
  <2>1. Phase(i, <<>>) \/ Exits(i, <<>>)
    BY <1>1 DEF Engaged
  <2>2. ~Sends(i, <<>>) /\ ~Reads(i, <<>>) /\ \A m \in Message : ~Waits(i, m, <<>>)
    BY DEF Sends, Reads, Waits
  <2> QED BY <2>1, <2>2 DEF Phase, Exits
<1> QED BY <1>1 DEF Protocol

\* A new call to a live instance starts a phase.
LEMMA CallStarts ==
  ASSUME NEW C, Types(C), Protocol, NEW i \in Instances, pc[i] # "ended", NEW q, UICall(q),
         Sends(i, q) \/ (dialog' = None /\ q = emuExit(i)),
         dialog' \in {None, dialog, i}
  PROVE  Protocol'
<1>0. /\ prog[UI] = <<>> /\ prog' = [prog EXCEPT ![UI] = q]
      /\ UNCHANGED <<emu, pc, queue, cur, borrowed, sem, result>>
  BY DEF UICall, Working, loop
<1>1. prog'[UI] = q /\ \A j \in Instances : prog'[j] = <<>>
  BY <1>0, InstancesAssumption DEF Types, Protocol, Threads
<1>2. \A j \in Instances : AtRest(j)
  BY <1>0, NothingOwed
<1>3. Idle(i)
  BY <1>2 DEF AtRest, Gone
<1>4. \A j \in Instances : AtRest(j)'
  BY <1>0, <1>2 DEF AtRest, Idle, Gone, Up
<1>5. Idle(i)'
  BY <1>0, <1>3 DEF Idle, Up
<1>6. dialog' # None => pc'[dialog'] # "ended"
  BY <1>0 DEF Protocol
<1>7. CASE Sends(i, q)
  <2>1. Sends(i, prog[UI])'
    BY <1>1, <1>7 DEF Sends
  <2>2. Phase(i, prog[UI])'
    BY <1>5, <2>1 DEF Phase
  <2>3. Engaged(i)'
    BY <1>4, <2>2 DEF Engaged
  <2> QED BY <1>1, <1>6, <2>3 DEF Protocol
<1>8. CASE dialog' = None /\ q = emuExit(i)
  <2>1. q = <<SendStep(i, Msg("Exit")), OtherStep("waitAll", i), OtherStep("join", i)>>
    BY <1>8, CallShapes
  <2>2. Exits(i, prog[UI])'
    BY <1>1, <1>5, <2>1 DEF Exits
  <2>3. Engaged(i)'
    BY <1>4, <1>8, <2>2 DEF Engaged
  <2> QED BY <1>1, <1>6, <2>3 DEF Protocol
<1> QED BY <1>7, <1>8

\* The programs that start with a message other than an exit.
LEMMA SendShapes ==
  ASSUME NEW i \in Instances
  PROVE  /\ \A T \in Controls \ {"Exit"} : Sends(i, Call(i, T))
         /\ Sends(i, emuPause(i)) /\ Sends(i, emuUnpause(i)) /\ Sends(i, emuTogglePause(i))
         /\ \A c \in 1 .. MaxCalls : /\ Sends(i, bootROM(i, c))
                                     /\ Sends(i, resultCommand(i, c))
                                     /\ Sends(i, importSavefile(i, c))
         /\ Sends(i, borrowGL(i)) /\ Sends(i, emuReset(i))
<1>1. ASSUME NEW T \in Controls \ {"Exit"} PROVE Sends(i, Call(i, T))
  <2>1. Call(i, T) = <<SendStep(i, Msg(T)), WaitStep(i, 1)>>
    BY CallShapes
  <2> QED BY <2>1 DEF Sends
<1>2. ASSUME NEW T \in {"EmuPause", "EmuUnpause"} PROVE Sends(i, Broadcast(i, T))
  <2>1. Broadcast(i, T) = <<SendStep(i, Msg(T)), WaitStep(i, 1),
                            BroadcastStep(Instances \ {i}, T)>>
    BY CallShapes
  <2>2. Instances \ {i} \in SUBSET Instances
    OBVIOUS
  <2> QED BY <2>1, <2>2 DEF Sends
<1>3. Sends(i, emuPause(i)) /\ Sends(i, emuUnpause(i))
  BY <1>2 DEF emuPause, emuUnpause
<1>4. Sends(i, emuTogglePause(i))
  BY <1>3 DEF emuTogglePause
<1>5. ASSUME NEW c \in 1 .. MaxCalls
      PROVE  Sends(i, bootROM(i, c)) /\ Sends(i, resultCommand(i, c))
               /\ Sends(i, importSavefile(i, c))
  <2>1. /\ resultCommand(i, c) = <<SendStep(i, Command(c)), WaitStep(i, 1), ReadStep(i, c)>>
        /\ bootROM(i, c) = <<SendStep(i, Command(c)), WaitStep(i, 1), ReadStep(i, c),
                             SendStep(i, Msg("EmuRun")), WaitStep(i, 1)>>
        /\ importSavefile(i, c) = <<SendStep(i, Msg("EmuReset")), SendStep(i, Command(c)),
                                    WaitStep(i, 2), ReadStep(i, c)>>
    BY CallShapes
  <2> QED BY <2>1 DEF Sends
<1>6. Sends(i, borrowGL(i))
  <2>1. borrowGL(i) = <<SendStep(i, Msg("BorrowGL")), WaitStep(i, 1),
                        OtherStep("context", i), OtherStep("returnGL", i)>>
    BY CallShapes
  <2> QED BY <2>1 DEF Sends
<1>7. Sends(i, emuReset(i))
  BY <1>1 DEF emuReset, Controls
<1> QED BY <1>1, <1>3, <1>4, <1>5, <1>6, <1>7

\* A step that touches none of its variables keeps the protocol.
LEMMA NothingDone ==
  ASSUME Protocol, UNCHANGED <<emu, pc, queue, cur, borrowed, sem, result, prog, dialog>>
  PROVE  Protocol'
<1>0. UNCHANGED <<emu, pc, queue, cur, borrowed, sem, result, prog, dialog>>
  OBVIOUS
<1>1. \A k : (Up(k)' <=> Up(k)) /\ (Lent(k)' <=> Lent(k)) /\ (Gone(k)' <=> Gone(k))
  BY <1>0 DEF Up, Lent, Gone
<1>2. \A k : Idle(k)' <=> Idle(k)
  BY <1>0, <1>1 DEF Idle
<1>3. \A k, m : Asked(k, m)' <=> Asked(k, m)
  BY <1>0, <1>1 DEF Asked, Answered
<1>4. \A k, c : AskedTwo(k, c)' <=> AskedTwo(k, c)
  BY <1>0, <1>1 DEF AskedTwo
<1>5. \A k : (Leaving(k)' <=> Leaving(k)) /\ (AtRest(k)' <=> AtRest(k))
  BY <1>0, <1>1, <1>2 DEF Leaving, AtRest
<1>6. PICK p : p = prog[UI] /\ p = prog'[UI]
  BY <1>0
<1>7. \A k : Reads(k, p)' <=> Reads(k, p)
  BY <1>0 DEF Reads
<1>8. \A k : (Phase(k, p)' <=> Phase(k, p)) /\ (Exits(k, p)' <=> Exits(k, p))
  BY <1>1, <1>2, <1>3, <1>4, <1>5, <1>7 DEF Phase, Exits, Sends, Waits
<1>9. \A k : Engaged(k)' <=> Engaged(k)
  BY <1>0, <1>5, <1>6, <1>8 DEF Engaged
<1> QED BY <1>0, <1>5, <1>9 DEF Protocol, Between

\* Everything the user does keeps the protocol.
LEMMA UserProtocol ==
  ASSUME UIOnly, NEW C, Types(C), Protocol, UserAction
  PROVE  Protocol'
<1>1. CASE CloseDialog
  <2>1. PICK i : i = dialog
    OBVIOUS
  <2>2. i \in Instances /\ pc[i] # "ended"
    BY <1>1, <2>1 DEF CloseDialog, Types, Protocol
  <2>3. PICK q : q = emuUnpause(i)
    OBVIOUS
  <2>4. UICall(q) /\ Sends(i, q) /\ dialog' = None
    BY <1>1, <2>1, <2>2, <2>3, SendShapes DEF CloseDialog, Counted
  <2> QED BY <2>2, <2>4, CallStarts
<1>2. ASSUME NEW i \in Instances, OpenDialog(i) PROVE Protocol'
  <2>1. PICK q : q = emuPause(i)
    OBVIOUS
  <2>2. UICall(q) /\ Sends(i, q) /\ dialog' = i /\ pc[i] # "ended"
    BY <1>2, <2>1, SendShapes DEF OpenDialog, Counted, Alive
  <2> QED BY <2>2, CallStarts
<1>3. ASSUME NEW i \in Instances, MenuPause(i) PROVE Protocol'
  <2>1. PICK q : q = IF checked[i] THEN emuUnpause(i) ELSE emuPause(i)
    OBVIOUS
  <2>2. UICall(q) /\ Sends(i, q) /\ dialog' = dialog /\ pc[i] # "ended"
    BY <1>3, <2>1, SendShapes DEF MenuPause, Counted, Alive
  <2> QED BY <2>2, CallStarts
<1>4. ASSUME NEW i \in Instances, MenuCommand(i) PROVE Protocol'
  <2>1. dialog = None /\ dialog' = dialog /\ pc[i] # "ended" /\ calls < MaxCalls
    BY <1>4 DEF MenuCommand, Alive, window, UICall, Counted, Uncounted
  <2>2. PICK c : c = calls + 1
    OBVIOUS
  <2>3. c \in 1 .. MaxCalls
    <3>1. calls \in Nat /\ MaxCalls \in Nat
      BY OpsAssumption DEF Types
    <3> QED BY <2>1, <2>2, <3>1
  <2>4. "FrameStep" \notin Ops
    BY DEF UIOnly
  <2>5. \E q \in {bootROM(i, c), resultCommand(i, c), importSavefile(i, c),
                  Call(i, "Plain"), emuReset(i), Call(i, "EmuStop"), borrowGL(i),
                  emuExit(i)} : UICall(q)
    BY <1>4, <2>2, <2>4 DEF MenuCommand, Counted, Uncounted
  <2>6. PICK q : UICall(q) /\ (Sends(i, q) \/ q = emuExit(i))
    BY <2>3, <2>5, SendShapes DEF Controls
  <2> QED BY <2>1, <2>6, CallStarts
<1>5. ASSUME NEW i \in Instances, LoseFocus(i) PROVE Protocol'
  <2>1. PICK q : q = emuPause(i)
    OBVIOUS
  <2>2. NoCall \/ (UICall(q) /\ Sends(i, q))
    BY <1>5, <2>1, SendShapes DEF LoseFocus, Counted
  <2>3. dialog' = dialog /\ pc[i] # "ended"
    BY <1>5 DEF LoseFocus, Alive
  <2>4. CASE NoCall
    BY <2>3, <2>4, NothingDone DEF NoCall, loop
  <2> QED BY <2>2, <2>3, <2>4, CallStarts
<1>6. ASSUME NEW i \in Instances, GetFocus(i) PROVE Protocol'
  <2>1. PICK q : q = emuUnpause(i)
    OBVIOUS
  <2>2. NoCall \/ (UICall(q) /\ Sends(i, q))
    BY <1>6, <2>1, SendShapes DEF GetFocus, Counted
  <2>3. dialog' = dialog /\ pc[i] # "ended"
    BY <1>6 DEF GetFocus, Alive
  <2>4. CASE NoCall
    BY <2>3, <2>4, NothingDone DEF NoCall, loop
  <2> QED BY <2>2, <2>3, <2>4, CallStarts
<1> QED BY <1>1, <1>2, <1>3, <1>4, <1>5, <1>6 DEF UserAction

\* A step of the UI thread's program touches only the instance it is for.
LEMMA RunTouches ==
  ASSUME NEW C, Types(C), Protocol, Run(UI)
  PROVE  /\ prog[UI] # <<>> /\ UNCHANGED <<emu, cur, borrowed, result, dialog>>
         /\ \A j \in Instances : prog'[j] = <<>>
         /\ \A j \in Instances : Now(UI).do = "broadcast" \/ j # Now(UI).to =>
              pc'[j] = pc[j] /\ queue'[j] = queue[j] /\ sem'[j] = sem[j]
<1> USE DEF Run, sendMessage, waitMessage, waitAllMessages, ReadResult,
            broadcastInstanceCommand, CreateContext, returnGL, JoinThread, loop, window
<1>1. prog[UI] # <<>> /\ UNCHANGED <<emu, cur, borrowed, result, dialog>>
  BY DEF Working
<1>2. \E q : prog' = [prog EXCEPT ![UI] = q]
  BY DEF Advance
<1>3. \A j \in Instances : prog'[j] = <<>>
  BY ONLY <1>2, InstancesAssumption, Types(C), Protocol DEF Types, Protocol, Threads
<1>4. \A j \in Instances : Now(UI).do = "broadcast" \/ j # Now(UI).to =>
        pc'[j] = pc[j] /\ queue'[j] = queue[j] /\ sem'[j] = sem[j]
  <2> SUFFICES ASSUME NEW j \in Instances, Now(UI).do = "broadcast" \/ j # Now(UI).to
               PROVE  pc'[j] = pc[j] /\ queue'[j] = queue[j] /\ sem'[j] = sem[j]
    OBVIOUS
  <2>1. CASE sendMessage(UI)
    BY <2>1 DEF Types
  <2>2. CASE waitMessage(UI)
    BY <2>2 DEF Types
  <2>3. CASE waitAllMessages(UI)
    BY <2>3 DEF Types
  <2>4. CASE returnGL(UI)
    BY <2>4 DEF Types
  <2> QED BY <2>1, <2>2, <2>3, <2>4
<1> QED BY <1>1, <1>3, <1>4

\* The UI thread puts a message on a queue (EmuThread.cpp:457-462).
LEMMA RunSend ==
  ASSUME NEW C, Types(C), Run(UI), NEW i \in Instances, NEW m, Now(UI) = SendStep(i, m)
  PROVE  /\ pc[i] # "handle" /\ queue'[i] = Append(queue[i], m)
         /\ prog'[UI] = Tail(prog[UI]) /\ UNCHANGED <<pc, sem>>
<1>1. Now(UI).do = "send" /\ Now(UI).to = i /\ Now(UI).msg = m
  BY DEF SendStep
<1>2. sendMessage(UI)
  BY <1>1 DEF Run, sendMessage, waitMessage, waitAllMessages, ReadResult,
              broadcastInstanceCommand, CreateContext, returnGL, JoinThread
<1> QED BY <1>1, <1>2 DEF sendMessage, MutexFree, Advance, Types, Threads

\* The UI thread takes its credits (EmuThread.cpp:464-468).
LEMMA RunWait ==
  ASSUME NEW C, Types(C), Run(UI), NEW i \in Instances, NEW n \in {1, 2},
         Now(UI) = WaitStep(i, n)
  PROVE  /\ sem[i] >= n /\ sem'[i] = sem[i] - n
         /\ prog'[UI] = Tail(prog[UI]) /\ UNCHANGED <<pc, queue>>
<1>1. Now(UI).do = "wait" /\ Now(UI).to = i /\ Now(UI).num = n /\ i # UI
  BY InstancesAssumption DEF WaitStep
<1>2. waitMessage(UI)
  BY <1>1 DEF Run, sendMessage, waitMessage, waitAllMessages, ReadResult,
              broadcastInstanceCommand, CreateContext, returnGL, JoinThread
<1>3. prog'[UI] = Tail(prog[UI]) /\ UNCHANGED <<pc, queue>>
  BY <1>2 DEF waitMessage, Advance, Types, Threads
<1>4. Enough(UI, n) /\ sem' = [sem EXCEPT ![i] = @ - n]
  BY <1>1, <1>2 DEF waitMessage
<1>5. sem[i] >= n
  BY <1>1, <1>4 DEF Enough
<1>6. sem'[i] = sem[i] - n
  BY <1>4 DEF Types
<1> QED BY <1>3, <1>5, <1>6

\* The UI thread looks at the result (EmuThread.cpp:779-788).
LEMMA RunRead ==
  ASSUME NEW C, Types(C), Run(UI), NEW i \in Instances, NEW c, Now(UI) = ReadStep(i, c)
  PROVE  prog'[UI] \in {Tail(prog[UI]), <<>>} /\ UNCHANGED <<pc, queue, sem>>
<1>1. Now(UI).do = "read" /\ Now(UI).to = i
  BY DEF ReadStep
<1>2. ReadResult(UI)
  BY <1>1 DEF Run, sendMessage, waitMessage, waitAllMessages, ReadResult,
              broadcastInstanceCommand, CreateContext, returnGL, JoinThread
<1> QED BY <1>2 DEF ReadResult, Types, Threads, loop

\* The UI thread makes its context (Window.cpp:875-894).
LEMMA RunContext ==
  ASSUME NEW C, Types(C), Run(UI), NEW i, Now(UI) = OtherStep("context", i)
  PROVE  prog'[UI] = Tail(prog[UI]) /\ UNCHANGED <<pc, queue, sem>>
<1>1. Now(UI).do = "context"
  BY DEF OtherStep
<1>2. CreateContext(UI)
  BY <1>1 DEF Run, sendMessage, waitMessage, waitAllMessages, ReadResult,
              broadcastInstanceCommand, CreateContext, returnGL, JoinThread
<1> QED BY <1>2 DEF CreateContext, Advance, Types, Threads, loop

\* The UI thread wakes the emulation thread up (EmuThread.cpp:700-705).
LEMMA RunReturn ==
  ASSUME NEW C, Types(C), Run(UI), NEW i \in Instances, Now(UI) = OtherStep("returnGL", i)
  PROVE  /\ prog'[UI] = Tail(prog[UI]) /\ UNCHANGED <<queue, sem>>
         /\ pc'[i] \in {pc[i], LoopTest(i)}
<1>1. Now(UI).do = "returnGL" /\ Now(UI).to = i
  BY DEF OtherStep
<1>2. returnGL(UI)
  BY <1>1 DEF Run, sendMessage, waitMessage, waitAllMessages, ReadResult,
              broadcastInstanceCommand, CreateContext, returnGL, JoinThread
<1> QED BY <1>1, <1>2 DEF returnGL, Advance, Types, Threads

\* The UI thread looks whether the queue is empty, or waits for a credit
\* (EmuThread.cpp:470-475).
LEMMA RunWaitAll ==
  ASSUME NEW C, Types(C), Run(UI), NEW i \in Instances, NEW d \in {"waitAll", "acquire"},
         Now(UI) = OtherStep(d, i)
  PROVE  /\ prog'[UI] \in {Tail(prog[UI]), Step("waitAll", i) \o Tail(prog[UI]),
                           Step("acquire", i) \o Tail(prog[UI])}
         /\ UNCHANGED <<pc, queue>>
<1>1. Now(UI).do = d /\ Now(UI).to = i
  BY DEF OtherStep
<1>2. waitAllMessages(UI)
  BY <1>1 DEF Run, sendMessage, waitMessage, waitAllMessages, ReadResult,
              broadcastInstanceCommand, CreateContext, returnGL, JoinThread
<1> QED BY <1>1, <1>2 DEF waitAllMessages, Types, Threads

\* The UI thread has seen the emulation thread end (EmuInstance.cpp:160-167).
LEMMA RunJoin ==
  ASSUME NEW C, Types(C), Run(UI), NEW i \in Instances, Now(UI) = OtherStep("join", i)
  PROVE  prog'[UI] = Tail(prog[UI]) /\ UNCHANGED <<pc, queue, sem>> /\ pc[i] = "ended"
<1>1. Now(UI).do = "join" /\ Now(UI).to = i
  BY DEF OtherStep
<1>2. JoinThread(UI)
  BY <1>1 DEF Run, sendMessage, waitMessage, waitAllMessages, ReadResult,
              broadcastInstanceCommand, CreateContext, returnGL, JoinThread
<1> QED BY <1>1, <1>2 DEF JoinThread, Advance, Types, Threads, loop, Alive

\* The UI thread goes on to the next live instance (main.cpp:171-180).
LEMMA RunBroadcast ==
  ASSUME NEW C, Types(C), Run(UI), NEW L, NEW T, Now(UI) = BroadcastStep(L, T),
         Tail(prog[UI]) = <<>>
  PROVE  /\ UNCHANGED <<pc, queue, sem>>
         /\ \/ prog'[UI] = <<>> /\ \A j \in L : pc[j] = "ended"
            \/ \E j \in L : /\ pc[j] # "ended"
                            /\ prog'[UI] = <<SendStep(j, Msg(T)), WaitStep(j, 1),
                                             BroadcastStep({k \in L : pc[k] # "ended"} \ {j}, T)>>
<1>1. Now(UI).do = "broadcast" /\ Now(UI).left = L /\ Now(UI).type = T
  BY DEF BroadcastStep
<1>2. broadcastInstanceCommand(UI)
  BY <1>1 DEF Run, sendMessage, waitMessage, waitAllMessages, ReadResult,
              broadcastInstanceCommand, CreateContext, returnGL, JoinThread
<1>3. UNCHANGED <<pc, queue, sem>>
  BY <1>2 DEF broadcastInstanceCommand, loop
<1>4. PICK S : S = {j \in L : pc[j] # "ended"}
  OBVIOUS
<1>5. S = {j \in Now(UI).left : Alive(j)}
  BY <1>1, <1>4 DEF Alive
<1>6. \/ S = {} /\ Advance(UI)
      \/ \E j \in S : prog' = [prog EXCEPT ![UI] =
           Call(j, T) \o BroadcastTo(S \ {j}, T) \o Tail(@)]
  BY <1>1, <1>2, <1>5 DEF broadcastInstanceCommand
<1>7. CASE S = {} /\ Advance(UI)
  <2>1. prog'[UI] = <<>>
    BY <1>7 DEF Advance, Types, Threads
  <2> QED BY <1>3, <1>4, <1>7, <2>1
<1>8. ASSUME NEW j \in S, prog' = [prog EXCEPT ![UI] =
                            Call(j, T) \o BroadcastTo(S \ {j}, T) \o Tail(@)]
      PROVE  prog'[UI] = <<SendStep(j, Msg(T)), WaitStep(j, 1), BroadcastStep(S \ {j}, T)>>
  <2> DEFINE a == SendStep(j, Msg(T))  b == WaitStep(j, 1)  c == BroadcastStep(S \ {j}, T)
  <2>1. Call(j, T) = <<a, b>>
    BY CallShapes
  <2>2. BroadcastTo(S \ {j}, T) = <<c>>
    BY DEF BroadcastTo, BroadcastStep
  <2> HIDE DEF a, b, c
  <2>3. <<a, b>> \o <<c>> = <<a, b, c>> /\ <<a, b, c>> \o <<>> = <<a, b, c>>
    BY Triple
  <2>4. prog'[UI] = Call(j, T) \o BroadcastTo(S \ {j}, T) \o Tail(prog[UI])
    BY <1>8 DEF Types, Threads
  <2>5. prog'[UI] = <<a, b, c>>
    BY ONLY <2>1, <2>2, <2>3, <2>4, Tail(prog[UI]) = <<>>, Zenon
  <2> QED BY <2>5 DEF a, b, c
<1> QED BY <1>3, <1>4, <1>6, <1>7, <1>8

\* The others stay at rest while the UI thread's program is busy with i.
LEMMA OthersRest ==
  ASSUME NEW C, Types(C), Protocol, Run(UI), NEW i,
         Now(UI).do = "broadcast" \/ Now(UI).to = i,
         NEW j \in Instances \ {i}, AtRest(j)
  PROVE  AtRest(j)' /\ pc'[j] = pc[j]
<1>1. /\ pc'[j] = pc[j] /\ queue'[j] = queue[j] /\ sem'[j] = sem[j]
      /\ UNCHANGED <<emu, cur>>
  BY RunTouches
<1> QED BY <1>1 DEF AtRest, Idle, Gone, Up

\* The UI thread goes on with instance i.
LEMMA Reengage ==
  ASSUME NEW C, Types(C), Protocol, Run(UI), NEW i \in Instances,
         Now(UI).do = "broadcast" \/ Now(UI).to = i,
         \A j \in Instances \ {i} : AtRest(j),
         Phase(i, prog[UI])' \/ (dialog = None /\ Exits(i, prog[UI])')
  PROVE  Protocol'
<1>1. dialog' = dialog /\ \A j \in Instances : prog'[j] = <<>>
  BY RunTouches
<1>2. \A j \in Instances \ {i} : AtRest(j)' /\ pc'[j] = pc[j]
  BY OthersRest
<1>3. dialog' # None => pc'[dialog'] # "ended"
  <2> SUFFICES ASSUME dialog' # None PROVE pc'[dialog'] # "ended"
    OBVIOUS
  <2>1. dialog \in Instances /\ pc[dialog] # "ended" /\ dialog # None
    BY <1>1 DEF Types, Protocol
  <2>2. CASE dialog = i
    <3>1. Phase(i, prog[UI])'
      BY <2>1
    <3>2. Up(i)'
      BY <3>1 DEF Phase, Idle, Asked, AskedTwo
    <3> QED BY <1>1, <2>2, <3>2 DEF Up
  <2>3. CASE dialog # i
    BY <1>1, <1>2, <2>1, <2>3
  <2> QED BY <2>2, <2>3
<1>4. Engaged(i)'
  BY <1>1, <1>2 DEF Engaged
<1> QED BY <1>1, <1>3, <1>4 DEF Protocol

\* The UI thread is through with instance i.
LEMMA Disengage ==
  ASSUME NEW C, Types(C), Protocol, Run(UI), NEW i \in Instances,
         Now(UI).do = "broadcast" \/ Now(UI).to = i,
         \A j \in Instances \ {i} : AtRest(j),
         AtRest(i)', dialog = i => pc'[i] # "ended", Between(prog[UI])'
  PROVE  Protocol'
<1>1. dialog' = dialog /\ \A j \in Instances : prog'[j] = <<>>
  BY RunTouches
<1>2. \A j \in Instances \ {i} : AtRest(j)' /\ pc'[j] = pc[j]
  BY OthersRest
<1>3. dialog' # None => pc'[dialog'] # "ended"
  BY <1>1, <1>2 DEF Types, Protocol
<1>4. \A j \in Instances : AtRest(j)'
  BY <1>2
<1> QED BY <1>1, <1>3, <1>4 DEF Protocol

\* The messages of the calls.
LEMMA MessageFacts ==
  /\ \A T \in Controls : Msg(T) \in Message /\ Msg(T).type = T
  /\ \A c \in 1 .. MaxCalls : /\ Command(c) \in Message /\ Command(c).type = "Command"
                              /\ Command(c).cmd = c
  BY OpsAssumption DEF Msg, Command, Message

\* A message sent to an idle instance is asked of it.
LEMMA SendAsks ==
  ASSUME NEW C, Types(C), Protocol, Run(UI), NEW i \in Instances, NEW m,
         Now(UI) = SendStep(i, m), Idle(i)
  PROVE  Asked(i, m)' /\ Now(UI).to = i /\ prog'[UI] = Tail(prog[UI])
           /\ pc'[i] = pc[i] /\ queue'[i] = <<m>>
<1>1. /\ queue'[i] = Append(queue[i], m) /\ prog'[UI] = Tail(prog[UI])
      /\ UNCHANGED <<pc, sem>>
  BY RunSend
<1>2. UNCHANGED <<emu, cur>>
  BY RunTouches
<1>3. Append(<<>>, m) = <<m>>
  OBVIOUS
<1>4. queue'[i] = <<m>>
  BY <1>1, <1>3 DEF Idle
<1>5. Now(UI).to = i
  BY DEF SendStep
<1>6. Up(i)' /\ cur'[i] = None /\ sem'[i] = 0
  BY <1>1, <1>2 DEF Idle, Up
<1> QED BY <1>1, <1>4, <1>5, <1>6 DEF Asked

\* The credit for a message is taken after the message was answered.
LEMMA WaitAnswers ==
  ASSUME NEW C, Types(C), Protocol, Run(UI), NEW i \in Instances, NEW m,
         Now(UI) = WaitStep(i, 1), Asked(i, m)
  PROVE  /\ Idle(i)' /\ Answered(i, m)' /\ Now(UI).to = i /\ prog'[UI] = Tail(prog[UI])
         /\ sem[i] = 1 /\ pc'[i] = pc[i]
<1>1. /\ sem[i] >= 1 /\ sem'[i] = sem[i] - 1
      /\ prog'[UI] = Tail(prog[UI]) /\ UNCHANGED <<pc, queue>>
  BY RunWait
<1>2. UNCHANGED <<emu, cur, borrowed, result>>
  BY RunTouches
<1>3. Up(i) /\ queue[i] = <<>> /\ cur[i] = None /\ sem[i] = 1 /\ Answered(i, m)
  BY <1>1 DEF Asked
<1>4. sem'[i] = 0
  BY <1>1, <1>3
<1>5. Answered(i, m)'
  BY <1>1, <1>2, <1>3 DEF Answered, Lent
<1>6. Idle(i)'
  BY <1>1, <1>2, <1>3, <1>4 DEF Idle, Up
<1> QED BY <1>1, <1>3, <1>5, <1>6 DEF WaitStep

\* The UI thread sends the first message of a call.
LEMMA SendPhase ==
  ASSUME NEW C, Types(C), Protocol, Run(UI), NEW i \in Instances,
         \A j \in Instances \ {i} : AtRest(j), Idle(i), Sends(i, prog[UI])
  PROVE  Protocol'
<1> DEFINE w == WaitStep(i, 1)
<1>1. ASSUME NEW m \in Message, prog[UI] # <<>>, Head(prog[UI]) = SendStep(i, m),
             Waits(i, m, Tail(prog[UI]))
      PROVE  Protocol'
  <2>1. Asked(i, m)' /\ Now(UI).to = i /\ prog'[UI] = Tail(prog[UI])
    BY <1>1, SendAsks DEF Now
  <2>2. Waits(i, m, prog[UI])'
    BY <1>1, <2>1 DEF Waits
  <2>3. Phase(i, prog[UI])'
    BY <2>1, <2>2 DEF Phase
  <2> QED BY <2>1, <2>3, Reengage
<1>2. ASSUME NEW T \in Controls \ {"Exit"}, prog[UI] = <<SendStep(i, Msg(T)), w>>
      PROVE  Protocol'
  <2>1. /\ prog[UI] # <<>> /\ Head(prog[UI]) = SendStep(i, Msg(T))
        /\ Tail(prog[UI]) = <<w>>
    BY <1>2
  <2>2. Msg(T) \in Message /\ Msg(T).type = T
    BY MessageFacts
  <2>3. Waits(i, Msg(T), Tail(prog[UI]))
    BY <2>1, <2>2 DEF Waits
  <2> QED BY <1>1, <2>1, <2>2, <2>3
<1>3. ASSUME NEW T \in {"EmuPause", "EmuUnpause"}, NEW L \in SUBSET Instances,
             prog[UI] = <<SendStep(i, Msg(T)), w, BroadcastStep(L, T)>>
      PROVE  Protocol'
  <2>1. /\ prog[UI] # <<>> /\ Head(prog[UI]) = SendStep(i, Msg(T))
        /\ Tail(prog[UI]) = <<w, BroadcastStep(L, T)>>
    BY <1>3
  <2>2. Msg(T) \in Message /\ Msg(T).type = T
    BY MessageFacts DEF Controls
  <2>3. Waits(i, Msg(T), Tail(prog[UI]))
    BY <2>1, <2>2 DEF Waits
  <2> QED BY <1>1, <2>1, <2>2, <2>3
<1>4. ASSUME NEW c \in 1 .. MaxCalls,
             prog[UI] = <<SendStep(i, Command(c)), w, ReadStep(i, c)>>
      PROVE  Protocol'
  <2>1. /\ prog[UI] # <<>> /\ Head(prog[UI]) = SendStep(i, Command(c))
        /\ Tail(prog[UI]) = <<w, ReadStep(i, c)>>
    BY <1>4
  <2>2. Command(c) \in Message /\ Command(c).type = "Command" /\ Command(c).cmd = c
    BY MessageFacts
  <2>3. Waits(i, Command(c), Tail(prog[UI]))
    BY <2>1, <2>2 DEF Waits
  <2> QED BY <1>1, <2>1, <2>2, <2>3
<1>5. ASSUME NEW c \in 1 .. MaxCalls,
             prog[UI] = <<SendStep(i, Command(c)), w, ReadStep(i, c),
                          SendStep(i, Msg("EmuRun")), w>>
      PROVE  Protocol'
  <2>1. /\ prog[UI] # <<>> /\ Head(prog[UI]) = SendStep(i, Command(c))
        /\ Tail(prog[UI]) = <<w, ReadStep(i, c), SendStep(i, Msg("EmuRun")), w>>
    BY <1>5
  <2>2. Command(c) \in Message /\ Command(c).type = "Command" /\ Command(c).cmd = c
    BY MessageFacts
  <2>3. Waits(i, Command(c), Tail(prog[UI]))
    BY <2>1, <2>2 DEF Waits
  <2> QED BY <1>1, <2>1, <2>2, <2>3
<1>6. ASSUME NEW c \in 1 .. MaxCalls,
             prog[UI] = <<SendStep(i, Msg("EmuReset")), SendStep(i, Command(c)),
                          WaitStep(i, 2), ReadStep(i, c)>>
      PROVE  Protocol'
  <2>1. /\ prog[UI] # <<>> /\ Head(prog[UI]) = SendStep(i, Msg("EmuReset"))
        /\ Tail(prog[UI]) = <<SendStep(i, Command(c)), WaitStep(i, 2), ReadStep(i, c)>>
    BY <1>6
  <2>2. Asked(i, Msg("EmuReset"))' /\ Now(UI).to = i /\ prog'[UI] = Tail(prog[UI])
    BY <2>1, SendAsks DEF Now
  <2>3. Phase(i, prog[UI])'
    BY <2>1, <2>2 DEF Phase
  <2> QED BY <2>2, <2>3, Reengage
<1>7. ASSUME prog[UI] = <<SendStep(i, Msg("BorrowGL")), w, OtherStep("context", i),
                          OtherStep("returnGL", i)>>
      PROVE  Protocol'
  <2>1. /\ prog[UI] # <<>> /\ Head(prog[UI]) = SendStep(i, Msg("BorrowGL"))
        /\ Tail(prog[UI]) = <<w, OtherStep("context", i), OtherStep("returnGL", i)>>
    BY <1>7
  <2>2. Msg("BorrowGL") \in Message /\ Msg("BorrowGL").type = "BorrowGL"
    BY MessageFacts DEF Controls
  <2>3. Waits(i, Msg("BorrowGL"), Tail(prog[UI]))
    BY <2>1, <2>2 DEF Waits
  <2> QED BY <1>1, <2>1, <2>2, <2>3
<1> QED BY <1>2, <1>3, <1>4, <1>5, <1>6, <1>7 DEF Sends

\* The UI thread takes the credit it waits for.
LEMMA WaitPhase ==
  ASSUME NEW C, Types(C), Protocol, Run(UI), NEW i \in Instances,
         \A j \in Instances \ {i} : AtRest(j), NEW m \in Message, Asked(i, m),
         Waits(i, m, prog[UI])
  PROVE  Protocol'
<1> DEFINE w == WaitStep(i, 1)
<1>0. prog[UI] # <<>> /\ Head(prog[UI]) = w
  BY SMTT(60) DEF Waits
<1>1. /\ Idle(i)' /\ Answered(i, m)' /\ Now(UI).to = i /\ prog'[UI] = Tail(prog[UI])
  BY <1>0, WaitAnswers DEF Now
<1>2. AtRest(i)' /\ pc'[i] # "ended"
  BY <1>1 DEF AtRest, Idle, Up
<1>3. CASE m.type \in Controls \ {"Exit"} /\ prog[UI] = <<w>>
  <2>1. prog'[UI] = <<>>
    BY <1>1, <1>3
  <2>2. Between(prog[UI])'
    BY <2>1 DEF Between
  <2> QED BY <1>1, <1>2, <2>2, Disengage
<1>4. ASSUME NEW L \in SUBSET Instances, m.type \in {"EmuPause", "EmuUnpause"},
             prog[UI] = <<w, BroadcastStep(L, m.type)>>
      PROVE  Protocol'
  <2>1. prog'[UI] = <<BroadcastStep(L, m.type)>>
    BY <1>1, <1>4
  <2>2. Between(prog[UI])'
    BY <1>4, <2>1 DEF Between
  <2> QED BY <1>1, <1>2, <2>2, Disengage
<1>5. ASSUME m.type = "Command",
             \/ prog[UI] = <<w, ReadStep(i, m.cmd)>>
             \/ prog[UI] = <<w, ReadStep(i, m.cmd), SendStep(i, Msg("EmuRun")), w>>
      PROVE  Protocol'
  <2>1. \/ prog'[UI] = <<ReadStep(i, m.cmd)>>
        \/ prog'[UI] = <<ReadStep(i, m.cmd), SendStep(i, Msg("EmuRun")), w>>
    <3>1. CASE prog[UI] = <<w, ReadStep(i, m.cmd)>>
      BY <1>1, <3>1
    <3>2. CASE prog[UI] = <<w, ReadStep(i, m.cmd), SendStep(i, Msg("EmuRun")), w>>
      BY <1>1, <3>2
    <3> QED BY <1>5, <3>1, <3>2
  <2>2. result'[i].cmd = m.cmd
    BY <1>1, <1>5 DEF Answered
  <2>3. m.cmd \in 0 .. MaxCalls
    BY <1>5 DEF Message
  <2>4. Reads(i, prog[UI])'
    BY <2>1, <2>2, <2>3 DEF Reads
  <2>5. Phase(i, prog[UI])'
    BY <1>1, <2>4 DEF Phase
  <2> QED BY <1>1, <2>5, Reengage
<1>6. ASSUME m.type = "BorrowGL",
             prog[UI] = <<w, OtherStep("context", i), OtherStep("returnGL", i)>>
      PROVE  Protocol'
  <2>1. prog'[UI] = <<OtherStep("context", i), OtherStep("returnGL", i)>>
    BY <1>1, <1>6
  <2>2. Lent(i)'
    BY <1>1, <1>6 DEF Answered
  <2>3. Phase(i, prog[UI])'
    BY <1>1, <2>1, <2>2 DEF Phase
  <2> QED BY <1>1, <2>3, Reengage
<1> QED BY <1>3, <1>4, <1>5, <1>6 DEF Waits

\* The second message of importSavefile follows the first one
\* (EmuThread.cpp:854-855).
LEMMA ImportSends ==
  ASSUME NEW C, Types(C), Protocol, Run(UI), NEW i \in Instances,
         \A j \in Instances \ {i} : AtRest(j), Asked(i, Msg("EmuReset")),
         NEW c \in 1 .. MaxCalls,
         prog[UI] = <<SendStep(i, Command(c)), WaitStep(i, 2), ReadStep(i, c)>>
  PROVE  Protocol'
<1> DEFINE R == Msg("EmuReset")  D == Command(c)
<1>0. /\ prog[UI] # <<>> /\ Head(prog[UI]) = SendStep(i, D)
      /\ Tail(prog[UI]) = <<WaitStep(i, 2), ReadStep(i, c)>>
  OBVIOUS
<1>1. /\ pc[i] # "handle" /\ queue'[i] = Append(queue[i], D)
      /\ prog'[UI] = <<WaitStep(i, 2), ReadStep(i, c)>> /\ UNCHANGED <<pc, sem>>
  BY <1>0, RunSend DEF Now
<1>2. UNCHANGED <<emu, cur>>
  BY RunTouches
<1>3. Up(i)'
  BY <1>1, <1>2 DEF Asked, Up
<1>4. \/ queue[i] = <<R>> /\ cur[i] = None /\ sem[i] = 0
      \/ queue[i] = <<>> /\ cur[i] = None /\ sem[i] = 1
  BY <1>1 DEF Asked
<1> HIDE DEF R, D
<1>5. Append(<<R>>, D) = <<R, D>> /\ Append(<<>>, D) = <<D>>
  <2>1. Append(<<R>>, D) = <<R, D>>
    BY Pair
  <2>2. Append(<<>>, D) = <<D>>
    OBVIOUS
  <2> QED BY <2>1, <2>2
<1>6. \/ queue'[i] = <<R, D>> /\ cur'[i] = None /\ sem'[i] = 0
      \/ queue'[i] = <<D>> /\ cur'[i] = None /\ sem'[i] = 1
  BY ONLY <1>1, <1>2, <1>4, <1>5, Zenon
<1>7. AskedTwo(i, c)'
  BY <1>3, <1>6 DEF AskedTwo, R, D
<1>8. Phase(i, prog[UI])'
  BY <1>1, <1>7 DEF Phase
<1>9. Now(UI).to = i
  BY <1>0 DEF Now, SendStep
<1> QED BY <1>8, <1>9, Reengage

\* Both credits of importSavefile are there only when the command was handled.
LEMMA ImportWaits ==
  ASSUME NEW C, Types(C), Protocol, Run(UI), NEW i \in Instances,
         \A j \in Instances \ {i} : AtRest(j), NEW c \in 1 .. MaxCalls, AskedTwo(i, c),
         prog[UI] = <<WaitStep(i, 2), ReadStep(i, c)>>
  PROVE  Protocol'
<1>0. /\ prog[UI] # <<>> /\ Head(prog[UI]) = WaitStep(i, 2)
      /\ Tail(prog[UI]) = <<ReadStep(i, c)>>
  OBVIOUS
<1>1. /\ sem[i] >= 2 /\ sem'[i] = sem[i] - 2
      /\ prog'[UI] = <<ReadStep(i, c)>> /\ UNCHANGED <<pc, queue>>
  BY <1>0, RunWait DEF Now
<1>2. UNCHANGED <<emu, cur, result>>
  BY RunTouches
<1>3. Up(i) /\ queue[i] = <<>> /\ cur[i] = None /\ sem[i] = 2 /\ result[i].cmd = c
  BY <1>1 DEF AskedTwo
<1>4. sem'[i] = 0
  BY <1>1, <1>3
<1>5. Idle(i)'
  BY <1>1, <1>2, <1>3, <1>4 DEF Idle, Up
<1>6. Reads(i, prog[UI])'
  BY <1>1, <1>2, <1>3, OpsAssumption DEF Reads
<1>7. Phase(i, prog[UI])'
  BY <1>5, <1>6 DEF Phase
<1>8. Now(UI).to = i
  BY <1>0 DEF Now, WaitStep
<1> QED BY <1>7, <1>8, Reengage

\* The result is read; after a successful boot the emulator is started
\* (EmuThread.cpp:779-805).
LEMMA ReadPhase ==
  ASSUME NEW C, Types(C), Protocol, Run(UI), NEW i \in Instances,
         \A j \in Instances \ {i} : AtRest(j), Idle(i), Reads(i, prog[UI])
  PROVE  Protocol'
<1>0. PICK c \in 0 .. MaxCalls :
        \/ prog[UI] = <<ReadStep(i, c)>>
        \/ prog[UI] = <<ReadStep(i, c), SendStep(i, Msg("EmuRun")), WaitStep(i, 1)>>
  BY DEF Reads
<1>1. /\ prog[UI] # <<>> /\ Head(prog[UI]) = ReadStep(i, c)
      /\ Tail(prog[UI]) \in {<<>>, <<SendStep(i, Msg("EmuRun")), WaitStep(i, 1)>>}
  <2>1. CASE prog[UI] = <<ReadStep(i, c)>>
    BY <2>1
  <2>2. CASE prog[UI] = <<ReadStep(i, c), SendStep(i, Msg("EmuRun")), WaitStep(i, 1)>>
    BY <2>2
  <2> QED BY <1>0, <2>1, <2>2
<1>2. prog'[UI] \in {Tail(prog[UI]), <<>>} /\ UNCHANGED <<pc, queue, sem>>
  BY <1>1, RunRead DEF Now
<1>3. UNCHANGED <<emu, cur>>
  BY RunTouches
<1>4. Idle(i)'
  BY <1>2, <1>3 DEF Idle, Up
<1>5. Now(UI).to = i
  BY <1>1 DEF Now, ReadStep
<1>6. CASE prog'[UI] = <<>>
  <2>1. Between(prog[UI])'
    BY <1>6 DEF Between
  <2>2. AtRest(i)' /\ pc'[i] # "ended"
    BY <1>4 DEF AtRest, Idle, Up
  <2> QED BY <1>5, <2>1, <2>2, Disengage
<1>7. CASE prog'[UI] = <<SendStep(i, Msg("EmuRun")), WaitStep(i, 1)>>
  <2>1. Sends(i, prog[UI])'
    BY <1>7 DEF Sends, Controls
  <2>2. Phase(i, prog[UI])'
    BY <1>4, <2>1 DEF Phase
  <2> QED BY <1>5, <2>2, Reengage
<1> QED BY <1>1, <1>2, <1>6, <1>7

\* The context is made and given back (Window.cpp:875-894).
LEMMA LoanPhase ==
  ASSUME NEW C, Types(C), Protocol, Run(UI), NEW i \in Instances,
         \A j \in Instances \ {i} : AtRest(j), Idle(i),
         \/ prog[UI] = <<OtherStep("context", i), OtherStep("returnGL", i)>>
         \/ prog[UI] = <<OtherStep("returnGL", i)>>
  PROVE  Protocol'
<1>0. UNCHANGED <<emu, cur>>
  BY RunTouches
<1>1. CASE prog[UI] = <<OtherStep("context", i), OtherStep("returnGL", i)>>
  <2>1. /\ prog[UI] # <<>> /\ Head(prog[UI]) = OtherStep("context", i)
        /\ Tail(prog[UI]) = <<OtherStep("returnGL", i)>>
    BY <1>1
  <2>2. prog'[UI] = <<OtherStep("returnGL", i)>> /\ UNCHANGED <<pc, queue, sem>>
    BY <2>1, RunContext DEF Now
  <2>3. Idle(i)'
    BY <1>0, <2>2 DEF Idle, Up
  <2>4. Phase(i, prog[UI])'
    BY <2>2, <2>3 DEF Phase
  <2>5. Now(UI).to = i
    BY <2>1 DEF Now, OtherStep
  <2> QED BY <2>4, <2>5, Reengage
<1>2. CASE prog[UI] = <<OtherStep("returnGL", i)>>
  <2>1. /\ prog[UI] # <<>> /\ Head(prog[UI]) = OtherStep("returnGL", i)
        /\ Tail(prog[UI]) = <<>>
    BY <1>2
  <2>2. prog'[UI] = <<>> /\ UNCHANGED <<queue, sem>> /\ pc'[i] \in {pc[i], LoopTest(i)}
    BY <2>1, RunReturn DEF Now
  <2>3. Idle(i)'
    BY <1>0, <2>2 DEF Idle, Up, LoopTest
  <2>4. AtRest(i)' /\ pc'[i] # "ended"
    BY <2>3 DEF AtRest, Idle, Up
  <2>5. Between(prog[UI])'
    BY <2>2 DEF Between
  <2>6. Now(UI).to = i
    BY <2>1 DEF Now, OtherStep
  <2> QED BY <2>4, <2>5, <2>6, Disengage
<1> QED BY <1>1, <1>2

\* An instance is told to exit and waited for (EmuThread.cpp:745-749,
\* EmuInstance.cpp:160-167).
LEMMA ExitPhase ==
  ASSUME NEW C, Types(C), Protocol, Run(UI), NEW i \in Instances,
         \A j \in Instances \ {i} : AtRest(j), dialog = None, Exits(i, prog[UI])
  PROVE  Protocol'
<1> DEFINE wa == OtherStep("waitAll", i)  aq == OtherStep("acquire", i)
           jn == OtherStep("join", i)
<1>0. UNCHANGED <<emu, cur>>
  BY RunTouches
<1>1. CASE Idle(i) /\ prog[UI] = <<SendStep(i, Msg("Exit")), wa, jn>>
  <2>1. /\ prog[UI] # <<>> /\ Head(prog[UI]) = SendStep(i, Msg("Exit"))
        /\ Tail(prog[UI]) = <<wa, jn>>
    BY <1>1
  <2>2. Asked(i, Msg("Exit"))' /\ Now(UI).to = i /\ prog'[UI] = <<wa, jn>>
          /\ queue'[i] = <<Msg("Exit")>>
    BY <1>1, <2>1, SendAsks DEF Now
  <2>3. Up(i)' /\ cur'[i] = None
    BY <1>0, <1>1, <2>2 DEF Asked, Idle
  <2>4. Leaving(i)'
    BY <2>2, <2>3 DEF Leaving
  <2>5. Exits(i, prog[UI])'
    BY <2>2, <2>4 DEF Exits
  <2> QED BY <2>2, <2>5, Reengage
<1>2. ASSUME NEW d \in {"waitAll", "acquire"}, Leaving(i),
             prog[UI] = <<OtherStep(d, i), jn>>
      PROVE  Protocol'
  <2>1. /\ prog[UI] # <<>> /\ Head(prog[UI]) = OtherStep(d, i) /\ Tail(prog[UI]) = <<jn>>
    BY <1>2
  <2>2. /\ prog'[UI] \in {<<jn>>, Step("waitAll", i) \o <<jn>>, Step("acquire", i) \o <<jn>>}
        /\ UNCHANGED <<pc, queue>>
    BY <2>1, RunWaitAll DEF Now
  <2>3. Step("waitAll", i) \o <<jn>> = <<wa, jn>> /\ Step("acquire", i) \o <<jn>> = <<aq, jn>>
    <3>1. <<wa>> \o <<jn>> = <<wa, jn>> /\ <<aq>> \o <<jn>> = <<aq, jn>>
      BY Pair
    <3> QED BY <3>1 DEF Step, OtherStep
  <2>4. Leaving(i)'
    BY <1>0, <1>2, <2>2 DEF Leaving, Up
  <2>5. Exits(i, prog[UI])'
    BY <2>2, <2>3, <2>4 DEF Exits
  <2>6. Now(UI).to = i
    BY <2>1 DEF Now, OtherStep
  <2> QED BY <2>5, <2>6, Reengage
<1>3. CASE Leaving(i) /\ prog[UI] = <<jn>>
  <2>1. /\ prog[UI] # <<>> /\ Head(prog[UI]) = jn /\ Tail(prog[UI]) = <<>>
    BY <1>3
  <2>2. prog'[UI] = <<>> /\ UNCHANGED <<pc, queue, sem>> /\ pc[i] = "ended"
    BY <2>1, RunJoin DEF Now
  <2>3. Gone(i)'
    BY <1>0, <1>3, <2>2 DEF Leaving, Up, Gone
  <2>4. Between(prog[UI])' /\ AtRest(i)'
    BY <2>2, <2>3 DEF Between, AtRest
  <2>5. Now(UI).to = i /\ dialog # i
    BY <2>1, InstancesAssumption DEF Now, OtherStep
  <2> QED BY <2>4, <2>5, Disengage
<1> QED BY <1>1, <1>2, <1>3 DEF Exits

\* The broadcast goes on to the next live instance, or is over.
LEMMA BroadcastPhase ==
  ASSUME NEW C, Types(C), Protocol, Run(UI), \A j \in Instances : AtRest(j),
         Between(prog[UI])
  PROVE  Protocol'
<1>0. prog[UI] # <<>> /\ UNCHANGED <<emu, cur>>
  BY RunTouches
<1>1. PICK T \in {"EmuPause", "EmuUnpause"}, L \in SUBSET Instances :
        prog[UI] = <<BroadcastStep(L, T)>>
  BY <1>0 DEF Between
<1>2. Now(UI) = BroadcastStep(L, T) /\ Tail(prog[UI]) = <<>>
  BY <1>1 DEF Now
<1>3. /\ UNCHANGED <<pc, queue, sem>>
      /\ \/ prog'[UI] = <<>>
         \/ \E j \in L : /\ pc[j] # "ended"
                         /\ prog'[UI] = <<SendStep(j, Msg(T)), WaitStep(j, 1),
                                          BroadcastStep({k \in L : pc[k] # "ended"} \ {j}, T)>>
  BY <1>2, RunBroadcast
<1>4. Now(UI).do = "broadcast"
  BY <1>2 DEF BroadcastStep
<1>5. \A j \in Instances : AtRest(j)'
  BY <1>0, <1>3 DEF AtRest, Idle, Gone, Up
<1>6. CASE prog'[UI] = <<>>
  <2>1. dialog' = dialog /\ \A j \in Instances : prog'[j] = <<>>
    BY RunTouches
  <2>2. Between(prog[UI])'
    BY <1>6 DEF Between
  <2>3. dialog' # None => pc'[dialog'] # "ended"
    BY <1>3, <2>1 DEF Protocol
  <2> QED BY <1>5, <2>1, <2>2, <2>3 DEF Protocol
<1>7. ASSUME NEW j \in L, pc[j] # "ended", NEW M \in SUBSET Instances,
             prog'[UI] = <<SendStep(j, Msg(T)), WaitStep(j, 1), BroadcastStep(M, T)>>
      PROVE  Protocol'
  <2>1. j \in Instances
    OBVIOUS
  <2>2. Idle(j)
    BY <1>7, <2>1 DEF AtRest, Gone
  <2>3. Idle(j)'
    BY <1>0, <1>3, <2>2 DEF Idle, Up
  <2>4. Sends(j, prog[UI])'
    BY <1>7 DEF Sends
  <2>5. Phase(j, prog[UI])'
    BY <2>3, <2>4 DEF Phase
  <2> QED BY <1>4, <2>1, <2>5, Reengage
<1>8. \A j \in L : {k \in L : pc[k] # "ended"} \ {j} \in SUBSET Instances
  OBVIOUS
<1> QED BY <1>3, <1>6, <1>7, <1>8

\* Every step of the UI thread's program keeps the protocol.
LEMMA RunProtocol ==
  ASSUME NEW C, Types(C), Protocol, Run(UI)
  PROVE  Protocol'
<1>1. CASE Between(prog[UI]) /\ \A j \in Instances : AtRest(j)
  BY <1>1, BroadcastPhase
<1>2. ASSUME NEW i \in Instances, Engaged(i) PROVE Protocol'
  <2>1. \A j \in Instances \ {i} : AtRest(j)
    BY <1>2 DEF Engaged
  <2>2. CASE dialog = None /\ Exits(i, prog[UI])
    BY <2>1, <2>2, ExitPhase
  <2>3. CASE Phase(i, prog[UI])
    <3>1. CASE Idle(i) /\ Sends(i, prog[UI])
      BY <2>1, <3>1, SendPhase
    <3>2. ASSUME NEW m \in Message, Asked(i, m), Waits(i, m, prog[UI]) PROVE Protocol'
      BY <2>1, <3>2, WaitPhase
    <3>3. ASSUME NEW c \in 1 .. MaxCalls, Asked(i, Msg("EmuReset")),
                 prog[UI] = <<SendStep(i, Command(c)), WaitStep(i, 2), ReadStep(i, c)>>
          PROVE  Protocol'
      BY <2>1, <3>3, ImportSends
    <3>4. ASSUME NEW c \in 1 .. MaxCalls, AskedTwo(i, c),
                 prog[UI] = <<WaitStep(i, 2), ReadStep(i, c)>>
          PROVE  Protocol'
      BY <2>1, <3>4, ImportWaits
    <3>5. CASE Idle(i) /\ Reads(i, prog[UI])
      BY <2>1, <3>5, ReadPhase
    <3>6. ASSUME Idle(i), \/ prog[UI] = <<OtherStep("context", i), OtherStep("returnGL", i)>>
                          \/ prog[UI] = <<OtherStep("returnGL", i)>>
          PROVE  Protocol'
      BY <2>1, <3>6, LoanPhase
    <3> QED BY <2>3, <3>1, <3>2, <3>3, <3>4, <3>5, <3>6 DEF Phase
  <2> QED BY <1>2, <2>2, <2>3 DEF Engaged
<1> QED BY <1>1, <1>2 DEF Protocol

\* When the emulation threads make no calls, all there is left are their loops,
\* the user and the UI thread's program.
LEMMA OnlyUI ==
  ASSUME UIOnly, Protocol, Next
  PROVE  UserAction \/ Run(UI) \/ \E i \in Instances : LoopStep(i)
<1>1. \A i \in Instances : ~Run(i) /\ ~Hotkeys(i) /\ ~PowerOff(i)
  BY DEF UIOnly, Protocol, Working, Run, sendMessage, waitMessage, waitAllMessages,
         ReadResult, broadcastInstanceCommand, CreateContext, returnGL, JoinThread,
         Hotkeys, PowerOff
<1> QED BY <1>1 DEF Next, EmulationThread, LoopStep

\* Every step keeps the protocol.
LEMMA NextProtocol ==
  ASSUME UIOnly, NEW C, Types(C), Protocol, [Next]_vars
  PROVE  Protocol'
<1>1. CASE UNCHANGED vars
  BY <1>1, NothingDone DEF vars, loop, window
<1>2. CASE Next
  BY <1>2, OnlyUI, UserProtocol, RunProtocol, LoopProtocol
<1> QED BY <1>1, <1>2

\* At the start nobody has asked for anything.
LEMMA InitProtocol == Init => Protocol
<1> SUFFICES ASSUME Init PROVE Protocol
  OBVIOUS
<1>1. /\ \A i \in Instances : prog[i] = <<>> /\ queue[i] = <<>> /\ cur[i] = None
           /\ sem[i] = 0 /\ pc[i] = "top"
      /\ prog[UI] = <<>> /\ dialog = None
  BY DEF Init, Threads
<1>2. \A i \in Instances : emu[i].status = "Paused" /\ emu[i].prev = "Paused"
  BY DEF Init
<1>3. \A i \in Instances : AtRest(i)
  BY <1>1, <1>2 DEF AtRest, Idle, Up
<1> QED BY <1>1, <1>3 DEF Protocol, Between

\* When only the UI thread makes calls, the protocol is kept: at any time it is
\* busy with one instance at most, and what that instance has on its queue, in
\* its hands and in its semaphore adds up to what the call still waits for.
THEOREM ProtocolInvariance ==
  ASSUME UIOnly
  PROVE  Spec => [](Types(Stepless) /\ Protocol)
<1>1. AllKinds(Stepless)
  BY DEF AllKinds, Stepless, UIOnly
<1>2. Init => Types(Stepless) /\ Protocol
  BY InitTypes, InitProtocol
<1>3. Types(Stepless) /\ Protocol /\ [Next]_vars => (Types(Stepless) /\ Protocol)'
  BY <1>1, NextTypes, NextProtocol
<1> QED BY <1>2, <1>3, PTL DEF Spec

-----------------------------------------------------------------------------
(* What the protocol is for. *)

\* While the UI thread makes its GL context, the emulation thread has released
\* its own and is on its way to wait for it (EmuThread.cpp:572-575, 667-674,
\* Window.cpp:875-894).
THEOREM ContextIsExclusive ==
  ASSUME UIOnly
  PROVE  Spec => []GLExclusive
<1>1. Protocol => GLExclusive
  <2> SUFFICES ASSUME Protocol, prog[UI] # <<>>, Head(prog[UI]).do = "context"
               PROVE  pc[Head(prog[UI]).to] \in {"handle", "gl", "glwait"}
    BY DEF GLExclusive, Working, Now
  <2>0. \A i, c, m, n, L, T : /\ SendStep(i, m).do = "send" /\ WaitStep(i, n).do = "wait"
                              /\ BroadcastStep(L, T).do = "broadcast"
                              /\ ReadStep(i, c).do = "read"
    BY DEF SendStep, WaitStep, BroadcastStep, ReadStep
  <2>00. \A i, d : OtherStep(d, i).do = d /\ OtherStep(d, i).to = i
    BY DEF OtherStep
  <2>1. ~Between(prog[UI])
    BY <2>0 DEF Between
  <2>2. PICK i \in Instances : Phase(i, prog[UI]) \/ Exits(i, prog[UI])
    BY <2>1 DEF Protocol, Engaged
  <2>3. ~Exits(i, prog[UI]) /\ ~Sends(i, prog[UI]) /\ ~Reads(i, prog[UI])
    BY <2>0, <2>00 DEF Exits, Sends, Reads
  <2>4. \A m \in Message : ~Waits(i, m, prog[UI])
    BY <2>0 DEF Waits
  <2>5. Lent(i) /\ Head(prog[UI]) = OtherStep("context", i)
    BY <2>0, <2>00, <2>2, <2>3, <2>4 DEF Phase
  <2> QED BY <2>00, <2>5 DEF Lent
<1> QED BY <1>1, ProtocolInvariance, PTL

-----------------------------------------------------------------------------
(* Whose credits they are: as long as only calls that take the credit of each *)
(* of their messages were made to an instance, and only by the UI thread, the *)
(* books of the instance balance, whatever goes on in the other ones.         *)

\* Nothing is on its way to i or back.
Clear(i) == queue[i] = <<>> /\ cur[i] = None /\ sem[i] = 0

\* Message m is on the queue, being handled, or handled and its credit given.
Pending(i, m) ==
  \/ queue[i] = <<m>> /\ cur[i] = None /\ sem[i] = 0
  \/ queue[i] = <<>> /\ cur[i] = m /\ pc[i] = "handle" /\ sem[i] = 0
  \/ queue[i] = <<>> /\ cur[i] = None /\ sem[i] = 1
       /\ (m.type = "Command" => result[i].cmd = m.cmd)

\* The two messages of importSavefile.
PendingTwo(i, c) ==
  \/ queue[i] = <<Msg("EmuReset"), Command(c)>> /\ cur[i] = None /\ sem[i] = 0
  \/ queue[i] = <<Command(c)>> /\ cur[i] = Msg("EmuReset") /\ pc[i] = "handle"
       /\ sem[i] = 0
  \/ queue[i] = <<Command(c)>> /\ cur[i] = None /\ sem[i] = 1
  \/ queue[i] = <<>> /\ cur[i] = Command(c) /\ pc[i] = "handle" /\ sem[i] = 1
  \/ queue[i] = <<>> /\ cur[i] = None /\ sem[i] = 2 /\ result[i].cmd = c

\* The books of i balance with what is left of the UI thread's call.
Balanced(i, p) ==
  \/ Clear(i) /\ Sends(i, p)
  \/ \E m \in Message : Pending(i, m) /\ Waits(i, m, p)
  \/ \E c \in 1 .. MaxCalls :
       \/ /\ Pending(i, Msg("EmuReset"))
          /\ p = <<SendStep(i, Command(c)), WaitStep(i, 2), ReadStep(i, c)>>
       \/ PendingTwo(i, c) /\ p = <<WaitStep(i, 2), ReadStep(i, c)>>
  \/ Clear(i) /\ Reads(i, p)
  \/ Clear(i) /\ p = <<OtherStep("context", i), OtherStep("returnGL", i)>>
  \/ Clear(i) /\ p = <<OtherStep("returnGL", i)>>

\* What is left of a call concerns i, or is a broadcast to the others.
Mine(i, p) ==
  \A k \in DOMAIN p :
    IF p[k].do = "broadcast" THEN k = Len(p) /\ p[k].type \in {"EmuPause", "EmuUnpause"}
    ELSE p[k].to = i

Dealing(i) ==
  /\ \A j \in Instances \ (stray \cup {i}) : Clear(j)
  /\ (i \in stray /\ Mine(i, prog[UI])) \/ Balanced(i, prog[UI])

Settled == Between(prog[UI]) /\ \A j \in Instances \ stray : Clear(j)

\* The steps of p concern instances in S only.
To(S, p) == \A k \in DOMAIN p : p[k].do # "broadcast" => p[k].to \in S

Credits ==
  /\ Settled \/ \E i \in Instances : Dealing(i)
  /\ \A j \in Instances : To(stray, prog[j])

\* A call that begins with sending concerns its instance only.
LEMMA SendsIsMine ==
  ASSUME NEW i, NEW p, Sends(i, p)
  PROVE  Mine(i, p)
<1> USE DEF Mine, SendStep, WaitStep, ReadStep, BroadcastStep, OtherStep
<1>1. ASSUME NEW m, p = <<SendStep(i, m), WaitStep(i, 1)>> PROVE Mine(i, p)
  BY <1>1
<1>2. ASSUME NEW m, NEW T \in {"EmuPause", "EmuUnpause"}, NEW L,
             p = <<SendStep(i, m), WaitStep(i, 1), BroadcastStep(L, T)>>
      PROVE  Mine(i, p)
  BY <1>2
<1>3. ASSUME NEW m, NEW c, p = <<SendStep(i, m), WaitStep(i, 1), ReadStep(i, c)>>
      PROVE  Mine(i, p)
  BY <1>3
<1>4. ASSUME NEW m, NEW c, NEW n,
             p = <<SendStep(i, m), WaitStep(i, 1), ReadStep(i, c), SendStep(i, n),
                   WaitStep(i, 1)>>
      PROVE  Mine(i, p)
  BY <1>4
<1>5. ASSUME NEW m, NEW c, NEW n,
             p = <<SendStep(i, m), SendStep(i, n), WaitStep(i, 2), ReadStep(i, c)>>
      PROVE  Mine(i, p)
  BY <1>5
<1>6. ASSUME NEW m, p = <<SendStep(i, m), WaitStep(i, 1), OtherStep("context", i),
                          OtherStep("returnGL", i)>>
      PROVE  Mine(i, p)
  BY <1>6
<1> HIDE DEF Mine, SendStep, WaitStep, ReadStep, BroadcastStep, OtherStep
<1> QED BY <1>1, <1>2, <1>3, <1>4, <1>5, <1>6 DEF Sends

\* A call whose books balance concerns its instance only.
LEMMA BalancedIsMine ==
  ASSUME NEW i, NEW p, Balanced(i, p)
  PROVE  Mine(i, p)
<1> USE DEF Mine, SendStep, WaitStep, ReadStep, BroadcastStep, OtherStep
<1>1. CASE Sends(i, p)
  BY <1>1, SendsIsMine
<1>2. ASSUME NEW m, Waits(i, m, p) PROVE Mine(i, p)
  <2>1. ASSUME p = <<WaitStep(i, 1)>> PROVE Mine(i, p)
    BY <2>1
  <2>2. ASSUME NEW T \in {"EmuPause", "EmuUnpause"}, NEW L,
               p = <<WaitStep(i, 1), BroadcastStep(L, T)>>
        PROVE  Mine(i, p)
    BY <2>2
  <2>3. ASSUME NEW c, p = <<WaitStep(i, 1), ReadStep(i, c)>>
        PROVE  Mine(i, p)
    BY <2>3
  <2>4. ASSUME NEW c, NEW n,
               p = <<WaitStep(i, 1), ReadStep(i, c), SendStep(i, n), WaitStep(i, 1)>>
        PROVE  Mine(i, p)
    BY <2>4
  <2>5. ASSUME p = <<WaitStep(i, 1), OtherStep("context", i), OtherStep("returnGL", i)>>
        PROVE  Mine(i, p)
    BY <2>5
  <2> HIDE DEF Mine, SendStep, WaitStep, ReadStep, BroadcastStep, OtherStep
  <2> QED BY <1>2, <2>1, <2>2, <2>3, <2>4, <2>5 DEF Waits
<1>3. ASSUME NEW c, NEW m, p = <<SendStep(i, m), WaitStep(i, 2), ReadStep(i, c)>>
      PROVE  Mine(i, p)
  BY <1>3
<1>4. ASSUME NEW c, p = <<WaitStep(i, 2), ReadStep(i, c)>> PROVE Mine(i, p)
  BY <1>4
<1>5. CASE Reads(i, p)
  <2>1. ASSUME NEW c, p = <<ReadStep(i, c)>> PROVE Mine(i, p)
    BY <2>1
  <2>2. ASSUME NEW c, NEW n, p = <<ReadStep(i, c), SendStep(i, n), WaitStep(i, 1)>>
        PROVE  Mine(i, p)
    BY <2>2
  <2> HIDE DEF Mine, SendStep, WaitStep, ReadStep, BroadcastStep, OtherStep
  <2> QED BY <1>5, <2>1, <2>2 DEF Reads
<1>6. ASSUME p = <<OtherStep("context", i), OtherStep("returnGL", i)>> PROVE Mine(i, p)
  BY <1>6
<1>7. ASSUME p = <<OtherStep("returnGL", i)>> PROVE Mine(i, p)
  BY <1>7
<1> HIDE DEF Mine, SendStep, WaitStep, ReadStep, BroadcastStep, OtherStep
<1> QED BY <1>1, <1>2, <1>3, <1>4, <1>5, <1>6, <1>7 DEF Balanced

\* A call whose books have to balance is not over.
LEMMA BalancedIsBusy ==
  ASSUME NEW i, Balanced(i, <<>>)
  PROVE  FALSE
<1>1. ~Sends(i, <<>>)
  BY DEF Sends
<1>2. \A m : ~Waits(i, m, <<>>)
  BY DEF Waits
<1>3. ~Reads(i, <<>>)
  BY DEF Reads
<1> QED BY <1>1, <1>2, <1>3 DEF Balanced

-----------------------------------------------------------------------------
(* The books of an instance nobody touches, and of one that takes a turn. *)

\* An instance whose queue, message, credits and result stay the same.
Same(j) ==
  /\ queue'[j] = queue[j] /\ cur'[j] = cur[j] /\ sem'[j] = sem[j]
  /\ result'[j] = result[j] /\ (pc[j] = "handle" => pc'[j] = "handle")

\* An instance nobody touches keeps its books.
LEMMA SameBooks ==
  ASSUME NEW j, Same(j)
  PROVE  /\ Clear(j) => Clear(j)'
         /\ \A p : Balanced(j, p) => Balanced(j, p)'
<1>1. Clear(j) => Clear(j)'
  BY DEF Same, Clear
<1>2. \A m : Pending(j, m) => Pending(j, m)'
  BY DEF Same, Pending
<1>3. \A c : PendingTwo(j, c) => PendingTwo(j, c)'
  BY DEF Same, PendingTwo
<1>4. \A p : Reads(j, p) => Reads(j, p)'
  BY DEF Same, Reads
<1>5. /\ \A p : Sends(j, p) => Sends(j, p)'
      /\ \A m, p : Waits(j, m, p) => Waits(j, m, p)'
  BY DEF Sends, Waits
<1> QED BY <1>1, <1>2, <1>3, <1>4, <1>5 DEF Balanced

\* A step that leaves the UI thread's call and the instances without stray
\* credits alone keeps the UI thread's books.
LEMMA BooksKept ==
  ASSUME Settled \/ \E i \in Instances : Dealing(i), prog'[UI] = prog[UI],
         stray \subseteq stray', \A j \in Instances \ stray' : Same(j)
  PROVE  (Settled \/ \E i \in Instances : Dealing(i))'
<1>1. PICK p : p = prog[UI] /\ p = prog'[UI]
  OBVIOUS
<1>2. CASE Settled
  <2>1. \A j \in Instances \ stray' : Clear(j)'
    BY <1>2, SameBooks DEF Settled
  <2>2. Between(prog[UI])'
    BY <1>1, <1>2 DEF Settled, Between
  <2> QED BY <2>1, <2>2 DEF Settled
<1>3. ASSUME NEW i \in Instances, Dealing(i) PROVE Dealing(i)'
  <2>1. \A j \in Instances \ (stray' \cup {i}) : Clear(j)'
    BY <1>3, SameBooks DEF Dealing
  <2>2. CASE i \in stray'
    <3>1. Mine(i, p)
      BY <1>1, <1>3, BalancedIsMine DEF Dealing
    <3>2. Mine(i, prog[UI])'
      BY <1>1, <3>1 DEF Mine
    <3> QED BY <2>1, <2>2, <3>2 DEF Dealing
  <2>3. CASE i \notin stray'
    <3>1. Balanced(i, p)
      BY <1>1, <1>3, <2>3 DEF Dealing
    <3>2. Balanced(i, p)'
      BY <2>3, <3>1, SameBooks
    <3>3. Balanced(i, prog[UI])'
      BY <1>1, <3>2
    <3> QED BY <2>1, <3>3 DEF Dealing
  <2> QED BY <2>2, <2>3
<1> QED BY <1>2, <1>3

\* A turn without a message touches no books.
LEMMA QuietTurn ==
  ASSUME NEW C, Types(C), NEW i \in Instances,
         Turn(i) \/ FrameOver(i) \/ MessagesDone(i) \/ AwaitGL(i)
  PROVE  /\ UNCHANGED <<queue, cur, sem, result>>
         /\ pc[i] = "handle" => cur[i] = None
  BY DEF Turn, FrameOver, MessagesDone, AwaitGL

\* An instance that was asked nothing stays so.
LEMMA ClearStays ==
  ASSUME NEW C, Types(C), NEW i \in Instances, LoopStep(i), Clear(i)
  PROVE  Clear(i)' /\ result'[i] = result[i]
<1>1. queue[i] = <<>> /\ cur[i] = None /\ sem[i] = 0
  BY DEF Clear
<1>2. Turn(i) \/ FrameOver(i) \/ MessagesDone(i) \/ AwaitGL(i)
  BY <1>1 DEF LoopStep, TakeMessage, HandleMessage
<1>3. UNCHANGED <<queue, cur, sem, result>>
  BY <1>2, QuietTurn
<1> QED BY <1>1, <1>3 DEF Clear

\* A message is taken, handled and answered, in that order and once.
LEMMA PendingStays ==
  ASSUME NEW C, Types(C), NEW i \in Instances, LoopStep(i),
         NEW m \in Message, Pending(i, m)
  PROVE  Pending(i, m)'
<1>0. m # None
  BY NoneAssumption
<1>1. CASE Turn(i) \/ FrameOver(i) \/ MessagesDone(i) \/ AwaitGL(i)
  <2>1. UNCHANGED <<queue, cur, sem, result>> /\ (pc[i] = "handle" => cur[i] = None)
    BY <1>1, QuietTurn
  <2> QED BY <1>0, <2>1 DEF Pending
<1>2. CASE TakeMessage(i)
  <2>1. /\ queue[i] # <<>> /\ queue'[i] = Tail(queue[i]) /\ cur'[i] = Head(queue[i])
        /\ pc'[i] = "handle" /\ sem'[i] = sem[i]
    BY <1>2, Taken
  <2>2. queue[i] = <<m>> /\ sem[i] = 0
    BY <2>1 DEF Pending
  <2>3. queue'[i] = <<>> /\ cur'[i] = m
    BY <2>1, <2>2
  <2> QED BY <2>1, <2>2, <2>3 DEF Pending
<1>3. CASE HandleMessage(i)
  <2>1. /\ cur[i] # None /\ cur'[i] = None
        /\ queue'[i] = queue[i] /\ sem'[i] = sem[i] + 1
        /\ cur[i].type = "Command" => result'[i].cmd = cur[i].cmd
    BY <1>3, Handled
  <2>2. queue[i] = <<>> /\ cur[i] = m /\ sem[i] = 0
    BY <2>1 DEF Pending
  <2>3. queue'[i] = <<>> /\ sem'[i] = 1
    BY <2>1, <2>2
  <2> QED BY <2>1, <2>2, <2>3 DEF Pending
<1> QED BY <1>1, <1>2, <1>3 DEF LoopStep

\* The reset and the command of importSavefile are handled in that order, and
\* the second credit comes after the command (EmuThread.cpp:852-858).
LEMMA PendingTwoStays ==
  ASSUME NEW C, Types(C), NEW i \in Instances, LoopStep(i),
         NEW c \in 0 .. MaxCalls, PendingTwo(i, c)
  PROVE  PendingTwo(i, c)'
<1> DEFINE R == Msg("EmuReset")  D == Command(c)
<1>0. /\ R # None /\ D # None /\ R.type = "EmuReset" /\ D.type = "Command" /\ D.cmd = c
  <2>1. R \in Message /\ D \in Message
    BY OpsAssumption DEF Msg, Command, Message, Controls
  <2> QED BY <2>1, NoneAssumption DEF Msg, Command
<1>1. \/ queue[i] = <<R, D>> /\ cur[i] = None /\ sem[i] = 0
      \/ queue[i] = <<D>> /\ cur[i] = R /\ pc[i] = "handle" /\ sem[i] = 0
      \/ queue[i] = <<D>> /\ cur[i] = None /\ sem[i] = 1
      \/ queue[i] = <<>> /\ cur[i] = D /\ pc[i] = "handle" /\ sem[i] = 1
      \/ queue[i] = <<>> /\ cur[i] = None /\ sem[i] = 2 /\ result[i].cmd = c
  BY DEF PendingTwo
<1> DEFINE Two == \/ queue[i] = <<R, D>> /\ cur[i] = None /\ sem[i] = 0
                  \/ queue[i] = <<D>> /\ cur[i] = R /\ pc[i] = "handle" /\ sem[i] = 0
                  \/ queue[i] = <<D>> /\ cur[i] = None /\ sem[i] = 1
                  \/ queue[i] = <<>> /\ cur[i] = D /\ pc[i] = "handle" /\ sem[i] = 1
                  \/ queue[i] = <<>> /\ cur[i] = None /\ sem[i] = 2 /\ result[i].cmd = c
<1> SUFFICES Two'
  BY DEF PendingTwo
<1> HIDE DEF R, D
<1>2. CASE Turn(i) \/ FrameOver(i) \/ MessagesDone(i) \/ AwaitGL(i)
  <2>1. UNCHANGED <<queue, cur, sem, result>> /\ (pc[i] = "handle" => cur[i] = None)
    BY <1>2, QuietTurn
  <2> QED BY <1>0, <1>1, <2>1
<1>3. CASE TakeMessage(i)
  <2>1. /\ queue[i] # <<>> /\ queue'[i] = Tail(queue[i]) /\ cur'[i] = Head(queue[i])
        /\ pc'[i] = "handle" /\ sem'[i] = sem[i]
        /\ pc[i] = "handle" => cur[i] = None
    BY <1>3, Taken
  <2>2. CASE queue[i] = <<R, D>> /\ sem[i] = 0
    <3>1. queue'[i] = <<D>> /\ cur'[i] = R
      BY <2>1, <2>2
    <3> QED BY <2>1, <2>2, <3>1
  <2>3. CASE queue[i] = <<D>> /\ cur[i] = None /\ sem[i] = 1
    <3>1. queue'[i] = <<>> /\ cur'[i] = D
      BY <2>1, <2>3
    <3> QED BY <2>1, <2>3, <3>1
  <2> QED BY <1>0, <1>1, <2>1, <2>2, <2>3
<1>4. CASE HandleMessage(i)
  <2>1. /\ cur[i] # None /\ cur'[i] = None
        /\ queue'[i] = queue[i] /\ sem'[i] = sem[i] + 1
        /\ cur[i].type = "Command" => result'[i].cmd = cur[i].cmd
    BY <1>4, Handled
  <2>2. CASE queue[i] = <<D>> /\ cur[i] = R /\ sem[i] = 0
    <3>1. queue'[i] = <<D>> /\ cur'[i] = None /\ sem'[i] = 1
      BY <2>1, <2>2
    <3> QED BY <3>1
  <2>3. CASE queue[i] = <<>> /\ cur[i] = D /\ sem[i] = 1
    <3>1. queue'[i] = <<>> /\ cur'[i] = None /\ sem'[i] = 2 /\ result'[i].cmd = c
      BY <1>0, <2>1, <2>3
    <3> QED BY <3>1
  <2> QED BY <1>1, <2>1, <2>2, <2>3
<1> QED BY <1>2, <1>3, <1>4 DEF LoopStep

\* The books of an instance balance after each of its turns.
LEMMA BalancedStays ==
  ASSUME NEW C, Types(C), NEW i \in Instances, LoopStep(i), NEW p, Balanced(i, p)
  PROVE  Balanced(i, p)'
<1>1. Clear(i) => Clear(i)' /\ result'[i] = result[i]
  BY ClearStays
<1>2. \A m \in Message : Pending(i, m) => Pending(i, m)'
  BY PendingStays
<1>3. \A c \in 1 .. MaxCalls : PendingTwo(i, c) => PendingTwo(i, c)'
  <2>1. \A c \in 1 .. MaxCalls : c \in 0 .. MaxCalls
    BY OpsAssumption
  <2> QED BY <2>1, PendingTwoStays
<1>4. Clear(i) /\ Reads(i, p) => Reads(i, p)'
  BY <1>1 DEF Reads
<1>5. (Sends(i, p) => Sends(i, p)') /\ \A m : Waits(i, m, p) => Waits(i, m, p)'
  BY DEF Sends, Waits
<1>6. Msg("EmuReset") \in Message
  BY MessageFacts DEF Controls
<1> QED BY <1>1, <1>2, <1>3, <1>4, <1>5, <1>6 DEF Balanced

\* Every turn of an emulation thread keeps the books of all.
LEMMA LoopCredits ==
  ASSUME NEW C, Types(C), NEW i \in Instances, LoopStep(i), Credits
  PROVE  Credits'
<1>1. UNCHANGED <<prog, stray>>
  BY DEF LoopStep, Turn, FrameOver, TakeMessage, HandleMessage, MessagesDone, AwaitGL
<1>2. \A j \in Instances \ {i} : Same(j)
  BY Elsewhere DEF Same
<1>3. \A j \in Instances : Clear(j) => Clear(j)'
  BY <1>2, ClearStays, SameBooks
<1>4. PICK p : p = prog[UI] /\ p = prog'[UI]
  BY <1>1
<1>5. \A j \in Instances : Balanced(j, p) => Balanced(j, p)'
  BY <1>2, BalancedStays, SameBooks
<1>6. Settled => Settled'
  BY <1>1, <1>3 DEF Settled, Between
<1>7. ASSUME NEW j \in Instances, Dealing(j) PROVE Dealing(j)'
  <2>1. Balanced(j, prog[UI]) => Balanced(j, prog[UI])'
    BY <1>4, <1>5
  <2>2. Mine(j, prog[UI]) => Mine(j, prog[UI])'
    BY <1>4 DEF Mine
  <2> QED BY <1>1, <1>3, <1>7, <2>1, <2>2 DEF Dealing
<1>8. \A j \in Instances : To(stray, prog[j])'
  BY <1>1 DEF Credits, To
<1> QED BY <1>6, <1>7, <1>8 DEF Credits

-----------------------------------------------------------------------------
(* The calls of the emulation threads: they mark the instances they concern. *)

\* Programs that concern only instances in S are put together and cut.
LEMMA ToJoin ==
  ASSUME NEW X, NEW S, NEW s \in Seq(X), NEW t \in Seq(X), To(S, s), To(S, t)
  PROVE  To(S, s \o t)
<1>1. s \o t \in Seq(X) /\ Len(s \o t) = Len(s) + Len(t)
  BY ConcatProperties
<1>2. \A k \in 1 .. Len(s) + Len(t) :
        (s \o t)[k] = IF k <= Len(s) THEN s[k] ELSE t[k - Len(s)]
  BY ConcatProperties
<1>3. DOMAIN (s \o t) = 1 .. Len(s) + Len(t) /\ DOMAIN s = 1 .. Len(s) /\ DOMAIN t = 1 .. Len(t)
      /\ Len(s) \in Nat /\ Len(t) \in Nat
  BY <1>1
<1> SUFFICES ASSUME NEW k \in 1 .. Len(s) + Len(t), (s \o t)[k].do # "broadcast"
             PROVE  (s \o t)[k].to \in S
  BY <1>3 DEF To
<1>4. CASE k <= Len(s)
  <2>1. (s \o t)[k] = s[k] /\ k \in DOMAIN s
    BY <1>2, <1>3, <1>4
  <2> QED BY <2>1 DEF To
<1>5. CASE ~(k <= Len(s))
  <2>1. (s \o t)[k] = t[k - Len(s)] /\ k - Len(s) \in DOMAIN t
    BY <1>2, <1>3, <1>5
  <2> QED BY <2>1 DEF To
<1> QED BY <1>4, <1>5

\* What is left of a program concerns no more than the program.
LEMMA ToTail ==
  ASSUME NEW X, NEW S, NEW s \in Seq(X), s # <<>>, To(S, s)
  PROVE  To(S, Tail(s)) /\ To(S, <<>>)
<1>1. DOMAIN Tail(s) = 1 .. Len(s) - 1 /\ Len(s) \in Nat \ {0} /\ DOMAIN s = 1 .. Len(s)
  OBVIOUS
<1>2. \A k \in 1 .. Len(s) - 1 : Tail(s)[k] = s[k + 1] /\ k + 1 \in 1 .. Len(s)
  BY <1>1
<1>3. To(S, Tail(s))
  BY <1>1, <1>2 DEF To
<1> QED BY <1>3 DEF To

\* The calls an emulation thread makes concern itself first.
LEMMA ToCalls ==
  ASSUME NEW i \in Instances, NEW S, i \in S
  PROVE  /\ \A T : To(S, Call(i, T)) /\ To(S, Broadcast(i, T))
         /\ To(S, emuTogglePause(i)) /\ To(S, emuReset(i)) /\ To(S, <<>>)
         /\ \A L, T : To(S, BroadcastTo(L, T))
         /\ \A d : To(S, Step(d, i)) /\ \A m : To(S, Send(i, m))
<1> USE DEF To
<1>1. ASSUME NEW T PROVE To(S, Call(i, T)) /\ To(S, Broadcast(i, T))
  <2>1. /\ Call(i, T) = <<SendStep(i, Msg(T)), WaitStep(i, 1)>>
        /\ Broadcast(i, T) = <<SendStep(i, Msg(T)), WaitStep(i, 1),
                               BroadcastStep(Instances \ {i}, T)>>
    BY CallShapes
  <2>2. To(S, <<SendStep(i, Msg(T)), WaitStep(i, 1)>>)
    BY DEF SendStep, WaitStep
  <2>3. To(S, <<SendStep(i, Msg(T)), WaitStep(i, 1), BroadcastStep(Instances \ {i}, T)>>)
    BY DEF SendStep, WaitStep, BroadcastStep
  <2> HIDE DEF To
  <2> QED BY <2>1, <2>2, <2>3
<1>2. \A L, T : To(S, BroadcastTo(L, T))
  BY DEF BroadcastTo
<1>3. \A d : To(S, Step(d, i))
  BY DEF Step
<1>4. \A m : To(S, Send(i, m))
  BY DEF Send
<1>5. To(S, <<>>)
  OBVIOUS
<1> HIDE DEF To
<1> QED BY <1>1, <1>2, <1>3, <1>4, <1>5 DEF emuTogglePause, emuPause, emuUnpause, emuReset

\* A hotkey marks its instance (EmuThread.cpp:157-190), and so does a game that
\* switches the console off (EmuThread.cpp:283).
LEMMA OwnCallCredits ==
  ASSUME Types(Controls), NEW i \in Instances, Hotkeys(i) \/ PowerOff(i), Credits
  PROVE  Credits'
<1>0. AllKinds(Controls) /\ 0 \in 0 .. MaxCalls /\ "Hotkeys" \in AllOps
  BY OpsAssumption DEF AllKinds, Stepless, Controls, AllOps
<1> DEFINE X == StepOf(Controls)
<1>1. stray' = stray \cup {i} /\ UNCHANGED <<queue, cur, sem, result>>
  BY DEF Hotkeys, PowerOff, loop
<1>2. /\ \A j \in Threads \ {i} : prog'[j] = prog[j]
      /\ \A j \in Instances \ {i} : pc'[j] = pc[j]
  BY DEF Hotkeys, PowerOff, loop, Types, Threads
<1>3. \A j \in Instances \ stray' : Same(j)
  BY <1>1, <1>2 DEF Same
<1>4. (Settled \/ \E j \in Instances : Dealing(j))'
  BY <1>1, <1>2, <1>3, BooksKept, InstancesAssumption DEF Threads, Credits
<1>5. To(stray', prog'[i])
  <2>1. /\ \A T \in Controls : Call(i, T) \in Seq(X)
        /\ emuTogglePause(i) \in Seq(X) /\ emuReset(i) \in Seq(X)
        /\ Ops \cap {"Hotkeys", "FrameStep"} # {} => emuFrameStep(i) \in Seq(X)
    BY <1>0, CallTypes
  <2>2. /\ \A T : To(stray', Call(i, T))
        /\ To(stray', emuTogglePause(i)) /\ To(stray', emuReset(i)) /\ To(stray', <<>>)
        /\ \A d : To(stray', Step(d, i)) /\ \A m : To(stray', Send(i, m))
    BY <1>1, ToCalls
  <2>3. CASE PowerOff(i)
    <3>1. prog'[i] = Call(i, "EmuStop")
      BY <2>3 DEF PowerOff, Types, Threads
    <3> QED BY <2>2, <3>1
  <2>4. CASE Hotkeys(i)
    <3>1. PICK pressed : prog'[i] =
           (IF "Pause" \in pressed THEN emuTogglePause(i) ELSE <<>>)
           \o (IF "Reset" \in pressed THEN emuReset(i) ELSE <<>>)
           \o (IF "FrameStep" \in pressed THEN emuFrameStep(i) ELSE <<>>)
      BY <2>4 DEF Hotkeys, Types, Threads
    <3>2. emuFrameStep(i) \in Seq(X) /\ <<>> \in Seq(X)
      BY <2>1, <2>4 DEF Hotkeys
    <3>3. To(stray', emuFrameStep(i))
      <4>1. /\ \A m \in MessageOf(Controls) : Send(i, m) \in Seq(X)
            /\ Step("waitAll", i) \in Seq(X)
            /\ \A T \in Controls : Msg(T) \in MessageOf(Controls)
        BY StepTypes
      <4> DEFINE a == IF emu[i].stack < PauseThreshold THEN Send(i, Msg("EmuPause")) ELSE <<>>
                 b == Send(i, Msg("EmuFrameStep"))
      <4>2. a \in Seq(X) /\ b \in Seq(X) /\ Step("waitAll", i) \in Seq(X)
        BY <3>2, <4>1 DEF Controls
      <4>3. To(stray', a) /\ To(stray', b) /\ To(stray', Step("waitAll", i))
        BY <2>2
      <4>4. emuFrameStep(i) = a \o b \o Step("waitAll", i)
        BY DEF emuFrameStep
      <4> HIDE DEF a, b, X
      <4>5. a \o b \in Seq(X) /\ To(stray', a \o b)
        BY <4>2, <4>3, JoinTypes, ToJoin
      <4> QED BY <4>2, <4>3, <4>4, <4>5, ToJoin
    <3> DEFINE a == IF "Pause" \in pressed THEN emuTogglePause(i) ELSE <<>>
               b == IF "Reset" \in pressed THEN emuReset(i) ELSE <<>>
               f == IF "FrameStep" \in pressed THEN emuFrameStep(i) ELSE <<>>
    <3>4. a \in Seq(X) /\ b \in Seq(X) /\ f \in Seq(X)
      BY <2>1, <3>2
    <3>5. To(stray', a) /\ To(stray', b) /\ To(stray', f)
      BY <2>2, <3>3
    <3>6. prog'[i] = a \o b \o f
      BY <3>1
    <3> HIDE DEF a, b, f, X
    <3>7. a \o b \in Seq(X) /\ To(stray', a \o b)
      BY <3>4, <3>5, JoinTypes, ToJoin
    <3> QED BY <3>4, <3>5, <3>6, <3>7, ToJoin
  <2> QED BY <2>3, <2>4
<1>6. \A j \in Instances : To(stray', prog'[j])
  BY <1>1, <1>2, <1>5 DEF Credits, To, Threads
<1> QED BY <1>4, <1>6 DEF Credits

\* A step of an emulation thread's program concerns marked instances only, and
\* a broadcast marks the next one (main.cpp:171-180).
LEMMA OtherCredits ==
  ASSUME Types(Controls), NEW t \in Instances, Run(t), Credits
  PROVE  Credits'
<1> DEFINE X == StepOf(Controls)
<1>0. Working(t) /\ t \in Threads /\ t # UI /\ AllKinds(Controls) /\ 0 \in 0 .. MaxCalls
  <2>1. Working(t)
    BY DEF Run, sendMessage, waitMessage, waitAllMessages, ReadResult,
           broadcastInstanceCommand, CreateContext, returnGL, JoinThread
  <2>2. AllKinds(Controls) /\ 0 \in 0 .. MaxCalls
    BY OpsAssumption DEF AllKinds, Stepless, Controls
  <2> QED BY <2>1, <2>2, InstancesAssumption DEF Threads
<1>1. /\ Now(t).do # "broadcast" => Now(t).to \in stray
      /\ To(stray, Tail(prog[t])) /\ To(stray, <<>>) /\ prog[t] \in Seq(X)
      /\ Tail(prog[t]) \in Seq(X)
  <2>1. prog[t] \in Seq(X) /\ prog[t] # <<>> /\ To(stray, prog[t])
    BY <1>0 DEF Types, Working, Credits
  <2>2. 1 \in DOMAIN prog[t] /\ Head(prog[t]) = prog[t][1] /\ Tail(prog[t]) \in Seq(X)
    BY <2>1
  <2> QED BY <2>1, <2>2, ToTail DEF To, Now
<1>2. /\ Now(t).do = "broadcast" => Now(t).left \subseteq Instances /\ Now(t).type \in Controls
      /\ Now(t).do # "broadcast" => Now(t).to \in Instances
  BY <1>0, NowTypes
<1>3. stray \subseteq stray' /\ \A j \in Threads \ {t} : prog'[j] = prog[j]
  BY DEF Run, sendMessage, waitMessage, waitAllMessages, ReadResult, Types, Advance,
         broadcastInstanceCommand, CreateContext, returnGL, JoinThread
<1>4. \A j \in Instances \ stray : Same(j)
  <2> SUFFICES ASSUME NEW j \in Instances \ stray PROVE Same(j)
    OBVIOUS
  <2> USE DEF Same, Types
  <2>1. CASE sendMessage(t)
    BY <1>1, <2>1 DEF sendMessage
  <2>2. CASE waitMessage(t)
    BY <1>1, <2>2 DEF waitMessage
  <2>3. CASE waitAllMessages(t)
    BY <1>1, <2>3 DEF waitAllMessages
  <2>4. CASE returnGL(t)
    BY <1>1, <2>4 DEF returnGL
  <2>5. CASE ReadResult(t) \/ broadcastInstanceCommand(t) \/ CreateContext(t) \/ JoinThread(t)
    BY <2>5 DEF ReadResult, broadcastInstanceCommand, CreateContext, JoinThread, loop
  <2> QED BY <2>1, <2>2, <2>3, <2>4, <2>5 DEF Run
<1>5. (Settled \/ \E j \in Instances : Dealing(j))'
  BY <1>0, <1>3, <1>4, BooksKept DEF Threads, Credits
<1>6. To(stray', prog'[t])
  <2>1. \A p : To(stray, p) => To(stray', p)
    BY <1>3 DEF To
  <2>2. CASE broadcastInstanceCommand(t)
    <3>1. \/ prog'[t] = Tail(prog[t])
          \/ \E j \in Now(t).left, L \in SUBSET Instances :
               /\ stray' = stray \cup {j}
               /\ prog'[t] = Call(j, Now(t).type) \o BroadcastTo(L, Now(t).type)
                               \o Tail(prog[t])
      <4>1. PICK S : S = {j \in Now(t).left : Alive(j)}
        OBVIOUS
      <4>2. \A j \in S : S \ {j} \in SUBSET Instances /\ j \in Now(t).left
        BY <1>2, <2>2, <4>1 DEF broadcastInstanceCommand
      <4>3. \/ prog' = [prog EXCEPT ![t] = Tail(@)]
            \/ \E j \in S : /\ prog' = [prog EXCEPT ![t] = Call(j, Now(t).type)
                                     \o BroadcastTo(S \ {j}, Now(t).type) \o Tail(@)]
                            /\ stray' = stray \cup {j}
        BY <1>0, <2>2, <4>1 DEF broadcastInstanceCommand, Advance
      <4>4. \A q : prog' = [prog EXCEPT ![t] = q] => prog'[t] = q
        BY <1>0 DEF Types
      <4> QED BY <4>2, <4>3, <4>4
    <3>2. ASSUME NEW j \in Now(t).left, NEW L \in SUBSET Instances, stray' = stray \cup {j},
                 prog'[t] = Call(j, Now(t).type) \o BroadcastTo(L, Now(t).type) \o Tail(prog[t])
          PROVE  To(stray', prog'[t])
      <4> DEFINE a == Call(j, Now(t).type)  b == BroadcastTo(L, Now(t).type)
      <4>1. j \in Instances /\ Now(t).type \in Controls
        BY <1>2, <2>2, <3>2 DEF broadcastInstanceCommand
      <4>2. a \in Seq(X) /\ b \in Seq(X)
        BY <1>0, <4>1, CallTypes, BroadcastTypes
      <4>3. j \in stray'
        BY <3>2
      <4>4. To(stray', a) /\ To(stray', b)
        BY <4>1, <4>3, ToCalls
      <4> HIDE DEF a, b, X
      <4>5. a \o b \in Seq(X) /\ To(stray', a \o b)
        BY <4>2, <4>4, JoinTypes, ToJoin
      <4>6. prog'[t] = (a \o b) \o Tail(prog[t])
        BY <3>2 DEF a, b
      <4> QED BY <1>1, <2>1, <4>5, <4>6, ToJoin
    <3> QED BY <1>1, <2>1, <3>1, <3>2
  <2>3. CASE waitAllMessages(t)
    <3>1. PICK i : i = Now(t).to
      OBVIOUS
    <3>2. prog'[t] \in {Tail(prog[t]), Step("waitAll", i) \o Tail(prog[t]),
                        Step("acquire", i) \o Tail(prog[t])}
      BY <1>0, <2>3, <3>1 DEF waitAllMessages, Types
    <3>3. i \in Instances /\ i \in stray
      BY <1>1, <1>2, <2>3, <3>1 DEF waitAllMessages
    <3>4. \A d \in {"waitAll", "acquire"} : Step(d, i) \in Seq(X) /\ To(stray, Step(d, i))
      BY <3>3, StepTypes, ToCalls
    <3> HIDE DEF X
    <3>5. \A d \in {"waitAll", "acquire"} : To(stray, Step(d, i) \o Tail(prog[t]))
      BY <1>1, <3>4, ToJoin
    <3> QED BY <1>1, <2>1, <3>2, <3>5
  <2>4. CASE ~broadcastInstanceCommand(t) /\ ~waitAllMessages(t)
    <3>1. prog'[t] \in {Tail(prog[t]), <<>>}
      BY <1>0, <2>4 DEF Run, sendMessage, waitMessage, ReadResult, CreateContext, returnGL,
                        JoinThread, Advance, Types
    <3> QED BY <1>1, <2>1, <3>1
  <2> QED BY <2>2, <2>3, <2>4
<1>7. \A j \in Instances : To(stray', prog'[j])
  BY <1>3, <1>6 DEF Credits, To, Threads
<1> QED BY <1>5, <1>7 DEF Credits

-----------------------------------------------------------------------------
(* The calls of the UI thread. *)

\* Between two calls nothing is on its way to an unmarked instance.
LEMMA NothingPending ==
  ASSUME Credits, prog[UI] = <<>>
  PROVE  \A j \in Instances \ stray : Clear(j)
  BY BalancedIsBusy DEF Credits, Settled, Dealing

\* A call to i begins, or goes on to i, while nothing else is on its way.
LEMMA Begins ==
  ASSUME NEW i \in Instances, \A j \in Instances \ stray' : Clear(j)',
         Sends(i, prog'[UI]) \/ (i \in stray' /\ Mine(i, prog'[UI]))
  PROVE  Dealing(i)'
<1>1. PICK p : p = prog'[UI]
  OBVIOUS
<1>2. CASE i \in stray' /\ Mine(i, p)
  <2>1. Mine(i, prog[UI])'
    BY <1>1, <1>2 DEF Mine
  <2> QED BY <1>2, <2>1 DEF Dealing
<1>3. CASE i \notin stray' /\ Sends(i, p)
  <2>1. Clear(i)' /\ Sends(i, prog[UI])'
    BY <1>1, <1>3 DEF Sends
  <2>2. Balanced(i, prog[UI])'
    BY <2>1 DEF Balanced
  <2> QED BY <2>2 DEF Dealing
<1>4. CASE i \in stray' /\ Sends(i, p)
  <2>1. Mine(i, p)
    BY <1>4, SendsIsMine
  <2> QED BY <1>2, <1>4, <2>1
<1> QED BY <1>1, <1>2, <1>3, <1>4

\* The calls that do not count their credits (EmuThread.cpp:744-759).
LEMMA UncountedIsMine ==
  ASSUME NEW i \in Instances
  PROVE  Mine(i, emuExit(i)) /\ Mine(i, emuFrameStep(i))
<1> DEFINE s == SendStep(i, Msg("EmuPause"))  f == SendStep(i, Msg("EmuFrameStep"))
           w == OtherStep("waitAll", i)
<1>1. Mine(i, emuExit(i))
  <2>1. emuExit(i) = <<SendStep(i, Msg("Exit")), w, OtherStep("join", i)>>
    BY CallShapes
  <2>2. Mine(i, <<SendStep(i, Msg("Exit")), w, OtherStep("join", i)>>)
    BY DEF Mine, SendStep, OtherStep
  <2> QED BY <2>1, <2>2
<1>2. Mine(i, <<f, w>>) /\ Mine(i, <<s, f, w>>)
  BY DEF Mine, SendStep, OtherStep
<1>3. /\ Send(i, Msg("EmuPause")) = <<s>> /\ Send(i, Msg("EmuFrameStep")) = <<f>>
      /\ Step("waitAll", i) = <<w>>
  BY DEF Send, Step, SendStep, OtherStep
<1> HIDE DEF s, f, w
<1>4. <<>> \o <<f>> = <<f>>
  OBVIOUS
<1>5. emuFrameStep(i) \in {<<f, w>>, <<s, f, w>>}
  <2>1. CASE emu[i].stack < PauseThreshold
    <3>1. emuFrameStep(i) = <<s>> \o <<f>> \o <<w>>
      BY <1>3, <2>1 DEF emuFrameStep
    <3>2. <<s>> \o <<f>> = <<s, f>>
      BY Pair
    <3>3. <<s, f>> \o <<w>> = <<s, f, w>>
      BY Triple
    <3> QED BY ONLY <3>1, <3>2, <3>3, Zenon
  <2>2. CASE ~(emu[i].stack < PauseThreshold)
    <3>1. emuFrameStep(i) = <<>> \o <<f>> \o <<w>>
      BY <1>3, <2>2 DEF emuFrameStep
    <3> QED BY ONLY <1>4, <3>1, Pair
  <2> QED BY <2>1, <2>2
<1> QED BY <1>1, <1>2, <1>5

\* What the user does keeps the books.
LEMMA UserCredits ==
  ASSUME Types(Controls), UserAction, Credits
  PROVE  Credits'
<1>1. UNCHANGED <<queue, cur, sem, result, pc>>
  BY DEF UserAction, CloseDialog, OpenDialog, MenuPause, MenuCommand, LoseFocus, GetFocus,
         UICall, Counted, Uncounted, NoCall, loop
<1>2. \A j \in Instances : Same(j)
  BY <1>1 DEF Same
<1>3. \A j \in Instances : Clear(j) => Clear(j)'
  BY <1>2, SameBooks
<1>4. ASSUME NEW q, UICall(q), stray \subseteq stray', NEW i \in Instances,
             Sends(i, q) \/ (i \in stray' /\ Mine(i, q))
      PROVE  Credits'
  <2>1. prog[UI] = <<>> /\ prog' = [prog EXCEPT ![UI] = q]
    BY <1>4 DEF UICall, Working
  <2>2. \A j \in Instances \ stray' : Clear(j)'
    BY <1>3, <1>4, <2>1, NothingPending
  <2>3. prog'[UI] = q /\ \A j \in Instances : prog'[j] = prog[j]
    BY <2>1, InstancesAssumption DEF Types, Threads
  <2>4. Dealing(i)'
    BY <1>4, <2>2, <2>3, Begins
  <2>5. \A j \in Instances : To(stray', prog'[j])
    BY <1>4, <2>3 DEF Credits, To
  <2> QED BY <2>4, <2>5 DEF Credits
<1>5. CASE NoCall
  <2>1. (Settled \/ \E i \in Instances : Dealing(i))'
    BY <1>2, <1>5, BooksKept DEF NoCall, Credits
  <2>2. \A j \in Instances : To(stray', prog'[j])
    BY <1>5 DEF NoCall, Credits
  <2> QED BY <2>1, <2>2 DEF Credits
<1>6. ASSUME NEW q, Counted(q), NEW i \in Instances, Sends(i, q) PROVE Credits'
  BY <1>4, <1>6 DEF Counted
<1>7. ASSUME NEW i \in Instances, NEW q \in {emuExit(i), emuFrameStep(i)}, Uncounted(i, q)
      PROVE  Credits'
  <2>1. Mine(i, q) /\ i \in stray' /\ stray \subseteq stray'
    BY <1>7, UncountedIsMine DEF Uncounted
  <2> QED BY <1>4, <1>7, <2>1 DEF Uncounted
<1>8. CASE CloseDialog
  <2>1. dialog \in Instances /\ Counted(emuUnpause(dialog))
    BY <1>8 DEF CloseDialog, Types
  <2> QED BY <1>6, <2>1, SendShapes
<1>9. ASSUME NEW i \in Instances, OpenDialog(i) \/ MenuPause(i) \/ LoseFocus(i) \/ GetFocus(i)
      PROVE  Credits'
  <2>1. NoCall \/ Counted(emuPause(i)) \/ Counted(emuUnpause(i))
    BY <1>9 DEF OpenDialog, MenuPause, LoseFocus, GetFocus
  <2> QED BY <1>5, <1>6, <2>1, SendShapes
<1>10. ASSUME NEW i \in Instances, MenuCommand(i) PROVE Credits'
  <2>1. PICK c : c = calls + 1
    OBVIOUS
  <2>2. c \in 1 .. MaxCalls
    <3>1. calls \in Nat /\ MaxCalls \in Nat
      BY OpsAssumption DEF Types
    <3>2. calls < MaxCalls
      BY <1>10 DEF MenuCommand, Counted, Uncounted, UICall
    <3> QED BY <2>1, <3>1, <3>2
  <2>3. \/ \E q \in {bootROM(i, c), resultCommand(i, c), importSavefile(i, c),
                     Call(i, "Plain"), emuReset(i), Call(i, "EmuStop"), borrowGL(i)} :
             Counted(q)
        \/ Uncounted(i, emuFrameStep(i)) \/ Uncounted(i, emuExit(i))
    BY <1>10, <2>1 DEF MenuCommand
  <2>4. /\ Sends(i, bootROM(i, c)) /\ Sends(i, resultCommand(i, c))
        /\ Sends(i, importSavefile(i, c)) /\ Sends(i, Call(i, "Plain"))
        /\ Sends(i, Call(i, "EmuStop")) /\ Sends(i, emuReset(i)) /\ Sends(i, borrowGL(i))
    BY <2>2, SendShapes DEF Controls
  <2> QED BY <1>6, <1>7, <2>3, <2>4
<1> QED BY <1>8, <1>9, <1>10 DEF UserAction

\* A step of the UI thread's program touches the instance it is about.
LEMMA UITouches ==
  ASSUME Types(Controls), Run(UI)
  PROVE  /\ prog[UI] # <<>> /\ UNCHANGED <<cur, result, stray>>
         /\ \A j \in Instances : prog'[j] = prog[j]
         /\ \A j \in Instances : Now(UI).do = "broadcast" \/ j # Now(UI).to => Same(j)
<1>1. prog[UI] # <<>> /\ UNCHANGED <<cur, result, stray>>
  BY DEF Run, sendMessage, waitMessage, waitAllMessages, ReadResult, Working,
         broadcastInstanceCommand, CreateContext, returnGL, JoinThread, loop
<1>2. \E q : prog' = [prog EXCEPT ![UI] = q]
  BY DEF Run, sendMessage, waitMessage, waitAllMessages, ReadResult, Advance,
         broadcastInstanceCommand, CreateContext, returnGL, JoinThread
<1>3. \A j \in Instances : prog'[j] = prog[j]
  BY <1>2, InstancesAssumption DEF Types, Threads
<1>4. \A j \in Instances : Now(UI).do = "broadcast" \/ j # Now(UI).to => Same(j)
  <2> SUFFICES ASSUME NEW j \in Instances, Now(UI).do = "broadcast" \/ j # Now(UI).to
               PROVE  Same(j)
    OBVIOUS
  <2> USE DEF Same, Types
  <2>1. CASE sendMessage(UI)
    BY <2>1 DEF sendMessage
  <2>2. CASE waitMessage(UI)
    BY <2>2 DEF waitMessage
  <2>3. CASE waitAllMessages(UI)
    BY <2>3 DEF waitAllMessages
  <2>4. CASE returnGL(UI)
    BY <2>4 DEF returnGL
  <2>5. CASE ReadResult(UI) \/ broadcastInstanceCommand(UI) \/ CreateContext(UI) \/ JoinThread(UI)
    BY <2>5 DEF ReadResult, broadcastInstanceCommand, CreateContext, JoinThread, loop
  <2> QED BY <2>1, <2>2, <2>3, <2>4, <2>5 DEF Run
<1> QED BY <1>1, <1>3, <1>4

\* The call goes on with i, or is done with it.
LEMMA GoesOn ==
  ASSUME Types(Controls), Run(UI), Credits, NEW i \in Instances,
         Now(UI).do # "broadcast", Now(UI).to = i,
         \A j \in Instances \ (stray \cup {i}) : Clear(j),
         \/ Balanced(i, prog[UI])'
         \/ i \in stray /\ Mine(i, prog[UI])'
         \/ Between(prog[UI])' /\ Clear(i)'
  PROVE  Credits'
<1>1. /\ UNCHANGED stray /\ \A j \in Instances : prog'[j] = prog[j]
      /\ \A j \in Instances \ {i} : Same(j)
  BY UITouches
<1>2. \A j \in Instances \ (stray' \cup {i}) : Clear(j)'
  BY <1>1, SameBooks
<1>3. \A j \in Instances : To(stray, prog[j])'
  BY <1>1 DEF Credits, To
<1>4. CASE Balanced(i, prog[UI])' \/ (i \in stray /\ Mine(i, prog[UI])')
  <2>1. Dealing(i)'
    BY <1>1, <1>2, <1>4 DEF Dealing
  <2> QED BY <1>3, <2>1 DEF Credits
<1>5. CASE Between(prog[UI])' /\ Clear(i)'
  <2>1. Settled'
    BY <1>2, <1>5 DEF Settled
  <2> QED BY <1>3, <2>1 DEF Credits
<1> QED BY <1>4, <1>5

\* A broadcast goes on to the next instance (main.cpp:171-180).
LEMMA BroadcastCredits ==
  ASSUME Types(Controls), Run(UI), Credits, \A j \in Instances \ stray : Clear(j),
         NEW T \in {"EmuPause", "EmuUnpause"}, NEW L \in SUBSET Instances,
         Now(UI) = BroadcastStep(L, T), Tail(prog[UI]) = <<>>
  PROVE  Credits'
<1>1. Now(UI).do = "broadcast"
  BY DEF BroadcastStep
<1>2. /\ UNCHANGED stray /\ \A j \in Instances : prog'[j] = prog[j]
      /\ \A j \in Instances : Same(j)
  BY <1>1, UITouches
<1>3. \A j \in Instances \ stray' : Clear(j)'
  BY <1>2, SameBooks
<1>4. \A j \in Instances : To(stray, prog[j])'
  BY <1>2 DEF Credits, To
<1>5. \/ prog'[UI] = <<>>
      \/ \E j \in L : prog'[UI] = <<SendStep(j, Msg(T)), WaitStep(j, 1),
                                    BroadcastStep({k \in L : pc[k] # "ended"} \ {j}, T)>>
  BY RunBroadcast
<1>6. CASE prog'[UI] = <<>>
  <2>1. Settled'
    BY <1>3, <1>6 DEF Settled, Between
  <2> QED BY <1>4, <2>1 DEF Credits
<1>7. ASSUME NEW j \in L, NEW M \in SUBSET Instances,
             prog'[UI] = <<SendStep(j, Msg(T)), WaitStep(j, 1), BroadcastStep(M, T)>>
      PROVE  Credits'
  <2>1. j \in Instances /\ Sends(j, prog'[UI])
    BY <1>7 DEF Sends
  <2>2. Dealing(j)'
    BY <1>3, <2>1, Begins
  <2> QED BY <1>4, <2>1, <2>2 DEF Credits
<1>8. \A j \in L : {k \in L : pc[k] # "ended"} \ {j} \in SUBSET Instances
  OBVIOUS
<1> QED BY <1>5, <1>6, <1>7, <1>8

\* A call to a marked instance: whatever it does, it concerns that instance.
LEMMA MarkedCredits ==
  ASSUME Types(Controls), Run(UI), Credits, NEW i \in stray, i \in Instances,
         \A j \in Instances \ (stray \cup {i}) : Clear(j), Mine(i, prog[UI])
  PROVE  Credits'
<1> DEFINE X == StepOf(Controls)
<1>1. prog[UI] \in Seq(X) /\ prog[UI] # <<>> /\ UI \in Threads
  BY UITouches DEF Types, Threads
<1>2. PICK p \in Seq(X) : p = prog[UI]
  BY <1>1
<1>3. /\ 1 \in DOMAIN p /\ Head(p) = p[1] /\ Len(p) \in Nat \ {0} /\ DOMAIN p = 1 .. Len(p)
      /\ Tail(p) \in Seq(X) /\ Len(Tail(p)) = Len(p) - 1 /\ DOMAIN Tail(p) = 1 .. Len(p) - 1
      /\ \A k \in 1 .. Len(p) - 1 : Tail(p)[k] = p[k + 1] /\ k + 1 \in 1 .. Len(p)
  BY <1>1, <1>2
<1>4. Now(UI) = p[1] /\ Now(UI) \in X
  BY <1>2, <1>3 DEF Now
<1>5. CASE Now(UI).do = "broadcast"
  <2>1. Len(p) = 1 /\ Now(UI).type \in {"EmuPause", "EmuUnpause"}
    BY <1>2, <1>3, <1>4, <1>5 DEF Mine
  <2>2. Tail(p) = <<>>
    BY <1>3, <2>1
  <2>3. Now(UI) = BroadcastStep(Now(UI).left, Now(UI).type) /\ Now(UI).left \in SUBSET Instances
    BY <1>4, <1>5 DEF StepOf, BroadcastStep
  <2>4. \A j \in Instances \ stray : Clear(j)
    OBVIOUS
  <2> QED BY <1>2, <2>1, <2>2, <2>3, <2>4, BroadcastCredits
<1>6. CASE Now(UI).do # "broadcast"
  <2>1. Now(UI).to = i
    BY <1>2, <1>3, <1>4, <1>6 DEF Mine
  <2>2. Mine(i, Tail(p)) /\ Mine(i, <<>>)
    BY <1>2, <1>3 DEF Mine
  <2>3. ASSUME NEW d \in {"waitAll", "acquire"} PROVE Mine(i, Step(d, i) \o Tail(p))
    <3> DEFINE s == Step(d, i)  q == s \o Tail(p)
    <3>1. s \in Seq(X) /\ Len(s) = 1 /\ s[1] = OtherStep(d, i)
      <4>1. s \in Seq(X)
        BY StepTypes
      <4> QED BY <4>1 DEF Step, OtherStep
    <3> HIDE DEF s, X
    <3>2. PICK t : t \in Seq(X) /\ t = Tail(p) /\ Len(p) = 1 + Len(t)
      <4>1. Tail(p) \in Seq(X) /\ Len(p) = 1 + Len(Tail(p))
        BY <1>3
      <4> QED BY <4>1, Zenon
    <3>3. s \o t \in Seq(X) /\ Len(s \o t) = Len(s) + Len(t)
      BY <3>1, <3>2, ConcatProperties
    <3>4. \A k \in 1 .. Len(s) + Len(t) :
            (s \o t)[k] = IF k <= Len(s) THEN s[k] ELSE t[k - Len(s)]
      BY <3>1, <3>2, ConcatProperties
    <3>5. q = s \o t
      BY <3>2
    <3>6. q \in Seq(X) /\ Len(q) = Len(p)
      BY <3>1, <3>2, <3>3, <3>5
    <3>7. \A k \in 1 .. Len(p) : q[k] = IF k <= 1 THEN s[k] ELSE Tail(p)[k - 1]
      BY <3>1, <3>2, <3>4, <3>5
    <3> HIDE DEF q
    <3>8. q[1] = OtherStep(d, i) /\ \A k \in 2 .. Len(p) : q[k] = p[k]
      BY <1>3, <3>1, <3>7
    <3>9. DOMAIN q = 1 .. Len(p)
      BY <3>6
    <3>10. Mine(i, q)
      <4> SUFFICES ASSUME NEW k \in 1 .. Len(p)
                   PROVE  IF q[k].do = "broadcast"
                          THEN k = Len(q) /\ q[k].type \in {"EmuPause", "EmuUnpause"}
                          ELSE q[k].to = i
        BY <3>9 DEF Mine
      <4>1. CASE k = 1
        BY <3>8, <4>1 DEF OtherStep
      <4>2. CASE k # 1
        <5>1. q[k] = p[k] /\ k \in DOMAIN p
          BY <1>3, <3>8, <4>2
        <5> QED BY <1>2, <3>6, <5>1 DEF Mine
      <4> QED BY <4>1, <4>2
    <3> QED BY <3>10 DEF q, s
  <2>4. prog'[UI] \in {Tail(p), <<>>, Step("waitAll", i) \o Tail(p), Step("acquire", i) \o Tail(p)}
    <3>1. CASE waitAllMessages(UI)
      BY <1>2, <2>1, <3>1 DEF waitAllMessages, Types, Threads
    <3>2. CASE ~waitAllMessages(UI)
      <4>1. ~broadcastInstanceCommand(UI)
        BY <1>6 DEF broadcastInstanceCommand
      <4> QED BY <1>2, <3>2, <4>1 DEF Run, sendMessage, waitMessage, ReadResult, CreateContext,
                        returnGL, JoinThread, Advance, Types, Threads
    <3> QED BY <3>1, <3>2
  <2>5. Mine(i, prog'[UI])
    BY <2>2, <2>3, <2>4
  <2>6. Mine(i, prog[UI])'
    BY <2>5 DEF Mine
  <2> QED BY <1>6, <2>1, <2>6, GoesOn
<1> QED BY <1>5, <1>6

\* The first message of a call is sent to an instance with clear books.
LEMMA SendCredits ==
  ASSUME Types(Controls), Run(UI), Credits, NEW i \in Instances,
         \A j \in Instances \ (stray \cup {i}) : Clear(j), Clear(i), Sends(i, prog[UI])
  PROVE  Credits'
<1> DEFINE w == WaitStep(i, 1)
<1>1. ASSUME NEW m, Now(UI) = SendStep(i, m)
      PROVE  /\ Pending(i, m)' /\ Now(UI).do # "broadcast" /\ Now(UI).to = i
             /\ prog'[UI] = Tail(prog[UI])
  <2>1. /\ queue'[i] = Append(queue[i], m) /\ prog'[UI] = Tail(prog[UI])
        /\ UNCHANGED <<pc, sem>>
    BY <1>1, RunSend
  <2>2. UNCHANGED cur
    BY UITouches
  <2>3. Append(<<>>, m) = <<m>>
    OBVIOUS
  <2>4. queue'[i] = <<m>> /\ cur'[i] = None /\ sem'[i] = 0
    BY <2>1, <2>2, <2>3 DEF Clear
  <2> QED BY <1>1, <2>1, <2>4 DEF Pending, SendStep
<1>2. ASSUME NEW m \in Message, prog[UI] # <<>>, Head(prog[UI]) = SendStep(i, m),
             Waits(i, m, Tail(prog[UI]))
      PROVE  Credits'
  <2>1. /\ Pending(i, m)' /\ Now(UI).do # "broadcast" /\ Now(UI).to = i
        /\ prog'[UI] = Tail(prog[UI])
    BY <1>1, <1>2 DEF Now
  <2>2. Waits(i, m, prog[UI])'
    BY <1>2, <2>1 DEF Waits
  <2>3. Balanced(i, prog[UI])'
    BY <2>1, <2>2 DEF Balanced
  <2> QED BY <2>1, <2>3, GoesOn
<1>3. ASSUME NEW T \in Controls \ {"Exit"}, prog[UI] = <<SendStep(i, Msg(T)), w>>
      PROVE  Credits'
  <2>1. /\ prog[UI] # <<>> /\ Head(prog[UI]) = SendStep(i, Msg(T))
        /\ Tail(prog[UI]) = <<w>>
    BY <1>3
  <2>2. Msg(T) \in Message /\ Msg(T).type = T
    BY MessageFacts
  <2>3. Waits(i, Msg(T), Tail(prog[UI]))
    BY <2>1, <2>2 DEF Waits
  <2> QED BY <1>2, <2>1, <2>2, <2>3
<1>4. ASSUME NEW T \in {"EmuPause", "EmuUnpause"}, NEW L \in SUBSET Instances,
             prog[UI] = <<SendStep(i, Msg(T)), w, BroadcastStep(L, T)>>
      PROVE  Credits'
  <2>1. /\ prog[UI] # <<>> /\ Head(prog[UI]) = SendStep(i, Msg(T))
        /\ Tail(prog[UI]) = <<w, BroadcastStep(L, T)>>
    BY <1>4
  <2>2. Msg(T) \in Message /\ Msg(T).type = T
    BY MessageFacts DEF Controls
  <2>3. Waits(i, Msg(T), Tail(prog[UI]))
    BY <2>1, <2>2 DEF Waits
  <2> QED BY <1>2, <2>1, <2>2, <2>3
<1>5. ASSUME NEW c \in 1 .. MaxCalls,
             \/ prog[UI] = <<SendStep(i, Command(c)), w, ReadStep(i, c)>>
             \/ prog[UI] = <<SendStep(i, Command(c)), w, ReadStep(i, c),
                             SendStep(i, Msg("EmuRun")), w>>
      PROVE  Credits'
  <2>1. /\ prog[UI] # <<>> /\ Head(prog[UI]) = SendStep(i, Command(c))
        /\ \/ Tail(prog[UI]) = <<w, ReadStep(i, c)>>
           \/ Tail(prog[UI]) = <<w, ReadStep(i, c), SendStep(i, Msg("EmuRun")), w>>
    <3>1. CASE prog[UI] = <<SendStep(i, Command(c)), w, ReadStep(i, c)>>
      BY <3>1
    <3>2. CASE prog[UI] = <<SendStep(i, Command(c)), w, ReadStep(i, c),
                            SendStep(i, Msg("EmuRun")), w>>
      BY <3>2
    <3> QED BY <1>5, <3>1, <3>2
  <2>2. Command(c) \in Message /\ Command(c).type = "Command" /\ Command(c).cmd = c
    BY MessageFacts
  <2>3. Waits(i, Command(c), Tail(prog[UI]))
    BY <2>1, <2>2 DEF Waits
  <2> QED BY <1>2, <2>1, <2>2, <2>3
<1>6. ASSUME NEW c \in 1 .. MaxCalls,
             prog[UI] = <<SendStep(i, Msg("EmuReset")), SendStep(i, Command(c)),
                          WaitStep(i, 2), ReadStep(i, c)>>
      PROVE  Credits'
  <2>1. /\ prog[UI] # <<>> /\ Head(prog[UI]) = SendStep(i, Msg("EmuReset"))
        /\ Tail(prog[UI]) = <<SendStep(i, Command(c)), WaitStep(i, 2), ReadStep(i, c)>>
    BY <1>6
  <2>2. /\ Pending(i, Msg("EmuReset"))' /\ Now(UI).do # "broadcast" /\ Now(UI).to = i
        /\ prog'[UI] = Tail(prog[UI])
    BY <1>1, <2>1 DEF Now
  <2>3. Balanced(i, prog[UI])'
    BY <2>1, <2>2 DEF Balanced
  <2> QED BY <2>2, <2>3, GoesOn
<1>7. ASSUME prog[UI] = <<SendStep(i, Msg("BorrowGL")), w, OtherStep("context", i),
                          OtherStep("returnGL", i)>>
      PROVE  Credits'
  <2>1. /\ prog[UI] # <<>> /\ Head(prog[UI]) = SendStep(i, Msg("BorrowGL"))
        /\ Tail(prog[UI]) = <<w, OtherStep("context", i), OtherStep("returnGL", i)>>
    BY <1>7
  <2>2. Msg("BorrowGL") \in Message /\ Msg("BorrowGL").type = "BorrowGL"
    BY MessageFacts DEF Controls
  <2>3. Waits(i, Msg("BorrowGL"), Tail(prog[UI]))
    BY <2>1, <2>2 DEF Waits
  <2> QED BY <1>2, <2>1, <2>2, <2>3
<1> QED BY <1>3, <1>4, <1>5, <1>6, <1>7 DEF Sends

\* The credit a call takes is the one of its own message.
LEMMA WaitCredits ==
  ASSUME Types(Controls), Run(UI), Credits, NEW i \in Instances,
         \A j \in Instances \ (stray \cup {i}) : Clear(j), NEW m \in Message,
         Pending(i, m), Waits(i, m, prog[UI])
  PROVE  Credits'
<1> DEFINE w == WaitStep(i, 1)
<1>0. prog[UI] # <<>> /\ Head(prog[UI]) = w
  BY SMTT(60) DEF Waits
<1>1. /\ Clear(i)' /\ prog'[UI] = Tail(prog[UI]) /\ Now(UI).to = i /\ Now(UI).do # "broadcast"
      /\ m.type = "Command" => result'[i].cmd = m.cmd
  <2>1. /\ sem[i] >= 1 /\ sem'[i] = sem[i] - 1
        /\ prog'[UI] = Tail(prog[UI]) /\ UNCHANGED <<pc, queue>>
    BY <1>0, RunWait DEF Now
  <2>2. UNCHANGED <<cur, result>>
    BY UITouches
  <2>3. /\ queue[i] = <<>> /\ cur[i] = None /\ sem[i] = 1
        /\ m.type = "Command" => result[i].cmd = m.cmd
    BY <2>1 DEF Pending
  <2>4. sem'[i] = 0
    BY <2>1, <2>3
  <2> QED BY <1>0, <2>1, <2>2, <2>3, <2>4 DEF Clear, Now, WaitStep
<1>2. CASE prog[UI] = <<w>>
  <2>1. Between(prog[UI])'
    BY <1>1, <1>2 DEF Between
  <2> QED BY <1>1, <2>1, GoesOn
<1>3. ASSUME NEW L \in SUBSET Instances, m.type \in {"EmuPause", "EmuUnpause"},
             prog[UI] = <<w, BroadcastStep(L, m.type)>>
      PROVE  Credits'
  <2>1. prog'[UI] = <<BroadcastStep(L, m.type)>>
    BY <1>1, <1>3
  <2>2. Between(prog[UI])'
    BY <1>3, <2>1 DEF Between
  <2> QED BY <1>1, <2>2, GoesOn
<1>4. ASSUME m.type = "Command",
             \/ prog[UI] = <<w, ReadStep(i, m.cmd)>>
             \/ prog[UI] = <<w, ReadStep(i, m.cmd), SendStep(i, Msg("EmuRun")), w>>
      PROVE  Credits'
  <2>1. \/ prog'[UI] = <<ReadStep(i, m.cmd)>>
        \/ prog'[UI] = <<ReadStep(i, m.cmd), SendStep(i, Msg("EmuRun")), w>>
    <3>1. CASE prog[UI] = <<w, ReadStep(i, m.cmd)>>
      BY <1>1, <3>1
    <3>2. CASE prog[UI] = <<w, ReadStep(i, m.cmd), SendStep(i, Msg("EmuRun")), w>>
      BY <1>1, <3>2
    <3> QED BY <1>4, <3>1, <3>2
  <2>2. result'[i].cmd = m.cmd /\ m.cmd \in 0 .. MaxCalls
    BY <1>1, <1>4 DEF Message
  <2>3. Reads(i, prog[UI])'
    BY <2>1, <2>2 DEF Reads
  <2>4. Balanced(i, prog[UI])'
    BY <1>1, <2>3 DEF Balanced
  <2> QED BY <1>1, <2>4, GoesOn
<1>5. ASSUME prog[UI] = <<w, OtherStep("context", i), OtherStep("returnGL", i)>>
      PROVE  Credits'
  <2>1. prog'[UI] = <<OtherStep("context", i), OtherStep("returnGL", i)>>
    BY <1>1, <1>5
  <2>2. Balanced(i, prog[UI])'
    BY <1>1, <2>1 DEF Balanced
  <2> QED BY <1>1, <2>2, GoesOn
<1> QED BY <1>2, <1>3, <1>4, <1>5 DEF Waits

\* importSavefile sends its command, and takes both credits
\* (EmuThread.cpp:852-858).
LEMMA ImportCredits ==
  ASSUME Types(Controls), Run(UI), Credits, NEW i \in Instances,
         \A j \in Instances \ (stray \cup {i}) : Clear(j), NEW c \in 1 .. MaxCalls,
         \/ /\ Pending(i, Msg("EmuReset"))
            /\ prog[UI] = <<SendStep(i, Command(c)), WaitStep(i, 2), ReadStep(i, c)>>
         \/ PendingTwo(i, c) /\ prog[UI] = <<WaitStep(i, 2), ReadStep(i, c)>>
  PROVE  Credits'
<1> DEFINE R == Msg("EmuReset")  D == Command(c)
<1>1. CASE /\ Pending(i, R)
           /\ prog[UI] = <<SendStep(i, D), WaitStep(i, 2), ReadStep(i, c)>>
  <2>0. /\ prog[UI] # <<>> /\ Head(prog[UI]) = SendStep(i, D)
        /\ Tail(prog[UI]) = <<WaitStep(i, 2), ReadStep(i, c)>>
    BY <1>1
  <2>1. /\ pc[i] # "handle" /\ queue'[i] = Append(queue[i], D)
        /\ prog'[UI] = <<WaitStep(i, 2), ReadStep(i, c)>> /\ UNCHANGED <<pc, sem>>
    BY <2>0, RunSend DEF Now
  <2>2. UNCHANGED cur
    BY UITouches
  <2>3. \/ queue[i] = <<R>> /\ cur[i] = None /\ sem[i] = 0
        \/ queue[i] = <<>> /\ cur[i] = None /\ sem[i] = 1
    BY <1>1, <2>1 DEF Pending
  <2> HIDE DEF R, D
  <2>4. Append(<<R>>, D) = <<R, D>>
    BY Pair
  <2>5. Append(<<>>, D) = <<D>>
    OBVIOUS
  <2>6. \/ queue'[i] = <<R, D>> /\ cur'[i] = None /\ sem'[i] = 0
        \/ queue'[i] = <<D>> /\ cur'[i] = None /\ sem'[i] = 1
    BY ONLY <2>1, <2>2, <2>3, <2>4, <2>5, Zenon
  <2>7. PendingTwo(i, c)'
    BY <2>6 DEF PendingTwo, R, D
  <2>8. Balanced(i, prog[UI])'
    BY <2>1, <2>7 DEF Balanced
  <2>9. Now(UI).to = i /\ Now(UI).do # "broadcast"
    BY <2>0 DEF Now, SendStep
  <2> QED BY <2>8, <2>9, GoesOn
<1>2. CASE PendingTwo(i, c) /\ prog[UI] = <<WaitStep(i, 2), ReadStep(i, c)>>
  <2>0. /\ prog[UI] # <<>> /\ Head(prog[UI]) = WaitStep(i, 2)
        /\ Tail(prog[UI]) = <<ReadStep(i, c)>>
    BY <1>2
  <2>1. /\ sem[i] >= 2 /\ sem'[i] = sem[i] - 2
        /\ prog'[UI] = <<ReadStep(i, c)>> /\ UNCHANGED <<pc, queue>>
    BY <2>0, RunWait DEF Now
  <2>2. UNCHANGED <<cur, result>>
    BY UITouches
  <2>3. queue[i] = <<>> /\ cur[i] = None /\ sem[i] = 2 /\ result[i].cmd = c
    BY <1>2, <2>1 DEF PendingTwo
  <2>4. sem'[i] = 0
    BY <2>1, <2>3
  <2>5. Clear(i)' /\ Reads(i, prog[UI])'
    BY <2>1, <2>2, <2>3, <2>4, OpsAssumption DEF Clear, Reads
  <2>6. Balanced(i, prog[UI])'
    BY <2>5 DEF Balanced
  <2>7. Now(UI).to = i /\ Now(UI).do # "broadcast"
    BY <2>0 DEF Now, WaitStep
  <2> QED BY <2>6, <2>7, GoesOn
<1> QED BY <1>1, <1>2

\* The result is read, the context is made or given back: no credit moves.
LEMMA QuietCredits ==
  ASSUME Types(Controls), Run(UI), Credits, NEW i \in Instances,
         \A j \in Instances \ (stray \cup {i}) : Clear(j), Clear(i),
         \/ Reads(i, prog[UI])
         \/ prog[UI] = <<OtherStep("context", i), OtherStep("returnGL", i)>>
         \/ prog[UI] = <<OtherStep("returnGL", i)>>
  PROVE  Credits'
<1>0. UNCHANGED cur
  BY UITouches
<1>1. CASE Reads(i, prog[UI])
  <2>0. PICK c \in 0 .. MaxCalls :
          \/ prog[UI] = <<ReadStep(i, c)>>
          \/ prog[UI] = <<ReadStep(i, c), SendStep(i, Msg("EmuRun")), WaitStep(i, 1)>>
    BY <1>1 DEF Reads
  <2>1. /\ prog[UI] # <<>> /\ Head(prog[UI]) = ReadStep(i, c)
        /\ Tail(prog[UI]) \in {<<>>, <<SendStep(i, Msg("EmuRun")), WaitStep(i, 1)>>}
    <3>1. CASE prog[UI] = <<ReadStep(i, c)>>
      BY <3>1
    <3>2. CASE prog[UI] = <<ReadStep(i, c), SendStep(i, Msg("EmuRun")), WaitStep(i, 1)>>
      BY <3>2
    <3> QED BY <2>0, <3>1, <3>2
  <2>2. prog'[UI] \in {Tail(prog[UI]), <<>>} /\ UNCHANGED <<queue, sem>>
    BY <2>1, RunRead DEF Now
  <2>3. Clear(i)' /\ Now(UI).to = i /\ Now(UI).do # "broadcast"
    BY <1>0, <2>1, <2>2 DEF Clear, Now, ReadStep
  <2>4. CASE prog'[UI] = <<>>
    <3>1. Between(prog[UI])'
      BY <2>4 DEF Between
    <3> QED BY <2>3, <3>1, GoesOn
  <2>5. CASE prog'[UI] = <<SendStep(i, Msg("EmuRun")), WaitStep(i, 1)>>
    <3>1. Sends(i, prog[UI])'
      BY <2>5 DEF Sends, Controls
    <3>2. Balanced(i, prog[UI])'
      BY <2>3, <3>1 DEF Balanced
    <3> QED BY <2>3, <3>2, GoesOn
  <2> QED BY <2>1, <2>2, <2>4, <2>5
<1>2. CASE prog[UI] = <<OtherStep("context", i), OtherStep("returnGL", i)>>
  <2>1. /\ Head(prog[UI]) = OtherStep("context", i)
        /\ Tail(prog[UI]) = <<OtherStep("returnGL", i)>>
    BY <1>2
  <2>2. prog'[UI] = <<OtherStep("returnGL", i)>> /\ UNCHANGED <<queue, sem>>
    BY <2>1, RunContext DEF Now
  <2>3. Clear(i)' /\ Now(UI).to = i /\ Now(UI).do # "broadcast"
    BY <1>0, <2>1, <2>2 DEF Clear, Now, OtherStep
  <2>4. Balanced(i, prog[UI])'
    BY <2>2, <2>3 DEF Balanced
  <2> QED BY <2>3, <2>4, GoesOn
<1>3. CASE prog[UI] = <<OtherStep("returnGL", i)>>
  <2>1. Head(prog[UI]) = OtherStep("returnGL", i) /\ Tail(prog[UI]) = <<>>
    BY <1>3
  <2>2. prog'[UI] = <<>> /\ UNCHANGED <<queue, sem>>
    BY <2>1, RunReturn DEF Now
  <2>3. Clear(i)' /\ Now(UI).to = i /\ Now(UI).do # "broadcast"
    BY <1>0, <2>1, <2>2 DEF Clear, Now, OtherStep
  <2>4. Between(prog[UI])'
    BY <2>2 DEF Between
  <2> QED BY <2>3, <2>4, GoesOn
<1> QED BY <1>1, <1>2, <1>3

\* Every step of the UI thread's program keeps the books.
LEMMA UICredits ==
  ASSUME Types(Controls), Run(UI), Credits
  PROVE  Credits'
<1>1. CASE Settled
  <2>1. PICK T \in {"EmuPause", "EmuUnpause"}, L \in SUBSET Instances :
          prog[UI] = <<BroadcastStep(L, T)>>
    BY <1>1, UITouches DEF Settled, Between
  <2>2. Now(UI) = BroadcastStep(L, T) /\ Tail(prog[UI]) = <<>>
    BY <2>1 DEF Now
  <2> QED BY <1>1, <2>2, BroadcastCredits DEF Settled
<1>2. ASSUME NEW i \in Instances, Dealing(i) PROVE Credits'
  <2>1. \A j \in Instances \ (stray \cup {i}) : Clear(j)
    BY <1>2 DEF Dealing
  <2>2. CASE i \in stray /\ Mine(i, prog[UI])
    BY <2>1, <2>2, MarkedCredits
  <2>3. CASE Balanced(i, prog[UI])
    BY <2>1, <2>3, SendCredits, WaitCredits, ImportCredits, QuietCredits DEF Balanced
  <2> QED BY <1>2, <2>2, <2>3 DEF Dealing
<1> QED BY <1>1, <1>2 DEF Credits

\* Nobody has sent anything yet.
LEMMA InitCredits == Init => Credits
<1> SUFFICES ASSUME Init PROVE Credits
  OBVIOUS
<1>1. \A j \in Instances : queue[j] = <<>> /\ cur[j] = None /\ sem[j] = 0 /\ prog[j] = <<>>
  BY DEF Init, Threads
<1>2. prog[UI] = <<>>
  BY DEF Init, Threads
<1> QED BY <1>1, <1>2 DEF Credits, Settled, Between, Clear, To

\* The books balance: whoever sends what to the other instances, an instance
\* that was called by the UI thread alone, and by calls that take their
\* credits, has exactly the messages and credits that the call under way is
\* waiting for.
THEOREM CreditsInvariance == Spec => []Credits
<1>1. Types(Controls) /\ Credits /\ [Next]_vars => Credits'
  <2> SUFFICES ASSUME Types(Controls), Credits, [Next]_vars PROVE Credits'
    OBVIOUS
  <2>1. CASE UNCHANGED vars
    <3>1. UNCHANGED <<queue, cur, sem, result, pc, prog, stray>>
      BY <2>1 DEF vars, loop
    <3>2. \A j \in Instances : Same(j)
      BY <3>1 DEF Same
    <3>3. (Settled \/ \E i \in Instances : Dealing(i))'
      BY <3>1, <3>2, BooksKept DEF Credits
    <3> QED BY <3>1, <3>3 DEF Credits, To
  <2>2. CASE UserAction
    BY <2>2, UserCredits
  <2>3. CASE Run(UI)
    BY <2>3, UICredits
  <2>4. ASSUME NEW i \in Instances, EmulationThread(i) \/ Hotkeys(i) \/ PowerOff(i)
        PROVE  Credits'
    BY <2>4, OtherCredits, LoopCredits, OwnCallCredits DEF EmulationThread, LoopStep
  <2> QED BY <2>1, <2>2, <2>3, <2>4 DEF Next
<1> QED BY <1>1, InitCredits, TypeInvariance, PTL DEF Spec

\* A call of the UI thread reads the result of its own message, whatever calls
\* the other threads make, as long as its instance got no message whose sender
\* leaves its credit behind or shares it (ResultIsOwn).
THEOREM ResultsAreOwn == Spec => []ResultIsOwn
<1>1. Types(Controls) /\ Credits => ResultIsOwn
  <2> SUFFICES ASSUME Types(Controls), Credits, prog[UI] # <<>>, Head(prog[UI]).do = "read",
                      Head(prog[UI]).to \notin stray
               PROVE  result[Head(prog[UI]).to].cmd = Head(prog[UI]).cmd
    BY DEF ResultIsOwn, Working, Now
  <2>1. \A i, m, n, L, T : /\ SendStep(i, m).do = "send" /\ WaitStep(i, n).do = "wait"
                           /\ BroadcastStep(L, T).do = "broadcast"
    BY DEF SendStep, WaitStep, BroadcastStep
  <2>2. \A i, d : OtherStep(d, i).do = d
    BY DEF OtherStep
  <2>3. ~Between(prog[UI])
    BY <2>1 DEF Between
  <2>4. PICK i \in Instances : Dealing(i)
    BY <2>3 DEF Credits, Settled
  <2>5. CASE i \in stray /\ Mine(i, prog[UI])
    <3>1. prog[UI] \in Seq(StepOf(Controls))
      BY DEF Types, Threads
    <3>2. 1 \in DOMAIN prog[UI] /\ Head(prog[UI]) = prog[UI][1]
      BY <3>1
    <3> QED BY <2>5, <3>2 DEF Mine
  <2>6. CASE Balanced(i, prog[UI])
    <3>1. ~Sends(i, prog[UI])
      BY <2>1 DEF Sends
    <3>2. \A m \in Message : ~Waits(i, m, prog[UI])
      BY <2>1 DEF Waits
    <3>3. Reads(i, prog[UI])
      BY <2>1, <2>2, <2>6, <3>1, <3>2 DEF Balanced
    <3>4. PICK c : result[i].cmd = c /\ Head(prog[UI]) = ReadStep(i, c)
      BY <3>3 DEF Reads
    <3> QED BY <3>4 DEF ReadStep
  <2> QED BY <2>4, <2>5, <2>6 DEF Dealing
<1> QED BY <1>1, TypeInvariance, CreditsInvariance, PTL

-----------------------------------------------------------------------------
(* A dialog stops every instance. *)

\* What the protocol says in the middle of emuPause.
LEMMA PauseInProtocol ==
  ASSUME Protocol, NEW i \in Instances, NEW L
  PROVE  LET b == BroadcastStep(L, "EmuPause")  w == WaitStep(i, 1)
         IN  /\ prog[UI] = <<b>> => \A j \in Instances : AtRest(j)
             /\ prog[UI] = <<SendStep(i, Msg("EmuPause")), w, b>> =>
                  Idle(i) /\ \A j \in Instances \ {i} : AtRest(j)
             /\ prog[UI] = <<w, b>> =>
                  /\ \A j \in Instances \ {i} : AtRest(j)
                  /\ \E m \in Message : m.type = "EmuPause" /\ Asked(i, m)
<1> DEFINE b == BroadcastStep(L, "EmuPause")  w == WaitStep(i, 1)
           s == SendStep(i, Msg("EmuPause"))
<1>0. /\ \A k, m : SendStep(k, m).do = "send" /\ SendStep(k, m).to = k
                   /\ SendStep(k, m).msg = m
      /\ \A k, n : WaitStep(k, n).do = "wait" /\ WaitStep(k, n).to = k
      /\ \A M, T : BroadcastStep(M, T).do = "broadcast" /\ BroadcastStep(M, T).type = T
      /\ \A k, c : ReadStep(k, c).do = "read"
  BY DEF SendStep, WaitStep, BroadcastStep, ReadStep
<1>1. \A k, d : OtherStep(d, k).do = d
  BY DEF OtherStep
<1>2. ASSUME prog[UI] = <<b>> PROVE \A j \in Instances : AtRest(j)
  <2>1. prog[UI] # <<>> /\ Head(prog[UI]).do = "broadcast"
    BY <1>0, <1>2
  <2>2. ASSUME NEW k \in Instances PROVE ~Phase(k, prog[UI]) /\ ~Exits(k, prog[UI])
    <3>1. ~Exits(k, prog[UI]) /\ ~Sends(k, prog[UI]) /\ ~Reads(k, prog[UI])
      BY <1>0, <1>1, <2>1 DEF Exits, Sends, Reads
    <3>2. \A m \in Message : ~Waits(k, m, prog[UI])
      BY <1>0, <2>1 DEF Waits
    <3> QED BY <1>0, <1>1, <2>1, <3>1, <3>2 DEF Phase
  <2> QED BY <2>2 DEF Protocol, Engaged
<1>3. ASSUME prog[UI] = <<s, w, b>>
      PROVE  Idle(i) /\ \A j \in Instances \ {i} : AtRest(j)
  <2>1. /\ prog[UI] # <<>> /\ Head(prog[UI]) = s /\ s.do = "send" /\ s.to = i
        /\ s.msg = Msg("EmuPause")
    BY <1>0, <1>3
  <2>2. Msg("EmuPause").type = "EmuPause" /\ \A c : Command(c).type = "Command"
          /\ Msg("Exit").type = "Exit"
    BY DEF Msg, Command
  <2>3. ~Between(prog[UI])
    BY <1>0, <2>1 DEF Between
  <2>4. PICK k \in Instances : /\ \A j \in Instances \ {k} : AtRest(j)
                               /\ Phase(k, prog[UI]) \/ Exits(k, prog[UI])
    BY <2>3 DEF Protocol, Engaged
  <2>5. ~Exits(k, prog[UI]) /\ ~Reads(k, prog[UI])
    BY <1>0, <1>1, <2>1, <2>2 DEF Exits, Reads
  <2>6. \A m \in Message : ~Waits(k, m, prog[UI])
    BY <1>0, <2>1 DEF Waits
  <2>7. Idle(k) /\ Sends(k, prog[UI])
    BY <1>0, <1>1, <2>1, <2>2, <2>4, <2>5, <2>6 DEF Phase
  <2>8. \E m : Head(prog[UI]) = SendStep(k, m)
    BY <2>7 DEF Sends
  <2>9. k = i
    BY <1>0, <2>1, <2>8
  <2> QED BY <2>4, <2>7, <2>9
<1>4. ASSUME prog[UI] = <<w, b>>
      PROVE  /\ \A j \in Instances \ {i} : AtRest(j)
             /\ \E m \in Message : m.type = "EmuPause" /\ Asked(i, m)
  <2>1. /\ prog[UI] # <<>> /\ Head(prog[UI]) = w /\ w.do = "wait" /\ w.to = i
        /\ Len(prog[UI]) = 2 /\ prog[UI][2] = b /\ b.do = "broadcast" /\ b.type = "EmuPause"
    BY <1>0, <1>4
  <2>3. ~Between(prog[UI])
    BY <1>0, <2>1 DEF Between
  <2>4. PICK k \in Instances : /\ \A j \in Instances \ {k} : AtRest(j)
                               /\ Phase(k, prog[UI]) \/ Exits(k, prog[UI])
    BY <2>3 DEF Protocol, Engaged
  <2>5. ~Exits(k, prog[UI]) /\ ~Reads(k, prog[UI]) /\ ~Sends(k, prog[UI])
    BY <1>0, <1>1, <2>1 DEF Exits, Reads, Sends
  <2>6. \A c : prog[UI] # <<WaitStep(k, 2), ReadStep(k, c)>>
    BY <1>0, <2>1
  <2>7. PICK m \in Message : Asked(k, m) /\ Waits(k, m, prog[UI])
    BY <1>0, <1>1, <2>1, <2>4, <2>5, <2>6 DEF Phase
  <2>8. Head(prog[UI]) = WaitStep(k, 1)
    BY <2>7 DEF Waits
  <2>9. k = i
    BY <1>0, <2>1, <2>8
  <2>10. m.type = "EmuPause"
    <3>1. prog[UI] # <<WaitStep(k, 1)>>
      BY <2>1
    <3>2. \A c : prog[UI] # <<WaitStep(k, 1), ReadStep(k, c)>>
      BY <1>0, <2>1
    <3>3. ASSUME NEW x, NEW y, NEW z PROVE prog[UI] # <<x, y, z>>
      <4>1. Len(<<x, y, z>>) # 2
        OBVIOUS
      <4> QED BY <2>1, <4>1, Zenon
    <3>4. ASSUME NEW x, NEW y, NEW z, NEW u PROVE prog[UI] # <<x, y, z, u>>
      <4>1. Len(<<x, y, z, u>>) # 2
        OBVIOUS
      <4> QED BY <2>1, <4>1, Zenon
    <3>5. \E M : prog[UI] = <<WaitStep(k, 1), BroadcastStep(M, m.type)>>
      BY <2>7, <3>1, <3>2, <3>3, <3>4 DEF Waits
    <3>6. \E M : prog[UI][2] = BroadcastStep(M, m.type)
      BY <3>5
    <3> QED BY <1>0, <2>1, <3>6
  <2> QED BY <2>4, <2>7, <2>9, <2>10
<1> QED BY <1>2, <1>3, <1>4

\* An instance at rest that stands still goes on standing still: a paused
\* emulator runs no frame (EmuThread.cpp:173-175).
LEMMA StillStays ==
  ASSUME NEW C, Types(C), NEW k \in Instances, NEW i \in Instances, LoopStep(i),
         Still(k), cur[k] = None
  PROVE  Still(k)'
<1>1. CASE k # i
  BY <1>1, Elsewhere DEF Still
<1>2. CASE k = i
  <2>0. /\ emu \in [Instances -> Emulator] /\ pc \in [Instances -> Places]
        /\ emu[i] \in Emulator /\ pc[i] # "frame"
        /\ pc[i] = "ended" \/ emu[i].status = "Paused"
    BY <1>2 DEF Types, Still
  <2>1. CASE Turn(i)
    <3>1. emu[i].status = "Paused"
      BY <2>0, <2>1 DEF Turn
    <3>2. pc'[i] = "lock"
      BY <2>0, <2>1, <3>1 DEF Turn
    <3>3. emu'[i] = [emu[i] EXCEPT !.status = IF emu[i].status = "FrameStep" THEN "Paused"
                                              ELSE emu[i].status]
      BY <2>0, <2>1 DEF Turn
    <3>4. emu'[i].status = "Paused"
      BY <2>0, <3>1, <3>3 DEF Emulator
    <3> QED BY <1>2, <3>2, <3>4 DEF Still
  <2>2. CASE FrameOver(i)
    BY <2>0, <2>2 DEF FrameOver
  <2>3. CASE TakeMessage(i)
    <3>1. pc'[i] = "handle" /\ emu'[i] = emu[i] /\ pc[i] # "ended"
      BY <2>3, Taken
    <3> QED BY <1>2, <2>0, <3>1 DEF Still
  <2>4. CASE HandleMessage(i)
    BY <1>2, <2>4 DEF HandleMessage
  <2>5. CASE MessagesDone(i)
    <3>1. pc'[i] \in {"gl", "top", "ended"} /\ emu' = emu /\ pc[i] # "ended"
      BY <2>0, <2>5 DEF MessagesDone, LoopTest
    <3> QED BY <1>2, <2>0, <3>1 DEF Still
  <2>6. CASE AwaitGL(i)
    <3>1. pc'[i] = "glwait" /\ emu' = emu /\ pc[i] # "ended"
      BY <2>0, <2>6 DEF AwaitGL
    <3> QED BY <1>2, <2>0, <3>1 DEF Still
  <2> QED BY <2>1, <2>2, <2>3, <2>4, <2>5, <2>6 DEF LoopStep
<1> QED BY <1>1, <1>2

\* Handling a pause leaves the emulator paused, nested or not.
LEMMA PauseStills ==
  ASSUME NEW C, Types(C), Stacks, NEW i \in Instances, HandleMessage(i),
         cur[i].type = "EmuPause"
  PROVE  Still(i)'
<1>1. emu'[i] = Paused(emu[i]) /\ pc'[i] = "handle"
  <2>1. emu'[i] = After(emu[i], cur[i].type) /\ pc'[i] = "handle"
    BY Handled
  <2> QED BY <2>1 DEF After
<1>2. emu[i] \in Emulator /\ StackOK(emu[i]) /\ emu[i].stack \in Nat
  BY DEF Types, Stacks, Emulator
<1>3. Paused(emu[i]).status = "Paused"
  <2>1. CASE emu[i].stack = 0
    <3>1. Paused(emu[i]) = [emu[i] EXCEPT !.stack = @ + 1, !.prev = emu[i].status,
                                          !.status = "Paused"]
      BY <2>1 DEF Paused, PauseThreshold
    <3> QED BY <1>2, <3>1 DEF Emulator
  <2>2. CASE emu[i].stack >= 1
    <3>1. emu[i].status = "Paused"
      BY <1>2, <2>2 DEF StackOK
    <3>2. Paused(emu[i]) = [emu[i] EXCEPT !.stack = @ + 1]
      BY <1>2, <2>2 DEF Paused, PauseThreshold
    <3> QED BY <1>2, <3>1, <3>2 DEF Emulator
  <2> QED BY <1>2, <2>1, <2>2
<1> QED BY <1>1, <1>3 DEF Still

\* A turn of a loop keeps what a dialog has stopped.
LEMMA LoopStopping ==
  ASSUME Types(Stepless), Protocol, Stacks, Stopping, NEW i \in Instances, LoopStep(i)
  PROVE  Stopping'
<1>0. UNCHANGED <<prog, dialog>>
  BY LoopLeaves
<1> SUFFICES ASSUME dialog # None PROVE Stopping'
  BY <1>0 DEF Stopping
<1>1. \A k \in Instances : Still(k) /\ cur[k] = None => Still(k)'
  BY StillStays
<1>2. \A k \in Instances : AtRest(k) => cur[k] = None
  BY DEF AtRest, Idle, Gone
<1>3. CASE prog[UI] = <<>> /\ \A j \in Instances : Still(j)
  <2>1. \A j \in Instances : Still(j)'
    BY <1>1, <1>2, <1>3, NothingOwed
  <2> QED BY <1>0, <1>3, <2>1 DEF Stopping
<1>4. ASSUME NEW L \in SUBSET Instances, prog[UI] = <<BroadcastStep(L, "EmuPause")>>,
             \A j \in Instances \ L : Still(j)
      PROVE  Stopping'
  <2>1. \A j \in Instances : AtRest(j)
    BY <1>4, PauseInProtocol
  <2>2. \A j \in Instances \ L : Still(j)'
    BY <1>1, <1>2, <1>4, <2>1
  <2> QED BY <1>0, <1>4, <2>2 DEF Stopping
<1>5. ASSUME NEW L \in SUBSET Instances, NEW k \in Instances,
             \A j \in Instances \ (L \cup {k}) : Still(j),
             prog[UI] = <<SendStep(k, Msg("EmuPause")), WaitStep(k, 1),
                          BroadcastStep(L, "EmuPause")>>
      PROVE  Stopping'
  <2>1. \A j \in Instances \ {k} : AtRest(j)
    BY <1>5, PauseInProtocol
  <2>2. \A j \in Instances \ (L \cup {k}) : Still(j)'
    BY <1>1, <1>2, <1>5, <2>1
  <2> QED BY <1>0, <1>5, <2>2 DEF Stopping
<1>6. ASSUME NEW L \in SUBSET Instances, NEW k \in Instances,
             \A j \in Instances \ (L \cup {k}) : Still(j),
             prog[UI] = <<WaitStep(k, 1), BroadcastStep(L, "EmuPause")>>,
             sem[k] = 1 => Still(k)
      PROVE  Stopping'
  <2>1. /\ \A j \in Instances \ {k} : AtRest(j)
        /\ \E m \in Message : m.type = "EmuPause" /\ Asked(k, m)
    BY <1>6, PauseInProtocol
  <2>2. PICK m \in Message : m.type = "EmuPause" /\ Asked(k, m)
    BY <2>1
  <2>3. \A j \in Instances \ (L \cup {k}) : Still(j)'
    BY <1>1, <1>2, <1>6, <2>1
  <2>4. sem'[k] = 1 => Still(k)'
    <3>1. CASE sem[k] = 1
      BY <1>1, <1>6, <2>2, <3>1 DEF Asked
    <3>2. CASE sem[k] # 1
      <4> SUFFICES ASSUME sem'[k] = 1 PROVE Still(k)'
        OBVIOUS
      <4>1. k = i
        BY <3>2, Elsewhere
      <4>2. HandleMessage(i)
        <5>1. UNCHANGED sem \/ HandleMessage(i)
          BY DEF LoopStep, Turn, FrameOver, TakeMessage, MessagesDone, AwaitGL
        <5> QED BY <3>2, <5>1
      <4>3. cur[i] # None
        BY <4>2 DEF HandleMessage
      <4>4. cur[i].type = "EmuPause"
        BY <2>2, <4>1, <4>3 DEF Asked
      <4> QED BY <4>1, <4>2, <4>4, PauseStills
    <3> QED BY <3>1, <3>2
  <2> QED BY <1>0, <1>6, <2>3, <2>4 DEF Stopping
<1> QED BY <1>3, <1>4, <1>5, <1>6 DEF Stopping

\* The next step of emuPause keeps what it has stopped already.
LEMMA RunStopping ==
  ASSUME Types(Stepless), Protocol, Stopping, Run(UI)
  PROVE  Stopping'
<1>0. prog[UI] # <<>> /\ UNCHANGED <<emu, dialog>>
  BY RunTouches
<1> SUFFICES ASSUME dialog # None PROVE Stopping'
  BY <1>0 DEF Stopping
<1>1. UNCHANGED pc => \A j \in Instances : Still(j) => Still(j)'
  BY <1>0 DEF Still
<1>2. ASSUME NEW L \in SUBSET Instances, prog[UI] = <<BroadcastStep(L, "EmuPause")>>,
             \A j \in Instances \ L : Still(j)
      PROVE  Stopping'
  <2>1. Now(UI) = BroadcastStep(L, "EmuPause") /\ Tail(prog[UI]) = <<>>
    BY <1>2 DEF Now
  <2>2. PICK S : S = {j \in L : pc[j] # "ended"}
    OBVIOUS
  <2>3. /\ UNCHANGED pc
        /\ \/ prog'[UI] = <<>> /\ \A j \in L : pc[j] = "ended"
           \/ \E j \in L : /\ pc[j] # "ended"
                           /\ prog'[UI] = <<SendStep(j, Msg("EmuPause")), WaitStep(j, 1),
                                            BroadcastStep(S \ {j}, "EmuPause")>>
    BY <2>1, <2>2, RunBroadcast
  <2>4. \A j \in Instances \ S : Still(j)'
    <3>1. \A j \in Instances \ S : Still(j)
      BY <1>2, <2>2 DEF Still
    <3> QED BY <1>1, <2>3, <3>1
  <2>5. CASE prog'[UI] = <<>> /\ \A j \in L : pc[j] = "ended"
    <3>1. S = {}
      BY <2>2, <2>5
    <3> QED BY <2>4, <2>5, <3>1 DEF Stopping
  <2>6. ASSUME NEW j \in L, prog'[UI] = <<SendStep(j, Msg("EmuPause")), WaitStep(j, 1),
                                         BroadcastStep(S \ {j}, "EmuPause")>>
        PROVE  Stopping'
    <3>1. PICK M : M = S \ {j}
      OBVIOUS
    <3>2. M \in SUBSET Instances /\ j \in Instances
      BY <2>2, <3>1
    <3>3. \A k \in Instances \ (M \cup {j}) : Still(k)'
      BY <2>4, <3>1
    <3> QED BY <2>6, <3>1, <3>2, <3>3 DEF Stopping
  <2> QED BY <2>3, <2>5, <2>6
<1>3. ASSUME NEW L \in SUBSET Instances, NEW i \in Instances,
             \A j \in Instances \ (L \cup {i}) : Still(j),
             prog[UI] = <<SendStep(i, Msg("EmuPause")), WaitStep(i, 1),
                          BroadcastStep(L, "EmuPause")>>
      PROVE  Stopping'
  <2>1. /\ Now(UI) = SendStep(i, Msg("EmuPause"))
        /\ Tail(prog[UI]) = <<WaitStep(i, 1), BroadcastStep(L, "EmuPause")>>
    BY <1>3 DEF Now
  <2>2. prog'[UI] = Tail(prog[UI]) /\ UNCHANGED <<pc, sem>>
    BY <2>1, RunSend
  <2>3. Idle(i)
    BY <1>3, PauseInProtocol
  <2>4. sem'[i] # 1
    BY <2>2, <2>3 DEF Idle
  <2>5. \A j \in Instances \ (L \cup {i}) : Still(j)'
    BY <1>1, <1>3, <2>2
  <2> QED BY <2>1, <2>2, <2>4, <2>5 DEF Stopping
<1>4. ASSUME NEW L \in SUBSET Instances, NEW i \in Instances,
             \A j \in Instances \ (L \cup {i}) : Still(j),
             prog[UI] = <<WaitStep(i, 1), BroadcastStep(L, "EmuPause")>>,
             sem[i] = 1 => Still(i)
      PROVE  Stopping'
  <2>1. /\ Now(UI) = WaitStep(i, 1) /\ Tail(prog[UI]) = <<BroadcastStep(L, "EmuPause")>>
    BY <1>4 DEF Now
  <2>2. prog'[UI] = Tail(prog[UI]) /\ UNCHANGED pc
    BY <2>1, RunWait
  <2>3. PICK m \in Message : Asked(i, m)
    BY <1>4, PauseInProtocol
  <2>4. sem[i] = 1
    BY <2>1, <2>3, WaitAnswers
  <2>5. \A j \in Instances \ L : Still(j)'
    BY <1>1, <1>4, <2>2, <2>4
  <2> QED BY <2>1, <2>2, <2>5 DEF Stopping
<1> QED BY <1>0, <1>2, <1>3, <1>4 DEF Stopping

\* Opening a dialog starts emuPause, and nothing else is called until it is
\* closed.
LEMMA UserStopping ==
  ASSUME "Focus" \notin Ops, Types(Stepless), UserAction
  PROVE  Stopping'
<1>1. CASE CloseDialog
  BY <1>1 DEF CloseDialog, Stopping
<1>2. ASSUME NEW i \in Instances, OpenDialog(i) PROVE Stopping'
  <2>1. PICK L : L = Instances \ {i}
    OBVIOUS
  <2>2. emuPause(i) = <<SendStep(i, Msg("EmuPause")), WaitStep(i, 1),
                        BroadcastStep(L, "EmuPause")>>
    BY <2>1, CallShapes DEF emuPause
  <2>3. prog'[UI] = <<SendStep(i, Msg("EmuPause")), WaitStep(i, 1),
                      BroadcastStep(L, "EmuPause")>>
    BY <1>2, <2>2 DEF OpenDialog, Counted, UICall, Types, Threads
  <2>4. L \in SUBSET Instances /\ Instances \ (L \cup {i}) = {}
    BY <2>1
  <2> QED BY <2>3, <2>4 DEF Stopping
<1>3. ASSUME NEW i \in Instances, MenuPause(i) \/ MenuCommand(i) PROVE Stopping'
  BY <1>3 DEF MenuPause, MenuCommand, Stopping, window
<1>4. ASSUME NEW i \in Instances PROVE ~LoseFocus(i) /\ ~GetFocus(i)
  BY DEF LoseFocus, GetFocus
<1> QED BY <1>1, <1>2, <1>3, <1>4 DEF UserAction

\* While a dialog is open and emuPause has returned, no instance runs a frame,
\* whatever number of instances there are and whatever pauses, stops and resets
\* came before (EmuThread.cpp:173-175, 504-517, 713-720, main.cpp:171-180). The
\* window must not follow the focus meanwhile: getting it back would unpause.
THEOREM DialogsStopEveryone ==
  ASSUME Ops \subseteq {"GL", "Exit"}
  PROVE  Spec => []PauseHolds
<1>0. UIOnly /\ "Focus" \notin Ops /\ Ops \cap {"Hotkeys", "FrameStep"} = {}
  BY DEF UIOnly
<1> DEFINE All == Types(Stepless) /\ Protocol /\ Stacks
<1>1. Spec => []All
  BY <1>0, ProtocolInvariance, StacksInvariance, PTL
<1>2. Init => Stopping
  BY DEF Init, Stopping
<1>3. All /\ Stopping /\ [Next]_vars => Stopping'
  <2> SUFFICES ASSUME All, Stopping, [Next]_vars PROVE Stopping'
    OBVIOUS
  <2>1. CASE UNCHANGED vars
    <3>1. UNCHANGED <<dialog, prog, sem, pc, emu>>
      BY <2>1 DEF vars, loop, window
    <3>2. \A j : Still(j)' <=> Still(j)
      BY <3>1 DEF Still
    <3> QED BY <3>1, <3>2 DEF Stopping
  <2>2. CASE Next
    BY <1>0, <2>2, OnlyUI, UserStopping, RunStopping, LoopStopping
  <2> QED BY <2>1, <2>2
<1>4. Stopping => PauseHolds
  BY SMTT(60) DEF Stopping, PauseHolds, Working, Still
<1> HIDE DEF All
<1>5. Spec => []Stopping
  BY <1>1, <1>2, <1>3, PTL DEF Spec
<1> QED BY <1>4, <1>5, PTL
=============================================================================
