------------------------------- MODULE LocalMP -------------------------------
(***************************************************************************)
(* Local multiplayer between emulator instances of one process             *)
(* (src/src/net/LocalMP.cpp): two ring buffers in shared memory, one for   *)
(* frames to everybody and one for MP replies to the host, a mutex around  *)
(* them, and for each instance a semaphore that counts the frames it has   *)
(* still to look at in either ring.                                        *)
(*                                                                         *)
(* The semaphores are posted after the mutex is given back, one by one, so *)
(* other instances run between a frame being written and being counted.    *)
(* A frame is a header cell and `len' payload cells; the cell <<id, k>> is *)
(* the k-th cell of the id-th frame ever written, k = 0 the header with    *)
(* the magic number.  Timestamps are abstracted to the number of the CMD   *)
(* frame an exchange belongs to.                                           *)
(***************************************************************************)
EXTENDS Integers, Sequences, FiniteSets, FiniteSetsExt

CONSTANTS
  Instances, Hosts,  \* the instances, and those that send CMD frames
  None,
  Size,              \* cells of a ring (kPacketQueueSize, kReplyQueueSize)
  Lens,              \* payload cells of a frame, at most kMaxFrameSize
  MaxFrames,         \* bound: frames in a behaviour
  Ops                \* "Overflow": senders do not wait for slow receivers;
                     \* "Rejoin": an instance may come back

ASSUME RingAssumption ==
  Size \in Nat \ {0, 1} /\ MaxFrames \in Nat /\ Lens \subseteq 1 .. Size - 1
ASSUME InstancesAssumption ==
  Hosts \subseteq Instances /\ None \notin Instances /\ Ops \subseteq {"Overflow", "Rejoin"}

VARIABLES
  mem,          \* MPPacketQueue and MPReplyQueue
  write,        \* PacketWriteOffset and ReplyWriteOffset
  read,         \* PacketReadOffset and ReplyReadOffset of each instance
  sem,          \* SemPool: regular frames and MP replies of each instance
  connected,    \* ConnectedBitmask
  host,         \* MPHostinst
  lastHost,     \* LastHostID
  pc,           \* what each instance's emulation thread is doing
  post,         \* the semaphores it still has to post
  replies,      \* RecvReplies' ret: the replies in `packets'
  heard,        \* its myinstmask
  waitFor,      \* its curinstmask and aidmask
  command,      \* the CMD frame an instance sent last, or has to reply to
  log,          \* history: all frames
  seen,         \* history: the frame of a ring each instance came to last
  joins         \* history: how often an instance has called Begin

ring == <<mem, write, read>>
exchange == <<replies, heard, waitFor>>
history == <<log, seen, joins>>
vars == <<ring, sem, connected, host, lastHost, pc, post, exchange,
          command, history>>

Fifos == {"packet", "reply"}
Types == {"packet", "cmd", "reply", "ack"}
Fifo(type) == IF type = "reply" THEN "reply" ELSE "packet"
Offsets == 0 .. Size - 1
Blank == <<0, 0>>
AckLen == 1          \* an ACK frame is short and of fixed length
Clients == Instances \ Hosts
Newest == Len(log)

\* The frames instance i has still to come to in ring f.
Unread(f, i) ==
  {id \in DOMAIN log : Fifo(log[id].type) = f /\ id > seen[f][i]}

\* The cells ever written to ring f, and those of them that instance i has
\* left behind; a frame's `at' is what was written before it.
Frames(f) == {id \in DOMAIN log : Fifo(log[id].type) = f}
EndOf(id) == log[id].at + log[id].len + 1
Written(f) == IF Frames(f) = {} THEN 0 ELSE EndOf(Max(Frames(f)))
Passed(f, i) == IF Unread(f, i) = {} THEN Written(f) ELSE log[Min(Unread(f, i))].at

Init ==
  /\ mem = [f \in Fifos |-> [o \in Offsets |-> Blank]]
  /\ write = [f \in Fifos |-> 0]
  /\ read = [f \in Fifos |-> [i \in Instances |-> 0]]
  /\ sem = [f \in Fifos |-> [i \in Instances |-> 0]]
  /\ connected = {} /\ host \in Hosts /\ lastHost = None
  /\ pc = [i \in Instances |-> "idle"] /\ post = [i \in Instances |-> {}]
  /\ replies = [i \in Instances |-> {}] /\ heard = [i \in Instances |-> {}]
  /\ waitFor = [i \in Instances |-> [instances |-> {}, aids |-> {}]]
  /\ command = [i \in Instances |-> 0]
  /\ log = <<>> /\ seen = [f \in Fifos |-> [i \in Instances |-> 0]]
  /\ joins = [i \in Instances |-> 0]

-----------------------------------------------------------------------------
(* Joining and leaving                                                     *)

Begin(i) ==
  /\ pc[i] = "idle" /\ i \notin connected
  /\ joins[i] < (IF "Rejoin" \in Ops THEN 2 ELSE 1)
  /\ joins' = [joins EXCEPT ![i] = @ + 1]
  /\ read' = [f \in Fifos |-> [read[f] EXCEPT ![i] = write[f]]]
  /\ sem' = [f \in Fifos |-> [sem[f] EXCEPT ![i] = 0]]
  /\ seen' = [f \in Fifos |-> [seen[f] EXCEPT ![i] = Newest]]
  /\ connected' = connected \cup {i}
  /\ UNCHANGED <<mem, write, host, lastHost, pc, post, exchange, command, log>>

End(i) ==
  /\ pc[i] = "idle" /\ i \in connected
  /\ connected' = connected \ {i}
  /\ UNCHANGED <<ring, sem, host, lastHost, pc, post, exchange, command, history>>

-----------------------------------------------------------------------------
(* Sending                                                                 *)

\* FIFORead and FIFOWrite step over len cells.
Moved(o, len) == IF o + len >= Size THEN len - (Size - o) ELSE o + len

\* FIFOWrite: header and payload go to the cells from the write offset on.
FIFOWrite(f, id, len) ==
  LET At(o) == {k \in 0 .. len : Moved(write[f], k) = o}
  IN [o \in Offsets |-> IF At(o) = {} THEN mem[f][o] ELSE <<id, Max(At(o))>>]

\* Mutant of FIFORead: the second part is not taken from the start of the ring.
FIFOReadPart1(f, o, len) ==
  [k \in 1 .. len |-> mem[f][IF o + k > Size THEN k - 1 ELSE o + k - 1]]

\* FIFORead: the len cells after offset o.
FIFORead(f, o, len) == [k \in 1 .. len |-> mem[f][Moved(o, k - 1)]]

\* The rings are never checked for being full; without "Overflow" the
\* receivers keep up with the senders.
Fits(f, len) ==
  LET readers == IF f = "packet" THEN connected ELSE connected \cap Hosts
  IN \/ "Overflow" \in Ops
     \/ \A i \in readers : Written(f) - Passed(f, i) + len + 1 <= Size

\* Mutant of Receivers: the sender is not counted in, though it skips its
\* own frames only when it comes to them.
ReceiversButSender(i) == connected \ {i}

\* SendPacketGeneric's mask.
Receivers(i) == connected

\* SendPacketGeneric up to Mutex_Unlock.  A CMD frame makes its sender the
\* host and forgets the replies to the one before.
SendPacketGeneric(i, type, len) ==
  LET f == Fifo(type)
      id == Newest + 1
  IN /\ pc[i] = "idle" /\ i \in connected /\ Newest < MaxFrames
     /\ Fits(f, len)
     /\ mem' = [mem EXCEPT ![f] = FIFOWrite(f, id, len)]
     /\ write' = [write EXCEPT ![f] = Moved(Moved(@, 1), len)]
     /\ log' = Append(log, [sender |-> i, type |-> type, len |-> len, at |-> Written(f),
                            command |-> IF type = "cmd" THEN id ELSE command[i]])
     /\ IF type = "cmd"
        THEN /\ host' = i
             /\ read' = [read EXCEPT !["reply"][i] = write["reply"]]
             /\ sem' = [sem EXCEPT !["reply"][i] = 0]
             /\ seen' = [seen EXCEPT !["reply"][i] = id]
        ELSE UNCHANGED <<host, read, sem, seen>>
     /\ pc' = [pc EXCEPT ![i] = IF type = "reply" THEN "postReply" ELSE "post"]
     /\ post' = [post EXCEPT ![i] = IF type = "reply" THEN {} ELSE Receivers(i)]
     /\ UNCHANGED <<connected, lastHost, exchange, joins>>

SendPacket(i) ==
  /\ \E len \in Lens : SendPacketGeneric(i, "packet", len)
  /\ UNCHANGED command

SendAck(i) ==
  /\ i \in Hosts /\ command[i] # 0 /\ SendPacketGeneric(i, "ack", AckLen)
  /\ UNCHANGED command

SendCmd(i) ==
  /\ i \in Hosts
  /\ \E len \in Lens : SendPacketGeneric(i, "cmd", len)
  /\ command' = [command EXCEPT ![i] = Newest + 1]

\* A client answers the CMD frame it received, with or without data.
SendReply(i) ==
  /\ i \in Clients /\ command[i] # 0
  /\ \E len \in Lens \cup {0} : SendPacketGeneric(i, "reply", len)
  /\ command' = [command EXCEPT ![i] = 0]

\* The loop over the mask, after Mutex_Unlock; then the call returns.
Post(i) ==
  /\ pc[i] = "post"
  /\ IF post[i] = {}
     THEN pc' = [pc EXCEPT ![i] = "idle"] /\ UNCHANGED <<sem, post>>
     ELSE \E j \in post[i] :
            /\ sem' = [sem EXCEPT !["packet"][j] = @ + 1]
            /\ post' = [post EXCEPT ![i] = @ \ {j}] /\ UNCHANGED pc
  /\ UNCHANGED <<ring, connected, host, lastHost, exchange, command, history>>

\* The host is looked up after the mutex was given back.
PostReply(i) ==
  /\ pc[i] = "postReply"
  /\ sem' = [sem EXCEPT !["reply"][host] = @ + 1]
  /\ pc' = [pc EXCEPT ![i] = "idle"]
  /\ UNCHANGED <<ring, connected, host, lastHost, post, exchange, command, history>>

-----------------------------------------------------------------------------
(* Receiving                                                               *)

\* Calls of RecvPacket, which does not wait, and of RecvHostPacket, which
\* returns at once when the last host has left.
RecvPacket(i) ==
  /\ pc[i] = "idle" /\ i \in connected
  /\ pc' = [pc EXCEPT ![i] = "take"]
  /\ UNCHANGED <<ring, sem, connected, host, lastHost, post, exchange, command, history>>

RecvHostPacket(i) ==
  /\ i \in Clients
  /\ lastHost # None => lastHost \in connected
  /\ RecvPacket(i)

\* Semaphore_TryWait: a credit, or none within the timeout.
TryWait(i) ==
  /\ pc[i] = "take"
  /\ IF sem["packet"][i] > 0
     THEN /\ sem' = [sem EXCEPT !["packet"][i] = @ - 1]
          /\ pc' = [pc EXCEPT ![i] = "read"]
     ELSE /\ pc' = [pc EXCEPT ![i] = "idle"] /\ UNCHANGED sem
  /\ UNCHANGED <<ring, connected, host, lastHost, post, exchange, command, history>>

\* The header instance i reads next, and whether it has the magic number.
Header(f, i) == FIFORead(f, read[f][i], 1)[1]
HasMagic(cell) == cell[1] # 0 /\ cell[2] = 0

\* What both readers do under the lock when the header is not one.
Overflowed(f, i) ==
  /\ ~HasMagic(Header(f, i))
  /\ read' = [read EXCEPT ![f][i] = write[f]]
  /\ sem' = [sem EXCEPT ![f][i] = 0]
  /\ seen' = [seen EXCEPT ![f][i] = Newest]
  /\ pc' = [pc EXCEPT ![i] = "idle"]

\* Mutant of StepOver: a frame that is skipped keeps its payload in the way.
StepOverHeader(f, i, id) ==
  /\ read' = [read EXCEPT ![f][i] =
                IF log[id].sender = i THEN Moved(@, 1) ELSE Moved(Moved(@, 1), log[id].len)]
  /\ seen' = [seen EXCEPT ![f][i] = id]

\* Both readers leave a frame behind, read or skipped.
StepOver(f, i, id) ==
  /\ read' = [read EXCEPT ![f][i] = Moved(Moved(@, 1), log[id].len)]
  /\ seen' = [seen EXCEPT ![f][i] = id]

\* RecvPacketGeneric from Mutex_Lock to Mutex_Unlock.
RecvPacketGeneric(i) ==
  LET id == Header("packet", i)[1]
  IN /\ pc[i] = "read"
     /\ \/ Overflowed("packet", i) /\ UNCHANGED <<lastHost, command>>
        \/ /\ HasMagic(Header("packet", i)) /\ StepOver("packet", i, id)
           /\ IF log[id].sender = i
              THEN /\ pc' = [pc EXCEPT ![i] = "take"]
                   /\ UNCHANGED <<lastHost, command>>
              ELSE /\ pc' = [pc EXCEPT ![i] = "idle"]
                   /\ IF log[id].type = "cmd"
                      THEN /\ lastHost' = log[id].sender
                           /\ command' = [command EXCEPT ![i] =
                                            IF i \in Clients THEN id ELSE @]
                      ELSE UNCHANGED <<lastHost, command>>
           /\ UNCHANGED sem
     /\ UNCHANGED <<mem, write, connected, host, post, exchange, log, joins>>

\* RecvReplies, called for the clients a CMD frame addressed.
RecvReplies(i) ==
  /\ pc[i] = "idle" /\ i \in Hosts \cap connected /\ command[i] # 0
  /\ replies' = [replies EXCEPT ![i] = {}] /\ heard' = [heard EXCEPT ![i] = {i}]
  /\ \E aids \in (SUBSET Clients) \ {{}} :
       waitFor' = [waitFor EXCEPT ![i] = [instances |-> connected, aids |-> aids]]
  /\ pc' = [pc EXCEPT ![i] = IF connected \subseteq {i} THEN @ ELSE "takeReply"]
  /\ UNCHANGED <<ring, sem, connected, host, lastHost, post, command, history>>

TryWaitReply(i) ==
  /\ pc[i] = "takeReply"
  /\ IF sem["reply"][i] > 0
     THEN /\ sem' = [sem EXCEPT !["reply"][i] = @ - 1]
          /\ pc' = [pc EXCEPT ![i] = "readReply"]
     ELSE /\ pc' = [pc EXCEPT ![i] = "idle"] /\ UNCHANGED sem
  /\ UNCHANGED <<ring, connected, host, lastHost, post, exchange, command, history>>

\* Mutant of Stale: replies to earlier CMD frames are taken as well.
StaleNever(i, id) == log[id].sender = i

\* The reply is skipped.
Stale(i, id) == log[id].sender = i \/ log[id].command < command[i]

\* The loop of RecvReplies, from Mutex_Lock to Mutex_Unlock.
ReadReply(i) ==
  LET id == Header("reply", i)[1]
  IN /\ pc[i] = "readReply"
     /\ \/ /\ Overflowed("reply", i)
           /\ replies' = [replies EXCEPT ![i] = {}] /\ UNCHANGED heard
        \/ /\ HasMagic(Header("reply", i)) /\ StepOver("reply", i, id)
           /\ IF Stale(i, id)
              THEN pc' = [pc EXCEPT ![i] = "takeReply"] /\ UNCHANGED <<replies, heard>>
              ELSE /\ replies' = [replies EXCEPT ![i] = IF log[id].len = 0 THEN @ ELSE @ \cup {id}]
                   /\ heard' = [heard EXCEPT ![i] = @ \cup {log[id].sender}]
                   /\ LET aids == {log[r].sender : r \in replies'[i]}
                          done == \/ waitFor[i].instances \subseteq heard'[i]
                                  \/ waitFor[i].aids \subseteq aids
                      IN pc' = [pc EXCEPT ![i] = IF done THEN "idle" ELSE "takeReply"]
           /\ UNCHANGED sem
     /\ UNCHANGED <<mem, write, connected, host, lastHost, post, waitFor, command,
                    log, joins>>

-----------------------------------------------------------------------------
Send(i) == SendPacket(i) \/ SendAck(i) \/ SendCmd(i) \/ SendReply(i)
Finish(i) ==
  \/ Post(i) \/ PostReply(i)
  \/ TryWait(i) \/ RecvPacketGeneric(i)
  \/ TryWaitReply(i) \/ ReadReply(i)

Next ==
  \E i \in Instances :
    \/ Begin(i) \/ End(i) \/ Send(i) \/ Finish(i)
    \/ RecvPacket(i) \/ RecvHostPacket(i) \/ RecvReplies(i)

\* An instance's emulation thread finishes the call it is in, and polls for
\* frames (Wifi::CheckRX) again and again.
Fairness ==
  \A i \in Instances : WF_vars(Finish(i)) /\ SF_vars(RecvPacket(i))

Spec == Init /\ [][Next]_vars /\ Fairness

-----------------------------------------------------------------------------
(* Properties                                                              *)

\* Offsets stay inside the rings and every value in its range.
TypeOK ==
  /\ mem \in [Fifos -> [Offsets -> (0 .. MaxFrames) \X Offsets]]
  /\ write \in [Fifos -> Offsets] /\ read \in [Fifos -> [Instances -> Offsets]]
  /\ sem \in [Fifos -> [Instances -> 0 .. MaxFrames]]
  /\ connected \subseteq Instances /\ host \in Hosts /\ lastHost \in Hosts \cup {None}
  /\ pc \in [Instances -> {"idle", "post", "postReply", "take", "read", "takeReply", "readReply"}]
  /\ post \in [Instances -> SUBSET Instances]
  /\ replies \in [Instances -> SUBSET DOMAIN log] /\ heard \in [Instances -> SUBSET Instances]
  /\ waitFor \in [Instances -> [instances : SUBSET Instances, aids : SUBSET Clients]]
  /\ command \in [Instances -> 0 .. Newest]
  /\ \A id \in DOMAIN log :
       log[id] \in [sender : Instances, type : Types, len : Lens \cup {0, AckLen},
                    at : Nat, command : 0 .. Newest]
  /\ seen \in [Fifos -> [Instances -> 0 .. Newest]] /\ joins \in [Instances -> 0 .. 2]

\* Although the mutex is free between the semaphore and the read, a reader
\* comes to every frame of the ring once and in the order they were sent, and
\* never mistakes payload for a header (the "PACKET FIFO OVERFLOW" path).
FramesInOrder ==
  [][\A i \in Instances : (pc[i] = "read" /\ pc'[i] # "read") =>
       seen'["packet"][i] = Min(Unread("packet", i))]_vars

\* What RecvPacketGeneric is going to read is the whole of the next frame,
\* header and payload, also where either was split at the end of the ring and
\* whatever was written since the credit was taken.
FramesIntact ==
  \A i \in connected : pc[i] = "read" =>
    LET id == Min(Unread("packet", i))
    IN FIFORead("packet", read["packet"][i], log[id].len + 1)
         = [k \in 1 .. log[id].len + 1 |-> <<id, k - 1>>]

\* RecvReplies hands the host replies to its current CMD frame only, however
\* late a client answers and however its post races with the next SendCmd.
RepliesAreCurrent ==
  [][\A i \in Instances : \A r \in replies'[i] \ replies[i] :
       log[r].sender # i /\ log[r].command = command[i]]_vars

\* A frame sent to a connected instance is looked at, unless the instance
\* leaves: no credit is lost between the senders' posts and the readers.
FramesArrive ==
  \A i \in Instances, id \in 1 .. MaxFrames :
    (i \in connected /\ id \in Unread("packet", i))
      ~> (i \notin connected \/ seen["packet"][i] >= id)
=============================================================================
