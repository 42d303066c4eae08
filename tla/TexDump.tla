------------------------------ MODULE TexDump -------------------------------
(***************************************************************************)
(* The texture dumper: the emulation thread hands decoded textures, with   *)
(* their palettes, to a worker thread that writes them to files.  Names    *)
(* already handed over are remembered and skipped; Init and Shutdown start *)
(* and stop the worker when games come and go.                             *)
(*                                                                         *)
(* A file is named by its texture, its palette and what it holds.  Writing *)
(* may fail, and leave no file or one that is cut short; the dumper only   *)
(* asks whether a file exists, so that one counts as dumped ever after.    *)
(***************************************************************************)
EXTENDS Naturals, FiniteSets, SequencesExt

CONSTANTS
    Textures, Palettes,
    Paletted,     \* the textures of a format with a palette
    None,         \* no palette
    Budget,       \* inMemoryDedupBudget
    Gens,         \* what the generator of index maps may do: "none" (there is
                  \* none), "data", "fails"
    Cap,          \* ioQueueCap
    MaxLost       \* bound: files given up so far when another write fails

ASSUME TexDumpAssumption ==
    /\ Budget \in Nat /\ Cap \in Nat /\ MaxLost \in Nat
    /\ Textures # {} /\ Paletted \subseteq Textures /\ None \notin Palettes
    /\ Gens \subseteq {"none", "data", "fails"}

Base(t)     == <<t, None, "base">>
Info(t, p)  == <<t, p, "info">>
Index(t, p) == <<t, p, "index">>

Files == {Base(t) : t \in Textures} \union {Info(t, p) : t \in Paletted, p \in Palettes}
           \union {Index(t, p) : t \in Paletted, p \in Palettes}

VARIABLES
    files,        \* the files that exist, in whole or in part
    emu,          \* where the emulation thread is
    op,           \* "Init" (dumping or not) or "Shutdown"
    job,          \* the job DumpIfEnabled puts together
    enableDump, GRunning,
    Seen, SeenPalette, SeenPaletteIndex,
    Q,
    worker,       \* where the worker thread is
    wjob,         \* the job the worker writes
    lost,         \* history: remembered files that nobody is going to write
    missed        \* history: the worker was told to stop between its test and
                  \* its wait

session == <<enableDump, GRunning>>
seen    == <<Seen, SeenPalette, SeenPaletteIndex>>
vars    == <<files, emu, op, job, session, seen, Q, worker, wjob, lost, missed>>

AllSeen == Seen \union SeenPalette \union SeenPaletteIndex

\* A DumpJob: what it was called for, and the files it is to write.
NoJob == [tex |-> CHOOSE t \in Textures : TRUE, pal |-> None, gen |-> "none", out |-> {}]

-----------------------------------------------------------------------------
(* The emulation thread: DumpIfEnabled.                                    *)

\* What is left of Seen when it is at its budget: half of it goes, in the
\* order of a hash table.
Kept(S) ==
    IF Cardinality(S) < Budget THEN {S}
    ELSE {S \ D : D \in {X \in SUBSET S : Cardinality(X) = Budget \div 2}}

\* The texture itself, under SeenMtx.  A texture that is not on disk makes room
\* in Seen, one that is does not.
DumpIfEnabled(t, p, g) ==
    LET f == Base(t)
        new == f \notin Seen /\ f \notin files
        j == [tex |-> t, pal |-> p, gen |-> g, out |-> IF new THEN {f} ELSE {}]
    IN
    /\ emu = "idle" /\ enableDump
    /\ IF new THEN \E S \in Kept(Seen) : Seen' = S \union {f}
       ELSE Seen' = Seen \union {f}
    /\ emu' = IF p # None THEN "palette" ELSE IF new THEN "push" ELSE "idle"
    /\ job' = IF emu' = "idle" THEN NoJob ELSE j
    /\ lost' = IF new THEN lost \ ((Seen \ Seen') \union {f}) ELSE lost
    /\ UNCHANGED <<files, op, session, SeenPalette, SeenPaletteIndex, Q, worker, wjob, missed>>

\* The description of the palette, under SeenPaletteMtx.
DumpPalette ==
    LET f == Info(job.tex, job.pal) IN
    /\ emu = "palette"
    /\ SeenPalette' = SeenPalette \union {f}
    /\ job' = IF f \in SeenPalette \union files THEN job ELSE [job EXCEPT !.out = @ \union {f}]
    /\ emu' = "index"
    /\ UNCHANGED <<files, op, session, Seen, SeenPaletteIndex, Q, worker, wjob, lost, missed>>

\* The palette's index map, under SeenPaletteIndexMtx, if there is a generator;
\* it is remembered even if nothing is generated.
DumpPaletteIndex ==
    LET f == Index(job.tex, job.pal)
        new == job.gen # "none" /\ f \notin SeenPaletteIndex \union files
        j == IF new /\ job.gen = "data" THEN [job EXCEPT !.out = @ \union {f}] ELSE job
    IN
    /\ emu = "index"
    /\ SeenPaletteIndex' = IF job.gen = "none" THEN SeenPaletteIndex
                           ELSE SeenPaletteIndex \union {f}
    /\ job' = IF j.out = {} THEN NoJob ELSE [j EXCEPT !.gen = "none"]
    /\ lost' = IF new /\ job.gen = "fails" THEN lost \union {f} ELSE lost
    /\ emu' = IF j.out = {} THEN "idle" ELSE "push"
    /\ UNCHANGED <<files, op, session, Seen, SeenPalette, Q, worker, wjob, missed>>

\* Qmtx is free: the worker holds it between its test and its wait.
QmtxFree == worker # "sleep"

\* The job is queued, or dropped if the queue is full.
Push ==
    /\ emu = "push" /\ QmtxFree
    /\ IF Len(Q) >= Cap
       THEN lost' = lost \union job.out /\ emu' = "idle" /\ UNCHANGED Q
       ELSE Q' = Append(Q, job) /\ emu' = "notify" /\ UNCHANGED lost
    /\ job' = NoJob
    /\ UNCHANGED <<files, op, session, seen, worker, wjob, missed>>

\* A notification of Qcv.
Notified == IF worker = "wait" THEN "lock" ELSE worker

\* Mutant of Notify: no notification.
NotifyNot == emu = "notify" /\ emu' = "idle" /\ UNCHANGED <<files, op, job, session, seen, Q, worker, wjob, lost, missed>>

Notify ==
    /\ emu = "notify"
    /\ emu' = "idle"
    /\ worker' = Notified
    /\ UNCHANGED <<files, op, job, session, seen, Q, wjob, lost, missed>>

-----------------------------------------------------------------------------
(* The emulation thread: Init and Shutdown.  Init begins with a Shutdown.  *)

Shutdown(o) ==
    /\ emu = "idle"
    /\ op' = o
    /\ GRunning' = FALSE
    /\ emu' = IF GRunning THEN "notifyAll" ELSE "clear"
    /\ UNCHANGED <<files, job, enableDump, seen, Q, worker, wjob, lost, missed>>

\* Mutant of NotifyAll: the notification is left to the last job.
NotifyAllIdle ==
    /\ emu = "notifyAll"
    /\ emu' = "join"
    /\ missed' = (worker = "sleep")
    /\ worker' = IF Q = <<>> THEN worker ELSE Notified
    /\ UNCHANGED <<files, op, job, session, seen, Q, wjob, lost>>

\* The worker is notified, without Qmtx.
NotifyAll ==
    /\ emu = "notifyAll"
    /\ emu' = "join"
    /\ missed' = (worker = "sleep")
    /\ worker' = Notified
    /\ UNCHANGED <<files, op, job, session, seen, Q, wjob, lost>>

Join ==
    /\ emu = "join" /\ worker = "exited"
    /\ worker' = "none"
    /\ emu' = "clear"
    /\ UNCHANGED <<files, op, job, session, seen, Q, wjob, lost, missed>>

\* The rest of Shutdown, and of Init, with no worker about.
Clear ==
    /\ emu = "clear"
    /\ emu' = "idle"
    /\ Q' = <<>> /\ Seen' = {} /\ SeenPalette' = {} /\ SeenPaletteIndex' = {}
    /\ lost' = {} /\ missed' = FALSE
    /\ enableDump' = IF op = "Shutdown" THEN enableDump ELSE (op = "InitDump")
    /\ GRunning' = (op = "InitDump")
    /\ worker' = IF op = "InitDump" THEN "loop" ELSE "none"
    /\ op' = "Shutdown"
    /\ UNCHANGED <<files, job, wjob>>

-----------------------------------------------------------------------------
(* The worker thread.                                                      *)

WorkerLoop ==
    /\ worker = "loop"
    /\ worker' = IF GRunning THEN "lock" ELSE "exited"
    /\ UNCHANGED <<files, emu, op, job, session, seen, Q, wjob, lost, missed>>

\* The worker has Qmtx and tests whether to wait, stop, or take a job.
TakeJob ==
    /\ worker = "lock"
    /\ IF Q # <<>>
       THEN Q' = Tail(Q) /\ wjob' = Head(Q) /\ worker' = "base"
       ELSE worker' = (IF GRunning THEN "sleep" ELSE "exited") /\ UNCHANGED <<Q, wjob>>
    /\ UNCHANGED <<files, emu, op, job, session, seen, lost, missed>>

\* The wait releases Qmtx and blocks.
Wait ==
    /\ worker = "sleep"
    /\ worker' = "wait"
    /\ UNCHANGED <<files, emu, op, job, session, seen, Q, wjob, lost, missed>>

\* A wait may also end by itself.
SpuriousWakeup ==
    /\ worker = "wait"
    /\ worker' = "lock"
    /\ UNCHANGED <<files, emu, op, job, session, seen, Q, wjob, lost, missed>>

\* File f of the job is written, unless it exists.  If the file cannot be
\* opened there is none; if writing to it fails it is there, and cut short.
Write(here, f, next) ==
    /\ worker = here
    /\ worker' = next
    /\ IF f \in wjob.out \ files
       THEN \/ files' = files \union {f} /\ UNCHANGED lost
            \/ /\ Cardinality(lost) < MaxLost
               /\ lost' = lost \union {f}
               /\ files' \in {files, files \union {f}}
       ELSE UNCHANGED <<files, lost>>
    /\ wjob' = IF next = "loop" THEN NoJob ELSE [wjob EXCEPT !.out = @ \ {f}]
    /\ UNCHANGED <<emu, op, job, session, seen, Q, missed>>

\* Mutant of WriteInfo: the description is skipped when the texture exists.
WriteInfoWithBase ==
    IF Base(wjob.tex) \notin files THEN Write("info", Info(wjob.tex, wjob.pal), "index")
    ELSE worker = "info" /\ worker' = "index" /\ UNCHANGED <<files, emu, op, job, session, seen, Q, wjob, lost, missed>>

WriteBase  == Write("base", Base(wjob.tex), "info")
WriteInfo == Write("info", Info(wjob.tex, wjob.pal), "index")
WriteIndex == Write("index", Index(wjob.tex, wjob.pal), "loop")

-----------------------------------------------------------------------------
Init ==
    /\ files = {}
    /\ emu = "idle" /\ op = "Shutdown" /\ job = NoJob
    /\ enableDump = FALSE /\ GRunning = FALSE
    /\ Seen = {} /\ SeenPalette = {} /\ SeenPaletteIndex = {} /\ Q = <<>>
    /\ worker = "none" /\ wjob = NoJob
    /\ lost = {} /\ missed = FALSE

Calls ==
    \/ \E t \in Textures : DumpIfEnabled(t, None, "none")
    \/ \E t \in Paletted, p \in Palettes, g \in Gens :
          DumpIfEnabled(t, p, g)
    \/ \E o \in {"InitDump", "Init", "Shutdown"} : Shutdown(o)

Continues ==
    DumpPalette \/ DumpPaletteIndex \/ Push \/ Notify \/ NotifyAll \/ Join \/ Clear

Worker == WorkerLoop \/ TakeJob \/ Wait \/ WriteBase \/ WriteInfo \/ WriteIndex

Next == Calls \/ Continues \/ Worker \/ SpuriousWakeup

\* Both threads run, and the emulation thread gets a mutex that is free again
\* and again; nothing makes the game show textures, or a wait end by itself.
Fairness == WF_vars(Continues) /\ SF_vars(Push) /\ WF_vars(Worker)

Spec == Init /\ [][Next]_vars /\ Fairness

-----------------------------------------------------------------------------
(* Properties.                                                             *)

\* The files of the jobs that are put together, queued or being written.
InFlight ==
    (UNION {Q[i].out : i \in DOMAIN Q})
       \union (IF worker \in {"base", "info", "index"} THEN wjob.out ELSE {})
       \union (IF emu \in {"palette", "index", "push"} THEN job.out ELSE {})

\* While the dumper runs, a file that is remembered as dumped (TexDump.cpp:197)
\* exists or is on its way; it is given up only where its job met a full queue,
\* its index map could not be generated or writing it failed.  A file cut short
\* in an earlier session exists.
SeenIsAccounted == GRunning => AllSeen \subseteq files \union InFlight \union lost

\* A remembered file gets written while the dumper runs: no job is left in the
\* queue by a worker that waits.
DumpsArrive ==
    \A f \in Files :
       (GRunning /\ f \in AllSeen) ~> (~GRunning \/ f \notin AllSeen \/ f \in files \union lost)

\* Shutdown gets the worker back, whatever it is doing, unless GRunning was
\* cleared and Qcv notified between the worker's test and its wait: the join
\* of TexDump.cpp:271 then waits for a worker that nobody wakes.
JoinReturns == (emu = "join" /\ ~missed) ~> (emu # "join")
=============================================================================
