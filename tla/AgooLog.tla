------------------------------- MODULE AgooLog -------------------------------
(***************************************************************************)
(* The log of src/agoo/log.c: a ring of entries that any thread fills and  *)
(* one thread writes out, the rotation of the log files, flushing, closing *)
(* and starting again after the process died.                              *)
(*                                                                         *)
(* The ring is like that of queue.c with three differences: entries are    *)
(* filled in place and stay in their slots, the flag e->ready that should  *)
(* tell a full slot from an empty one is only ever cleared, and one thread *)
(* pops.  Sleeping retry loops are guards.                                 *)
(*                                                                         *)
(* An entry is the number of the call that made it; entries of a category  *)
(* that is off are not made.  There is a log file, its name does not have  *)
(* the process in it, and creating, renaming and opening files does not    *)
(* fail.  The log is flushed and closed after it was started.              *)
(***************************************************************************)
EXTENDS Integers, FiniteSets, Sequences, SequencesExt

CONSTANTS
  Threads,     \* threads that log
  QSize,       \* qsize of agoo_log_init
  Polls,       \* times agoo_log_queue_pop(0.5) polls
  MaxFiles,    \* agoo_log.max_files
  MaxSize,     \* agoo_log.max_size, in entries
  MaxEntries,  \* bound: calls of agoo_log_cat
  MaxCrashes,  \* bound: times the process dies
  Closes       \* whether agoo_log_close is called

ASSUME RingAssumption  == QSize \in Nat /\ QSize >= 2 /\ Polls \in Nat \ {0}
ASSUME FilesAssumption == MaxFiles \in Nat \ {0} /\ MaxSize \in Nat \ {0}
ASSUME LogBounds == MaxEntries \in Nat /\ MaxCrashes \in Nat /\ Closes \in BOOLEAN

Index == 0 .. QSize - 1
Entry == 1 .. MaxEntries
Min2(a, b) == IF a < b THEN a ELSE b

VARIABLES
  slots, head, tail,      \* the ring
  push_lock, wait_state,
  piped,                  \* whether rsock and wsock are set
  byte,                   \* whether a byte is in the pipe
  thr,                    \* where each thread is in agoo_log_catv, and its entry
  started, done, freed,   \* agoo_log.thread, agoo_log.done, agoo_log.q is NULL
  loop,                   \* where the log thread is, cnt of pop, seq of rotate
  main,                   \* the thread that flushes and closes: where it is, head
  due,                    \* the entries in the ring or written when it was called
  primary, open, size,    \* agoo_log.file, whether it is open, agoo_log.size
  synced,                 \* entries of it that are out of the buffer of stdio
  archives,               \* the files .log.1, .log.2, ..., <<>> when missing
  put, written,           \* the entries put in the ring, and those written
  calls, crashes

ring   == <<slots, head, tail, push_lock, put>>
pipe   == <<wait_state, piped, byte>>
life   == <<started, done, freed>>
file   == <<primary, open, size, synced, written>>
disk   == <<file, archives>>
caller == <<main, due>>
bounds == <<calls, crashes>>
vars   == <<ring, pipe, thr, life, loop, caller, disk, bounds>>

Idle == [at |-> "idle", entry |-> 0]

\* What agoo_log_init sets, in a process that has just started
NoEntries == [s \in Index |-> 0]
AllIdle   == [t \in Threads |-> Idle]
Opening   == [at |-> "open", cnt |-> 0, seq |-> 0]
NoCall    == [at |-> "idle", head |-> 0]

Init ==
  /\ slots = NoEntries /\ head = 0 /\ tail = 1 /\ push_lock = FALSE
  /\ wait_state = "NOT_WAITING" /\ piped = FALSE /\ byte = FALSE
  /\ thr = AllIdle /\ loop = Opening /\ main = NoCall /\ due = {}
  /\ started = FALSE /\ done = FALSE /\ freed = FALSE
  /\ primary = <<>> /\ open = FALSE /\ size = 0 /\ synced = 0
  /\ archives = [n \in 1 .. MaxFiles + 1 |-> <<>>]
  /\ put = <<>> /\ written = <<>>
  /\ calls = 0 /\ crashes = 0

\* Mutant: the wrap comes one slot late.
SuccLate(i) == IF QSize < i + 1 THEN 0 ELSE i + 1

\* "e + 1", with the wrap at agoo_log.end.
Succ(i) == IF QSize <= i + 1 THEN 0 ELSE i + 1

\* agoo_log_queue_empty, for a head that was read before
EmptyAt(h) == tail = Succ(h)

-----------------------------------------------------------------------------
(* agoo_log_catv *)

At(t, step)   == thr[t].at = step
GoTo(t, step) == thr' = [thr EXCEPT ![t].at = step]

Call(t) ==
  /\ At(t, "idle") /\ ~done /\ calls < MaxEntries
  /\ calls' = calls + 1
  /\ thr' = [thr EXCEPT ![t] = [at |-> "lock", entry |-> calls + 1]]
  /\ UNCHANGED <<ring, pipe, life, loop, caller, disk, crashes>>

\* Mutant: the lock is taken though another thread has it.
LockNoTest(t) ==
  /\ At(t, "lock")
  /\ push_lock' = started
  /\ thr' = [thr EXCEPT ![t] = IF started THEN [@ EXCEPT !.at = "room"] ELSE Idle]
  /\ UNCHANGED <<slots, head, tail, put, pipe, life, loop, caller, disk, bounds>>

\* With the lock held the log thread is looked for; without one the entry is
\* printed, and the lock given back.
Lock(t) ==
  /\ At(t, "lock") /\ ~push_lock
  /\ push_lock' = started
  /\ thr' = [thr EXCEPT ![t] = IF started THEN [@ EXCEPT !.at = "room"] ELSE Idle]
  /\ UNCHANGED <<slots, head, tail, put, pipe, life, loop, caller, disk, bounds>>

\* "Wait for head to move on."
Room(t) ==
  /\ At(t, "room") /\ head # tail
  /\ GoTo(t, "store")
  /\ UNCHANGED <<ring, pipe, life, loop, caller, disk, bounds>>

\* set_entry fills the slot at tail.
Store(t) ==
  /\ At(t, "store") /\ ~freed
  /\ slots' = [slots EXCEPT ![tail] = thr[t].entry]
  /\ GoTo(t, "advance")
  /\ UNCHANGED <<head, tail, push_lock, put, pipe, life, loop, caller, disk, bounds>>

\* tail moves on, and push_lock is cleared.
Advance(t) ==
  /\ At(t, "advance") /\ ~freed
  /\ tail' = Succ(tail)
  /\ put' = Append(put, thr[t].entry)
  /\ push_lock' = FALSE
  /\ thr' = [thr EXCEPT ![t] = [Idle EXCEPT !.at = "check"]]
  /\ UNCHANGED <<slots, head, pipe, life, loop, caller, disk, bounds>>

\* The ring was freed meanwhile: what is stored goes nowhere (or the process
\* dies, see Crash).
StoreNowhere(t) ==
  /\ thr[t].at \in {"store", "advance"} /\ freed
  /\ push_lock' = FALSE
  /\ thr' = [thr EXCEPT ![t] = Idle]
  /\ UNCHANGED <<slots, head, tail, put, pipe, life, loop, caller, disk, bounds>>

Check(t) ==
  /\ At(t, "check")
  /\ thr' = [thr EXCEPT ![t] = IF piped /\ wait_state = "WAITING"
                              THEN [@ EXCEPT !.at = "signal"] ELSE Idle]
  /\ UNCHANGED <<ring, pipe, life, loop, caller, disk, bounds>>

Signal(t) ==
  /\ At(t, "signal")
  /\ byte' = TRUE
  /\ GoTo(t, "notified")
  /\ UNCHANGED <<ring, wait_state, piped, life, loop, caller, disk, bounds>>

Notified(t) ==
  /\ At(t, "notified")
  /\ wait_state' = "NOTIFIED"
  /\ thr' = [thr EXCEPT ![t] = Idle]
  /\ UNCHANGED <<ring, piped, byte, life, loop, caller, disk, bounds>>

-----------------------------------------------------------------------------
(* The log thread: loop and agoo_log_queue_pop *)

In(from)  == loop.at = from
To(step)  == loop' = [loop EXCEPT !.at = step]

\* Mutant: the thread ends when the log is closed.
TestNotDrained ==
  /\ In("test")
  /\ IF done THEN To("ended")
     ELSE loop' = [loop EXCEPT !.at = "pop", !.cnt = Polls]
  /\ UNCHANGED <<ring, pipe, thr, life, caller, disk, bounds>>

Test ==
  /\ In("test")
  /\ IF done /\ EmptyAt(head) THEN To("ended")
     ELSE loop' = [loop EXCEPT !.at = "pop", !.cnt = Polls]
  /\ UNCHANGED <<ring, pipe, thr, life, caller, disk, bounds>>

\* Nothing to pop: wait, or give up when cnt is 0.
Pop ==
  /\ In("pop")
  /\ IF EmptyAt(head) THEN To(IF loop.cnt = 0 THEN "test" ELSE "listen")
     ELSE loop' = [loop EXCEPT !.at = "take", !.cnt = 0]
  /\ UNCHANGED <<ring, pipe, thr, life, caller, disk, bounds>>

\* agoo_log_listen: the pipe is made, then the waiting announced.
Listen ==
  /\ In("listen")
  /\ piped' = TRUE
  /\ IF piped THEN wait_state' = "WAITING" /\ To("poll") ELSE UNCHANGED <<wait_state, loop>>
  /\ UNCHANGED <<ring, byte, thr, life, caller, disk, bounds>>

\* Mutant: poll has no time-out.
PollForever ==
  /\ In("poll") /\ byte
  /\ byte' = FALSE
  /\ loop' = [loop EXCEPT !.at = "release", !.cnt = @ - 1]
  /\ UNCHANGED <<ring, wait_state, piped, thr, life, caller, disk, bounds>>

\* poll times out, or finds a byte and clears the pipe.
Poll ==
  /\ In("poll")
  /\ byte' = FALSE
  /\ loop' = [loop EXCEPT !.at = IF byte THEN "release" ELSE "pop", !.cnt = @ - 1]
  /\ UNCHANGED <<ring, wait_state, piped, thr, life, caller, disk, bounds>>

Release ==
  /\ In("release")
  /\ wait_state' = "NOT_WAITING"
  /\ To("pop")
  /\ UNCHANGED <<ring, piped, byte, thr, life, caller, disk, bounds>>

\* head moves on, to the slot of the entry.
Take ==
  /\ In("take")
  /\ head' = Succ(head)
  /\ To("write")
  /\ UNCHANGED <<slots, tail, push_lock, put, pipe, thr, life, caller, disk, bounds>>

\* The entry at head is written to the file.
Write ==
  /\ In("write")
  /\ primary' = Append(primary, slots[head])
  /\ written' = Append(written, slots[head])
  /\ size' = size + 1
  /\ To(IF MaxSize <= size' THEN "fclose" ELSE "test")
  /\ UNCHANGED <<ring, pipe, thr, life, caller, open, synced, archives, bounds>>

-----------------------------------------------------------------------------
(* agoo_log_rotate, file by file; the process may die in between *)

Close ==
  /\ In("fclose")
  /\ open' = FALSE
  /\ synced' = Len(primary)
  /\ loop' = [loop EXCEPT !.at = "rename", !.seq = MaxFiles]
  /\ UNCHANGED <<ring, pipe, thr, life, caller, primary, size, written, archives, bounds>>

\* rename of archive n: a missing file renames nothing, an existing one replaces.
Renamed(n) ==
  IF archives[n] = <<>> THEN archives
  ELSE [archives EXCEPT ![n + 1] = archives[n], ![n] = <<>>]

\* Mutant: the youngest archive is renamed first.
RenameUpward ==
  /\ In("rename")
  /\ IF loop.seq > 0
     THEN /\ archives' = Renamed(MaxFiles + 1 - loop.seq)
          /\ loop' = [loop EXCEPT !.seq = @ - 1]
          /\ UNCHANGED <<primary, synced>>
     ELSE /\ archives' = [archives EXCEPT ![1] = primary]
          /\ primary' = <<>> /\ synced' = 0
          /\ To("fopen")
  /\ UNCHANGED <<ring, pipe, thr, life, caller, open, size, written, bounds>>

Rename ==
  /\ In("rename")
  /\ IF loop.seq > 0
     THEN /\ archives' = Renamed(loop.seq)
          /\ loop' = [loop EXCEPT !.seq = @ - 1]
          /\ UNCHANGED <<primary, synced>>
     ELSE /\ archives' = [archives EXCEPT ![1] = primary]
          /\ primary' = <<>> /\ synced' = 0
          /\ To("fopen")
  /\ UNCHANGED <<ring, pipe, thr, life, caller, open, size, written, bounds>>

Reopen ==
  /\ In("fopen")
  /\ open' = TRUE /\ size' = 0
  /\ To("remove")
  /\ UNCHANGED <<ring, pipe, thr, life, caller, primary, synced, written, archives, bounds>>

\* Mutant: the archive with the number max_files goes too.
RemoveOldMore ==
  /\ In("remove")
  /\ archives' = [n \in DOMAIN archives |-> IF MaxFiles <= n THEN <<>> ELSE archives[n]]
  /\ To(IF started THEN "test" ELSE "create")
  /\ UNCHANGED <<ring, pipe, thr, life, caller, file, bounds>>

\* remove_old_logs
RemoveOld ==
  /\ In("remove")
  /\ archives' = [n \in DOMAIN archives |-> IF MaxFiles < n THEN <<>> ELSE archives[n]]
  /\ To(IF started THEN "test" ELSE "create")
  /\ UNCHANGED <<ring, pipe, thr, life, caller, file, bounds>>

-----------------------------------------------------------------------------
(* agoo_log_start, agoo_log_flush, agoo_log_close, and the end of a process *)

\* Mutant: the file is opened for writing, not appending.
OpenTruncate ==
  /\ In("open")
  /\ open' = TRUE /\ primary' = <<>> /\ synced' = 0
  /\ size' = 0
  /\ To("create")
  /\ UNCHANGED <<ring, pipe, thr, life, caller, written, archives, bounds>>

\* agoo_log_open_file appends to a file that is there; ftell says 0 on some
\* platforms and the length of the file on others.
Open ==
  /\ In("open")
  /\ open' = TRUE /\ synced' = Len(primary)
  /\ size' \in {0, Len(primary)}
  /\ To(IF MaxSize <= size' THEN "fclose" ELSE "create")
  /\ UNCHANGED <<ring, pipe, thr, life, caller, primary, written, archives, bounds>>

\* pthread_create
Create ==
  /\ In("create")
  /\ started' = TRUE
  /\ To("test")
  /\ UNCHANGED <<ring, pipe, thr, done, freed, caller, disk, bounds>>

MainAt(step) == main.at = step
MainTo(step) == main' = [main EXCEPT !.at = step]

\* The time of the call is over: it returns false.
FlushLate == main' = NoCall /\ due' = {}

Flush ==
  /\ MainAt("idle") /\ started
  /\ due' = Range(put)
  /\ MainTo("head")
  /\ UNCHANGED <<ring, pipe, thr, life, loop, disk, bounds>>

FlushHead ==
  /\ MainAt("head")
  /\ main' = [at |-> IF done THEN "file" ELSE "tail", head |-> IF done THEN 0 ELSE head]
  /\ UNCHANGED <<ring, pipe, thr, life, loop, due, disk, bounds>>

\* Mutant: a full ring passes for an empty one.
FlushTailFull ==
  /\ MainAt("tail")
  /\ IF EmptyAt(main.head) \/ tail = main.head
     THEN main' = [NoCall EXCEPT !.at = "file"] /\ UNCHANGED due
     ELSE (main' = [NoCall EXCEPT !.at = "head"] /\ UNCHANGED due) \/ FlushLate
  /\ UNCHANGED <<ring, pipe, thr, life, loop, disk, bounds>>

\* The queue is empty; or the loop goes on, or its time is over.
FlushTail ==
  /\ MainAt("tail")
  /\ IF EmptyAt(main.head)
     THEN main' = [NoCall EXCEPT !.at = "file"] /\ UNCHANGED due
     ELSE (main' = [NoCall EXCEPT !.at = "head"] /\ UNCHANGED due) \/ FlushLate
  /\ UNCHANGED <<ring, pipe, thr, life, loop, disk, bounds>>

FlushFile ==
  /\ MainAt("file")
  /\ MainTo(IF open THEN "fflush" ELSE "true")
  /\ UNCHANGED <<ring, pipe, thr, life, loop, due, disk, bounds>>

\* A file that was closed meanwhile is not flushed (or the process dies).
FlushSync ==
  /\ MainAt("fflush")
  /\ synced' = IF open THEN Len(primary) ELSE synced
  /\ MainTo("true")
  /\ UNCHANGED <<ring, pipe, thr, life, loop, due, primary, open, size, written, archives, bounds>>

FlushReturn ==
  /\ MainAt("true")
  /\ main' = NoCall /\ due' = {}
  /\ UNCHANGED <<ring, pipe, thr, life, loop, disk, bounds>>

CloseLog ==
  /\ Closes /\ MainAt("idle") /\ started
  /\ done' = TRUE
  /\ due' = Range(put)
  /\ MainTo("join")
  /\ UNCHANGED <<ring, pipe, thr, started, freed, loop, disk, bounds>>

\* pthread_join
CloseJoin ==
  /\ MainAt("join") /\ In("ended")
  /\ started' = FALSE
  /\ MainTo("free")
  /\ UNCHANGED <<ring, pipe, thr, done, freed, loop, due, disk, bounds>>

CloseFree ==
  /\ MainAt("free")
  /\ open' = FALSE /\ synced' = Len(primary)
  /\ freed' = TRUE /\ piped' = FALSE
  /\ MainTo("closed")
  /\ UNCHANGED <<ring, wait_state, byte, thr, started, done, loop, due,
                 primary, size, written, archives, bounds>>

\* What the files hold, from the oldest entry on
Kept(prim) == FlattenSeq(Reverse(archives)) \o prim

\* The process dies and starts again: the files remain, of the open one at
\* least what is out of the buffer.
Crash ==
  /\ crashes < MaxCrashes
  /\ crashes' = crashes + 1
  /\ primary' \in {SubSeq(primary, 1, n) : n \in synced .. Len(primary)}
  /\ synced' = Len(primary')
  /\ put' = Kept(primary') /\ written' = put'
  /\ slots' = NoEntries /\ head' = 0 /\ tail' = 1 /\ push_lock' = FALSE
  /\ wait_state' = "NOT_WAITING" /\ piped' = FALSE /\ byte' = FALSE
  /\ thr' = AllIdle /\ loop' = Opening /\ main' = NoCall /\ due' = {}
  /\ started' = FALSE /\ done' = FALSE /\ freed' = FALSE
  /\ open' = FALSE /\ size' = 0
  /\ UNCHANGED <<archives, calls>>

-----------------------------------------------------------------------------
Log(t) == \/ Lock(t) \/ Room(t) \/ Store(t) \/ Advance(t) \/ StoreNowhere(t)
          \/ Check(t) \/ Signal(t) \/ Notified(t)

Rotate == Close \/ Rename \/ Reopen \/ RemoveOld

Loop == Test \/ Pop \/ Listen \/ Poll \/ Release \/ Take \/ Write \/ Rotate

Main == \/ Flush \/ FlushHead \/ FlushTail \/ FlushFile \/ FlushSync \/ FlushReturn
        \/ CloseLog \/ CloseJoin \/ CloseFree

Next == (\E t \in Threads : Call(t) \/ Log(t)) \/ Open \/ Create \/ Loop \/ Main \/ Crash

\* The log thread runs, and so do the threads that log, once in a call.
Fairness == /\ WF_vars(Open \/ Create \/ Loop)
            /\ \A t \in Threads : WF_vars(Log(t))

Spec     == Init /\ [][Next]_vars
FairSpec == Spec /\ Fairness

-----------------------------------------------------------------------------
(* Properties *)

\* Where a thread that logs, the log thread and the one that closes can be
ThreadType ==
  [at : {"idle", "lock", "room", "store", "advance", "check", "signal", "notified"},
   entry : Entry \cup {0}]
LoopType ==
  [at : {"open", "create", "test", "pop", "listen", "poll", "release", "take",
         "write", "fclose", "rename", "fopen", "remove", "ended"},
   cnt : 0 .. Polls, seq : 0 .. MaxFiles]
MainType ==
  [at : {"idle", "head", "tail", "file", "fflush", "true", "join", "free", "closed"},
   head : Index]

\* Every variable has its type (log.h).
TypeOK ==
  /\ slots \in [Index -> Entry \cup {0}] /\ head \in Index /\ tail \in Index
  /\ wait_state \in {"NOT_WAITING", "WAITING", "NOTIFIED"}
  /\ {push_lock, piped, byte, started, done, freed, open} \subseteq BOOLEAN
  /\ thr \in [Threads -> ThreadType] /\ loop \in LoopType /\ main \in MainType
  /\ due \subseteq Entry
  /\ {primary, put, written} \subseteq Seq(Entry)
  /\ archives \in [1 .. MaxFiles + 1 -> Seq(Entry)]
  /\ size \in Nat /\ synced \in 0 .. Len(primary)
  /\ calls \in 0 .. MaxEntries /\ crashes \in 0 .. MaxCrashes

\* Entries are written in the order in which they were put in the ring, each
\* once and none left out: though slots are filled in place, e->ready tells
\* nothing, and the slot of the entry being written is kept by the gap between
\* head and tail alone (log.c:117-147, 526-537).
WrittenInOrder == IsPrefix(written, put)

\* The archives from the oldest to the first, and the log file, hold the entries
\* written last, in order and without a gap, in the middle of a rotation as
\* well, and when the process dies in one (log.c:273-309).
KeptInOrder == IsSuffix(Kept(primary), written)

\* max_files is the "max number of archived version" (log.c:233): an entry goes
\* only when max_files younger files are full, one less for each time the process
\* died, since a rotation that it did not finish leaves a number without a file,
\* which moves up with the others; and while the process lives, no more archives
\* are left after a rotation.
Retention ==
  /\ Len(Kept(primary)) >= Min2(Len(written), (MaxFiles - crashes) * MaxSize)
  /\ crashes = 0 /\ loop.at \notin {"rename", "fopen", "remove"} => archives[MaxFiles + 1] = <<>>

\* When agoo_log_flush has returned true and nothing was logged meanwhile, what was
\* logged before is out of the buffers, but for one entry at most: the one the
\* log thread has taken and not written, which agoo_log_queue_empty does not see
\* as e->ready is never set (log.c:84, 346).  With entries logged meanwhile more
\* may be missing: head and tail are read one after the other, and a full ring
\* in which both moved by one in between looks empty.
FlushMissesOne ==
  (main.at = "true" /\ ~done /\ Range(put) = due) =>
    LET buffered == Range(SubSeq(primary, synced + 1, Len(primary)))
    IN Cardinality(due \ (Range(written) \ buffered)) <= 1

\* agoo_log_close waits for every entry that was in the ring when it was called,
\* and closes the file after them (log.c:315, 382-393).
CloseDrains ==
  main.at = "closed" => due \subseteq Range(written) /\ synced = Len(primary)

\* The entries logged and not yet written, and how many of those in the files are
\* in an archive or out of the buffer of the log file
Unwritten == SubSeq(put, Len(written) + 1, Len(put))
Safe      == Len(FlattenSeq(Reverse(archives))) + synced

KeptFiles == INSTANCE KeptLog WITH
  Entries <- Entry, Files <- MaxFiles, Size <- MaxSize,
  pending <- Unwritten, kept <- Kept(primary), safe <- Safe, deaths <- crashes

\* The threads, the ring, the buffers and the rotation together do what KeptLog
\* promises: in every step of any of them the files lose nothing but their oldest
\* entries, and of these none that was to be kept; what fflush, fclose or a
\* rename put in safety is there after the process died, with all before it.
ImplementsKeptLog == KeptFiles!Spec

\* An entry in the ring is written, however its notification fared, unless the
\* process dies with it, or the log is closed (for which see CloseDrains).
Logged ==
  \A e \in Entry : e \in Range(put) ~> e \in Range(written) \/ e \notin Range(put) \/ done
=============================================================================
