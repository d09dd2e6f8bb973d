---------------------------- MODULE AgooLogProofs ----------------------------
(***************************************************************************)
(* What holds of the log for any number of threads, any ring and any       *)
(* number of entries, files and ends of the process: the entries are       *)
(* written in the order in which they were put in the ring, and closing    *)
(* writes all of them; the files hold the last of them without a gap, and  *)
(* the oldest go only when enough younger ones are kept; flushing leaves   *)
(* one entry behind at most; and all of it together is the log of KeptLog. *)
(*                                                                         *)
(* IInv, the ring and the threads, is inductive; KeptInv, the files, is    *)
(* together with IInv; RetainInv, their sizes, and FreshInv, FileInv and   *)
(* FlushInv, flushing, are together with these two.                        *)
(***************************************************************************)
EXTENDS AgooLogFiles

-----------------------------------------------------------------------------
(* The inductive invariant *)

InRing(t) == thr[t].at \in {"room", "store", "advance"}

\* One thread at a time has push_lock.
LockInv ==
  \A t \in Threads : InRing(t) =>
     push_lock /\ \A u \in Threads : InRing(u) => u = t

\* The number of entries between head and tail, and the slot of the k-th
Held    == IF head < tail THEN tail - head - 1 ELSE tail - head - 1 + QSize
Slot(k) == IF head + k < QSize THEN head + k ELSE head + k - QSize

\* The entries that left the ring: those written, and the one being written
Gone == Len(written) + (IF loop.at = "write" THEN 1 ELSE 0)

\* What was put is what was written, what is being written, and what the slots
\* after head hold.
RingInv ==
  /\ Len(put) = Gone + Held
  /\ \A i \in 1 .. Len(written) : written[i] = put[i]
  /\ loop.at = "write" => slots[head] = put[Gone]
  /\ \A k \in 1 .. Held : slots[Slot(k)] = put[Gone + k]

\* What the two sides saw of the ring stays true until they act on it.
CursorInv ==
  /\ loop.at = "take" => ~EmptyAt(head)
  /\ \A t \in Threads :
       /\ thr[t].at \in {"store", "advance"} => head # tail
       /\ thr[t].at = "advance" => slots[tail] = thr[t].entry
       /\ InRing(t) \/ thr[t].at = "lock" => thr[t].entry \in Entry

\* Where the log thread can be, and with what counters.
LoopInv ==
  /\ loop.at \in {"listen", "poll"} => loop.cnt > 0
  /\ loop.at \notin {"fclose", "rename", "fopen"} => size < MaxSize

Closing == main.at \in {"join", "free", "closed"}

\* The log thread ends when nothing that was due is left.
CloseInv ==
  /\ done => Closing
  /\ Closing => done /\ due \subseteq Range(put)
  /\ loop.at = "ended" => Closing /\ due \subseteq Range(written)
  /\ main.at \in {"free", "closed"} => loop.at = "ended"
  /\ main.at = "closed" => synced = Len(primary)

IInv == TypeOK /\ LockInv /\ RingInv /\ CursorInv /\ LoopInv /\ CloseInv

-----------------------------------------------------------------------------
(* The ring *)

LEMMA RingFacts == QSize \in Nat /\ QSize >= 2 /\ 0 \in Index /\ 1 \in Index
BY RingAssumption DEF Index

LEMMA PollsFacts == Polls \in Nat /\ Polls > 0 /\ {0, Polls} \subseteq 0 .. Polls
BY RingAssumption

LEMMA SuccInRing == ASSUME NEW i \in Index PROVE Succ(i) \in Index
BY RingFacts DEF Index, Succ

LEMMA HeldFacts ==
  ASSUME TypeOK
  PROVE  /\ Held \in Nat /\ Held < QSize
         /\ EmptyAt(head) <=> Held = 0
         /\ \A k \in 0 .. QSize - 1 : Slot(k) \in Index
BY RingFacts DEF TypeOK, Held, Slot, EmptyAt, Succ, Index

\* The slot at tail is the one after those that are held.
LEMMA TailIsFree ==
  ASSUME TypeOK, head # tail
  PROVE  Slot(Held + 1) = tail /\ \A k \in 0 .. Held : Slot(k) # tail
BY RingFacts DEF TypeOK, Held, Slot, Index

LEMMA TailMoves ==
  ASSUME TypeOK, head # tail, head' = head, tail' = Succ(tail)
  PROVE  Held' = Held + 1 /\ \A k \in Nat : Slot(k)' = Slot(k)
BY RingFacts, SMTT(30) DEF TypeOK, Held, Slot, Succ, Index

LEMMA HeadMoves ==
  ASSUME TypeOK, ~EmptyAt(head), tail' = tail, head' = Succ(head)
  PROVE  /\ Held > 0 /\ Held' = Held - 1
         /\ Slot(1) = head' /\ \A k \in 0 .. QSize - 2 : Slot(k)' = Slot(k + 1)
BY RingFacts DEF TypeOK, EmptyAt, Held, Slot, Succ, Index

\* How many entries there are
LEMMA Counts ==
  ASSUME TypeOK, RingInv
  PROVE  /\ put \in Seq(Entry) /\ written \in Seq(Entry) /\ Len(put) = Gone + Held
         /\ Held \in Nat /\ Gone \in Nat /\ Len(written) \in Nat /\ Len(written) <= Gone
         /\ loop.at = "write" => Gone = Len(written) + 1
         /\ loop.at # "write" => Gone = Len(written)
<1>1. put \in Seq(Entry) /\ written \in Seq(Entry)
  BY DEF TypeOK
<1>2. Held \in Nat
  BY HeldFacts
<1> QED  BY <1>1, <1>2 DEF RingInv, Gone

LEMMA PrimaryIsSeq ==
  ASSUME TypeOK PROVE primary \in Seq(Entry) /\ Len(primary) \in 0 .. Len(primary)
BY DEF TypeOK

LEMMA RangePut == ASSUME TypeOK PROVE Range(put) \subseteq Entry
BY DEF TypeOK, Range

\* A part of the invariant stays true when what it speaks of does not change.
LEMMA LockFrame ==
  ASSUME LockInv, UNCHANGED push_lock, \A t \in Threads : thr'[t] = thr[t]
  PROVE  LockInv'
BY DEF LockInv, InRing

LEMMA RingFrame ==
  ASSUME RingInv, UNCHANGED <<slots, head, tail, put, written>>,
         loop'.at = "write" <=> loop.at = "write"
  PROVE  RingInv'
BY DEF RingInv, Gone, Held, Slot

LEMMA CursorFrame ==
  ASSUME CursorInv, UNCHANGED <<slots, head, tail, thr>>, loop'.at = "take" => loop.at = "take"
  PROVE  CursorInv'
BY DEF CursorInv, InRing, EmptyAt, Succ

LEMMA LoopFrame ==
  ASSUME LoopInv, UNCHANGED <<loop, primary, size>>
  PROVE  LoopInv'
BY DEF LoopInv

LEMMA CloseFrame ==
  ASSUME CloseInv, UNCHANGED <<main, due, done, put, written, synced, primary>>,
         loop'.at = "ended" <=> loop.at = "ended"
  PROVE  CloseInv'
BY DEF CloseInv, Closing, Range

LEMMA InitInv == Init => IInv
<1> SUFFICES ASSUME Init PROVE IInv
  OBVIOUS
<1>1. TypeOK
  <2>1. /\ slots \in [Index -> Entry \cup {0}] /\ head \in Index /\ tail \in Index
        /\ main.head \in Index
    BY RingFacts DEF Init, NoEntries, NoCall
  <2>2. /\ {primary, put, written} \subseteq Seq(Entry)
        /\ archives \in [1 .. MaxFiles + 1 -> Seq(Entry)]
    BY DEF Init
  <2>3. /\ loop.cnt \in 0 .. Polls /\ loop.seq \in 0 .. MaxFiles
        /\ size \in Nat /\ synced \in 0 .. Len(primary)
        /\ calls \in 0 .. MaxEntries /\ crashes \in 0 .. MaxCrashes
    BY RingAssumption, FilesAssumption, LogBounds DEF Init, Opening
  <2> QED  BY <2>1, <2>2, <2>3 DEF Init, TypeOK, ThreadType, LoopType, MainType,
         AllIdle, Idle, Opening, NoCall
<1>2. LockInv /\ CursorInv
  BY DEF Init, LockInv, CursorInv, InRing, AllIdle, Idle, Opening
<1>3. RingInv
  BY RingFacts DEF Init, RingInv, Gone, Held, Opening
<1>4. LoopInv /\ CloseInv
  BY FilesAssumption DEF Init, LoopInv, CloseInv, Closing, Opening, NoCall
<1> QED  BY <1>1, <1>2, <1>3, <1>4 DEF IInv, Init

-----------------------------------------------------------------------------
(* What the steps do to the variables is expanded in all that follows. *)

USE DEF At, GoTo, Idle, ring, pipe, life, caller, disk, file, bounds, MainAt, MainTo,
        In, To, NoCall, FlushLate

(* agoo_log_catv *)

LEMMA CallStep == ASSUME IInv, NEW t \in Threads, Call(t) PROVE IInv'
<1> USE DEF IInv
<1>1. TypeOK'
  BY LogBounds DEF TypeOK, ThreadType, Entry, Call
<1>2. LockInv'
  BY DEF TypeOK, ThreadType, LockInv, InRing, Call
<1>3. RingInv'
  BY RingFrame DEF Call
<1>4. CursorInv'
  BY RingFacts, LogBounds DEF TypeOK, ThreadType, LockInv, CursorInv, InRing,
         EmptyAt, Succ, Index, Entry, Call
<1>5. LoopInv'
  BY LoopFrame DEF Call
<1>6. CloseInv'
  BY CloseFrame DEF Call
<1> QED  BY <1>1, <1>2, <1>3, <1>4, <1>5, <1>6

LEMMA LockStep == ASSUME IInv, NEW t \in Threads, Lock(t) PROVE IInv'
<1> USE DEF IInv
<1>1. TypeOK'
  BY DEF TypeOK, ThreadType, Entry, Lock
<1>2. LockInv'
  BY DEF TypeOK, ThreadType, LockInv, InRing, Lock
<1>3. RingInv'
  BY RingFrame DEF Lock
<1>4. CursorInv'
  BY RingFacts DEF TypeOK, ThreadType, LockInv, CursorInv, InRing,
         EmptyAt, Succ, Index, Entry, Lock
<1>5. LoopInv'
  BY LoopFrame DEF Lock
<1>6. CloseInv'
  BY CloseFrame DEF Lock
<1> QED  BY <1>1, <1>2, <1>3, <1>4, <1>5, <1>6

LEMMA RoomStep == ASSUME IInv, NEW t \in Threads, Room(t) PROVE IInv'
<1> USE DEF IInv
<1>1. TypeOK'
  BY DEF TypeOK, ThreadType, Entry, Room
<1>2. LockInv'
  BY DEF TypeOK, ThreadType, LockInv, InRing, Room
<1>3. RingInv'
  BY RingFrame DEF Room
<1>4. CursorInv'
  BY RingFacts DEF TypeOK, ThreadType, LockInv, CursorInv, InRing,
         EmptyAt, Succ, Index, Entry, Room
<1>5. LoopInv'
  BY LoopFrame DEF Room
<1>6. CloseInv'
  BY CloseFrame DEF Room
<1> QED  BY <1>1, <1>2, <1>3, <1>4, <1>5, <1>6

LEMMA StoreStep == ASSUME IInv, NEW t \in Threads, Store(t) PROVE IInv'
<1> USE DEF IInv
<1>1. TypeOK'
  BY DEF TypeOK, ThreadType, Entry, Store
<1>2. LockInv'
  BY DEF TypeOK, ThreadType, LockInv, InRing, Store
<1>3. RingInv'
  <2>1. /\ head # tail /\ UNCHANGED <<head, tail, put, written, loop>>
        /\ \A i \in Index : i # tail => slots'[i] = slots[i]
    BY DEF TypeOK, ThreadType, CursorInv, Store
  <2>2. \A k \in 0 .. Held : Slot(k) \in Index /\ Slot(k) # tail
    BY <2>1, RingFacts, HeldFacts, TailIsFree
  <2>3. Held' = Held /\ Gone' = Gone /\ \A k : Slot(k)' = Slot(k)
    BY <2>1 DEF Held, Gone, Slot
  <2>4. \A k \in 1 .. Held : Slot(k) \in Index /\ Slot(k) # tail
    BY <2>2, HeldFacts
  <2>5. loop.at = "write" => head \in Index /\ head # tail
    BY <2>1 DEF TypeOK
  <2> QED  BY <2>1, <2>3, <2>4, <2>5 DEF RingInv
<1>4. CursorInv'
  BY RingFacts DEF TypeOK, ThreadType, LockInv, CursorInv, InRing,
         EmptyAt, Succ, Index, Entry, Store
<1>5. LoopInv'
  BY LoopFrame DEF Store
<1>6. CloseInv'
  BY CloseFrame DEF Store
<1> QED  BY <1>1, <1>2, <1>3, <1>4, <1>5, <1>6

LEMMA AdvanceStep == ASSUME IInv, NEW t \in Threads, Advance(t) PROVE IInv'
<1> USE DEF IInv
<1>1. thr[t].entry \in Entry /\ put' = Append(put, thr[t].entry) /\ put \in Seq(Entry)
  BY DEF TypeOK, ThreadType, CursorInv, InRing, Advance
<1>2. /\ head # tail /\ slots[tail] = thr[t].entry /\ tail' = Succ(tail)
      /\ UNCHANGED <<slots, head, written, loop, primary, synced, main, due, done, size>>
  BY DEF CursorInv, Advance
<1>3. TypeOK'
  <2>1. tail' \in Index /\ put' \in Seq(Entry)
    BY <1>1, <1>2, SuccInRing DEF TypeOK
  <2> QED  BY <2>1 DEF TypeOK, ThreadType, Advance
<1>4. LockInv'
  BY DEF TypeOK, ThreadType, LockInv, InRing, Advance
<1>5. RingInv'
  <2>1. Held' = Held + 1 /\ Gone' = Gone /\ \A k \in Nat : Slot(k)' = Slot(k)
    BY <1>2, TailMoves DEF Gone
  <2>2. slots[Slot(Held + 1)] = thr[t].entry
    BY <1>2, TailIsFree
  <2>3. Len(put') = Len(put) + 1 /\ Gone \in Nat /\ Held \in Nat /\ Gone + Held = Len(put)
    BY <1>1, Counts
  <2>4. /\ Len(put') = Gone' + Held'
        /\ \A i \in 1 .. Len(put) : put'[i] = put[i]
        /\ put'[Len(put) + 1] = thr[t].entry
    BY <1>1, <2>1, <2>3
  <2>5. \A k \in 1 .. Held' : slots'[Slot(k)'] = put'[Gone' + k]
    <3> TAKE k \in 1 .. Held'
    <3>1. CASE k = Held + 1
      BY <3>1, <1>2, <2>1, <2>2, <2>3, <2>4
    <3>2. CASE k # Held + 1
      <4>1. k \in 1 .. Held /\ Gone + k \in 1 .. Len(put)
        BY <3>2, <2>1, <2>3
      <4> QED  BY <4>1, <1>2, <2>1, <2>4 DEF RingInv
    <3> QED  BY <3>1, <3>2
  <2>6. \A i \in 1 .. Len(written') : written'[i] = put'[i]
    BY <1>2, <2>3, <2>4, Counts DEF RingInv
  <2>7. loop'.at = "write" => slots'[head'] = put'[Gone']
    BY <1>2, <2>1, <2>3, <2>4, Counts DEF RingInv
  <2> QED  BY <2>4, <2>5, <2>6, <2>7 DEF RingInv
<1>6. CursorInv'
  <2>1. \A u \in Threads : u # t => thr'[u] = thr[u] /\ ~InRing(u)
    BY DEF TypeOK, ThreadType, LockInv, InRing, Advance
  <2>2. thr'[t].at = "check"
    BY DEF TypeOK, ThreadType, Advance
  <2>3. ~EmptyAt(head)'
    BY <1>2, RingFacts DEF EmptyAt, Succ, TypeOK, Index
  <2> QED  BY <1>2, <2>1, <2>2, <2>3 DEF CursorInv, InRing, EmptyAt
<1>7. LoopInv'
  BY <1>2, LoopFrame
<1>8. CloseInv'
  <2>1. Range(put) \subseteq Range(put')
    BY <1>1 DEF Range
  <2> QED  BY <1>2, <2>1 DEF CloseInv, Closing, Range
<1> QED  BY <1>3, <1>4, <1>5, <1>6, <1>7, <1>8

LEMMA StoreNowhereStep == ASSUME IInv, NEW t \in Threads, StoreNowhere(t) PROVE IInv'
<1> USE DEF IInv
<1>1. TypeOK'
  BY DEF TypeOK, ThreadType, Entry, StoreNowhere
<1>2. LockInv'
  BY DEF TypeOK, ThreadType, LockInv, InRing, StoreNowhere
<1>3. RingInv'
  BY RingFrame DEF StoreNowhere
<1>4. CursorInv'
  BY RingFacts DEF TypeOK, ThreadType, LockInv, CursorInv, InRing,
         EmptyAt, Succ, Index, Entry, StoreNowhere
<1>5. LoopInv'
  BY LoopFrame DEF StoreNowhere
<1>6. CloseInv'
  BY CloseFrame DEF StoreNowhere
<1> QED  BY <1>1, <1>2, <1>3, <1>4, <1>5, <1>6

LEMMA CheckStep == ASSUME IInv, NEW t \in Threads, Check(t) PROVE IInv'
<1> USE DEF IInv
<1>1. TypeOK'
  BY DEF TypeOK, ThreadType, Entry, Check
<1>2. LockInv'
  BY DEF TypeOK, ThreadType, LockInv, InRing, Check
<1>3. RingInv'
  BY RingFrame DEF Check
<1>4. CursorInv'
  BY RingFacts DEF TypeOK, ThreadType, LockInv, CursorInv, InRing,
         EmptyAt, Succ, Index, Entry, Check
<1>5. LoopInv'
  BY LoopFrame DEF Check
<1>6. CloseInv'
  BY CloseFrame DEF Check
<1> QED  BY <1>1, <1>2, <1>3, <1>4, <1>5, <1>6

LEMMA SignalStep == ASSUME IInv, NEW t \in Threads, Signal(t) PROVE IInv'
<1> USE DEF IInv
<1>1. TypeOK'
  BY DEF TypeOK, ThreadType, Entry, Signal
<1>2. LockInv'
  BY DEF TypeOK, ThreadType, LockInv, InRing, Signal
<1>3. RingInv'
  BY RingFrame DEF Signal
<1>4. CursorInv'
  BY RingFacts DEF TypeOK, ThreadType, LockInv, CursorInv, InRing,
         EmptyAt, Succ, Index, Entry, Signal
<1>5. LoopInv'
  BY LoopFrame DEF Signal
<1>6. CloseInv'
  BY CloseFrame DEF Signal
<1> QED  BY <1>1, <1>2, <1>3, <1>4, <1>5, <1>6

LEMMA NotifiedStep == ASSUME IInv, NEW t \in Threads, Notified(t) PROVE IInv'
<1> USE DEF IInv
<1>1. TypeOK'
  BY DEF TypeOK, ThreadType, Entry, Notified
<1>2. LockInv'
  BY DEF TypeOK, ThreadType, LockInv, InRing, Notified
<1>3. RingInv'
  BY RingFrame DEF Notified
<1>4. CursorInv'
  BY RingFacts DEF TypeOK, ThreadType, LockInv, CursorInv, InRing,
         EmptyAt, Succ, Index, Entry, Notified
<1>5. LoopInv'
  BY LoopFrame DEF Notified
<1>6. CloseInv'
  BY CloseFrame DEF Notified
<1> QED  BY <1>1, <1>2, <1>3, <1>4, <1>5, <1>6

-----------------------------------------------------------------------------
(* The log thread *)

LEMMA OpenStep == ASSUME IInv, Open PROVE IInv'
<1> USE DEF IInv
<1>1. /\ loop' \in LoopType /\ loop.at = "open" /\ size' \in Nat
      /\ (loop'.at = "create" /\ size' < MaxSize) \/ loop'.at = "fclose"
  <2>1. loop \in LoopType /\ loop.at = "open" /\ size' \in Nat
    BY PrimaryIsSeq DEF TypeOK, Open
  <2>2. CASE MaxSize <= size'
    <3>1. loop' = [loop EXCEPT !.at = "fclose"]
      BY <2>2 DEF Open
    <3> QED  BY <2>1, <3>1 DEF LoopType
  <2>3. CASE ~(MaxSize <= size')
    <3>1. loop' = [loop EXCEPT !.at = "create"]
      BY <2>3 DEF Open
    <3> QED  BY <2>1, <2>3, <3>1, FilesFacts DEF LoopType
  <2> QED  BY <2>2, <2>3
<1>2. TypeOK'
  BY <1>1, PrimaryIsSeq DEF TypeOK, Open
<1>3. LockInv'
  BY LockFrame DEF Open
<1>4. RingInv' /\ CursorInv'
  BY <1>1, RingFrame, CursorFrame DEF Open
<1>5. LoopInv'
  BY <1>1 DEF LoopInv, Open
<1>6. CloseInv'
  BY <1>1 DEF CloseInv, Closing, Range, Open
<1> QED  BY <1>2, <1>3, <1>4, <1>5, <1>6

LEMMA CreateStep == ASSUME IInv, Create PROVE IInv'
<1> USE DEF IInv
<1>1. loop' \in LoopType /\ loop.at = "create" /\ loop'.at = "test"
  BY DEF TypeOK, LoopType, Create
<1>2. TypeOK'
  BY <1>1 DEF TypeOK, Create
<1>3. LockInv'
  BY LockFrame DEF Create
<1>4. RingInv' /\ CursorInv'
  BY <1>1, RingFrame, CursorFrame DEF Create
<1>5. LoopInv'
  BY <1>1, FilesAssumption DEF LoopInv, Create
<1>6. CloseInv'
  BY <1>1, CloseFrame DEF Create
<1> QED  BY <1>2, <1>3, <1>4, <1>5, <1>6

LEMMA TestStep == ASSUME IInv, Test PROVE IInv'
<1> USE DEF IInv
<1>1. /\ loop' \in LoopType /\ loop.at = "test"
      /\ loop'.at = "pop" \/ (loop'.at = "ended" /\ done /\ EmptyAt(head))
  <2>1. CASE done /\ EmptyAt(head)
    <3>1. loop' = [loop EXCEPT !.at = "ended"]
      BY <2>1 DEF Test
    <3> QED  BY <2>1, <3>1 DEF TypeOK, LoopType, Test
  <2>2. CASE ~(done /\ EmptyAt(head))
    <3>1. loop' = [loop EXCEPT !.at = "pop", !.cnt = Polls]
      BY <2>2 DEF Test
    <3> QED  BY <3>1, PollsFacts DEF TypeOK, LoopType, Test
  <2> QED  BY <2>1, <2>2
<1>2. UNCHANGED <<ring, pipe, thr, life, caller, disk, bounds>>
  BY DEF Test
<1>3. TypeOK'
  BY <1>1, <1>2 DEF TypeOK
<1>4. LockInv' /\ RingInv' /\ CursorInv'
  BY <1>1, <1>2, LockFrame, RingFrame, CursorFrame
<1>5. LoopInv'
  BY <1>1, <1>2 DEF LoopInv
<1>6. CloseInv'
  <2>1. CASE loop'.at = "ended"
    <3>1. Len(put) = Len(written)
      BY <1>1, <2>1, HeldFacts, Counts DEF EmptyAt
    <3>2. Range(put) \subseteq Range(written)
      BY <3>1, Counts DEF RingInv, Range
    <3>3. Closing /\ due \subseteq Range(put)
      BY <1>1, <2>1 DEF CloseInv
    <3>4. UNCHANGED <<main, due, done, put, written, synced, primary>>
      BY <1>2
    <3> QED  BY <1>1, <2>1, <3>2, <3>3, <3>4 DEF CloseInv, Closing
  <2>2. CASE loop'.at # "ended"
    BY <1>1, <1>2, <2>2, CloseFrame
  <2> QED  BY <2>1, <2>2
<1> QED  BY <1>3, <1>4, <1>5, <1>6

LEMMA PopStep == ASSUME IInv, Pop PROVE IInv'
<1> USE DEF IInv
<1>1. /\ loop' \in LoopType /\ loop.at = "pop"
       /\ \/ loop'.at = "test"
          \/ loop'.at = "listen" /\ loop'.cnt > 0
          \/ loop'.at = "take" /\ ~EmptyAt(head)
  <2>1. CASE ~EmptyAt(head)
    <3>1. loop' = [loop EXCEPT !.at = "take", !.cnt = 0]
      BY <2>1 DEF Pop
    <3>2. loop' \in LoopType /\ loop'.at = "take"
      BY <3>1, PollsFacts DEF TypeOK, LoopType
    <3> QED  BY <2>1, <3>2 DEF Pop
  <2>2. CASE EmptyAt(head) /\ loop.cnt = 0
    <3>1. loop' = [loop EXCEPT !.at = "test"]
      BY <2>2 DEF Pop
    <3> QED  BY <3>1 DEF TypeOK, LoopType, Pop
  <2>3. CASE EmptyAt(head) /\ loop.cnt # 0
    <3>1. loop' = [loop EXCEPT !.at = "listen"]
      BY <2>3 DEF Pop
    <3>2. loop.at = "pop"
      BY DEF Pop
    <3>3. loop' \in LoopType
      BY <3>1 DEF TypeOK, LoopType
    <3> QED  BY <2>3, <3>1, <3>2, <3>3 DEF TypeOK, LoopType
  <2> QED  BY <2>1, <2>2, <2>3
<1>2. TypeOK'
  BY <1>1 DEF TypeOK, Pop
<1>3. LockInv'
  BY LockFrame DEF Pop
<1>4. RingInv'
  BY <1>1, RingFrame DEF Pop
<1>5. CursorInv'
  BY <1>1 DEF CursorInv, InRing, EmptyAt, Succ, Pop
<1>6. LoopInv'
  BY <1>1, FilesAssumption DEF LoopInv, Pop
<1>7. CloseInv'
  BY <1>1, CloseFrame DEF Pop
<1> QED  BY <1>2, <1>3, <1>4, <1>5, <1>6, <1>7

LEMMA ListenStep == ASSUME IInv, Listen PROVE IInv'
<1> USE DEF IInv
<1>1. /\ loop' \in LoopType /\ loop.at = "listen"
      /\ loop'.at \in {"listen", "poll"} /\ loop'.cnt = loop.cnt
  BY DEF TypeOK, LoopType, Listen
<1>2. TypeOK'
  BY <1>1 DEF TypeOK, Listen
<1>3. LockInv'
  BY LockFrame DEF Listen
<1>4. RingInv' /\ CursorInv'
  BY <1>1, RingFrame, CursorFrame DEF Listen
<1>5. LoopInv'
  BY <1>1, FilesAssumption DEF LoopInv, Listen
<1>6. CloseInv'
  BY <1>1, CloseFrame DEF Listen
<1> QED  BY <1>2, <1>3, <1>4, <1>5, <1>6

LEMMA PollStep == ASSUME IInv, Poll PROVE IInv'
<1> USE DEF IInv
<1>1. loop' \in LoopType /\ loop.at = "poll" /\ loop'.at \in {"release", "pop"}
  <2>1. loop.cnt - 1 \in 0 .. Polls
    BY PollsFacts DEF TypeOK, LoopType, LoopInv, Poll
  <2>2. CASE byte
    <3>1. loop' = [loop EXCEPT !.at = "release", !.cnt = loop.cnt - 1]
      BY <2>2 DEF TypeOK, LoopType, Poll
    <3> QED  BY <2>1, <3>1 DEF TypeOK, LoopType, Poll
  <2>3. CASE ~byte
    <3>1. loop' = [loop EXCEPT !.at = "pop", !.cnt = loop.cnt - 1]
      BY <2>3 DEF TypeOK, LoopType, Poll
    <3> QED  BY <2>1, <3>1 DEF TypeOK, LoopType, Poll
  <2> QED  BY <2>2, <2>3
<1>2. TypeOK'
  BY <1>1 DEF TypeOK, Poll
<1>3. LockInv'
  BY LockFrame DEF Poll
<1>4. RingInv' /\ CursorInv'
  BY <1>1, RingFrame, CursorFrame DEF Poll
<1>5. LoopInv'
  BY <1>1, FilesAssumption DEF LoopInv, Poll
<1>6. CloseInv'
  BY <1>1, CloseFrame DEF Poll
<1> QED  BY <1>2, <1>3, <1>4, <1>5, <1>6

LEMMA ReleaseStep == ASSUME IInv, Release PROVE IInv'
<1> USE DEF IInv
<1>1. loop' \in LoopType /\ loop.at = "release" /\ loop'.at = "pop"
  BY DEF TypeOK, LoopType, Release
<1>2. TypeOK'
  BY <1>1 DEF TypeOK, Release
<1>3. LockInv'
  BY LockFrame DEF Release
<1>4. RingInv' /\ CursorInv'
  BY <1>1, RingFrame, CursorFrame DEF Release
<1>5. LoopInv'
  BY <1>1, FilesAssumption DEF LoopInv, Release
<1>6. CloseInv'
  BY <1>1, CloseFrame DEF Release
<1> QED  BY <1>2, <1>3, <1>4, <1>5, <1>6

LEMMA TakeStep == ASSUME IInv, Take PROVE IInv'
<1> USE DEF IInv
<1>1. loop' \in LoopType /\ loop.at = "take" /\ loop'.at = "write" /\ ~EmptyAt(head)
  BY DEF TypeOK, LoopType, CursorInv, Take
<1>2. TypeOK'
  BY <1>1, SuccInRing DEF TypeOK, Take
<1>3. LockInv'
  BY LockFrame DEF Take
<1>4. RingInv'
  <2>1. UNCHANGED <<slots, tail, put, written>> /\ head' = Succ(head)
    BY DEF Take
  <2>2. /\ Held > 0 /\ Held' = Held - 1 /\ Slot(1) = head'
        /\ \A k \in 0 .. QSize - 2 : Slot(k)' = Slot(k + 1)
    BY <1>1, <2>1, HeadMoves
  <2>3. Gone' = Gone + 1 /\ Gone = Len(written)
    BY <1>1, <2>1, Counts DEF Gone
  <2>4. Held \in Nat /\ Held < QSize /\ Len(put) = Gone + Held /\ Gone \in Nat
    BY HeldFacts, Counts
  <2>5. slots[head'] = put[Gone']
    BY <2>2, <2>3, <2>4 DEF RingInv
  <2>6. \A k \in 1 .. Held' : slots[Slot(k)'] = put[Gone' + k]
    <3> TAKE k \in 1 .. Held'
    <3>1. k + 1 \in 1 .. Held /\ k \in 0 .. QSize - 2 /\ Gone' + k = Gone + (k + 1)
      BY <2>2, <2>3, <2>4, RingFacts
    <3> QED  BY <3>1, <2>2 DEF RingInv
  <2>7. Len(put') = Gone' + Held'
    BY <2>1, <2>2, <2>3, <2>4
  <2> QED  BY <2>1, <2>5, <2>6, <2>7 DEF RingInv
<1>5. CursorInv'
  BY <1>1, RingFacts DEF TypeOK, CursorInv, LockInv, InRing, EmptyAt, Succ, Index, Take
<1>6. LoopInv'
  BY <1>1, FilesAssumption DEF LoopInv, Take
<1>7. CloseInv'
  BY <1>1, CloseFrame DEF Take
<1> QED  BY <1>2, <1>3, <1>4, <1>5, <1>6, <1>7

LEMMA WriteStep == ASSUME IInv, Write PROVE IInv'
<1> USE DEF IInv
<1>1. /\ loop' \in LoopType /\ loop.at = "write"
       /\ \/ loop'.at = "test" /\ size' < MaxSize
          \/ loop'.at = "fclose"
       /\ size' \in Nat
  <2>1. size' = size + 1 /\ size \in Nat /\ size < MaxSize
    BY FilesFacts DEF TypeOK, LoopInv, Write
  <2>2. CASE MaxSize <= size'
    <3>1. loop' = [loop EXCEPT !.at = "fclose"]
      BY <2>2 DEF Write
    <3>2. loop' \in LoopType /\ loop'.at = "fclose"
      BY <3>1 DEF TypeOK, LoopType
    <3> QED  BY <2>1, <3>2 DEF Write
  <2>3. CASE ~(MaxSize <= size')
    <3>1. loop' = [loop EXCEPT !.at = "test"]
      BY <2>3 DEF Write
    <3>2. loop' \in LoopType /\ loop'.at = "test"
      BY <3>1 DEF TypeOK, LoopType
    <3>3. size' < MaxSize
      BY <2>1, <2>3, FilesFacts
    <3> QED  BY <2>1, <3>2, <3>3 DEF Write
  <2> QED  BY <2>2, <2>3
<1>2. TypeOK'
  <2>1. slots[head] \in Entry
    BY <1>1, Counts DEF RingInv
  <2>2. {primary', written'} \subseteq Seq(Entry) /\ Len(primary') = Len(primary) + 1
    BY <2>1 DEF TypeOK, Write
  <2> QED  BY <1>1, <2>1, <2>2 DEF TypeOK, Write
<1>3. LockInv'
  BY LockFrame DEF Write
<1>4. RingInv'
  <2>1. UNCHANGED <<slots, head, tail, put>> /\ written' = Append(written, slots[head])
    BY DEF Write
  <2>2. Held' = Held /\ \A k \in Nat : Slot(k)' = Slot(k)
    BY <2>1 DEF Held, Slot
  <2>3. /\ Len(written') = Len(written) + 1 /\ written'[Len(written) + 1] = slots[head]
        /\ \A i \in 1 .. Len(written) : written'[i] = written[i]
    BY <2>1, Counts
  <2>4. Gone' = Gone /\ Gone = Len(written) + 1
    BY <1>1, <2>3, Counts DEF Gone
  <2>5. \A i \in 1 .. Len(written') : written'[i] = put'[i]
    BY <1>1, <2>1, <2>3, <2>4, Counts DEF RingInv
  <2>6. Len(put') = Gone' + Held'
    BY <2>1, <2>2, <2>4, Counts
  <2>7. \A k \in 1 .. Held' : slots'[Slot(k)'] = put'[Gone' + k]
    BY <2>1, <2>2, <2>4, Counts DEF RingInv
  <2> QED  BY <1>1, <2>5, <2>6, <2>7 DEF RingInv
<1>5. CursorInv'
  BY <1>1, CursorFrame DEF Write
<1>6. LoopInv'
  BY <1>1, FilesAssumption DEF LoopInv, Write
<1>7. CloseInv'
  <2>1. Range(written) \subseteq Range(written')
    BY Counts DEF Write, Range
  <2>2. main.at \notin {"free", "closed"}
    BY <1>1 DEF CloseInv
  <2> QED  BY <1>1, <2>1, <2>2 DEF CloseInv, Closing, Write
<1> QED  BY <1>2, <1>3, <1>4, <1>5, <1>6, <1>7

LEMMA CloseStep == ASSUME IInv, Close PROVE IInv'
<1> USE DEF IInv
<1>1. loop' \in LoopType /\ loop.at = "fclose" /\ loop'.at = "rename"
  <2>1. loop' = [loop EXCEPT !.at = "rename", !.seq = MaxFiles]
    BY DEF Close
  <2> QED  BY <2>1, FilesFacts DEF TypeOK, LoopType, Close
<1>2. TypeOK'
  BY <1>1, PrimaryIsSeq DEF TypeOK, Close
<1>3. LockInv'
  BY LockFrame DEF Close
<1>4. RingInv' /\ CursorInv'
  BY <1>1, RingFrame, CursorFrame DEF Close
<1>5. LoopInv'
  BY <1>1, FilesAssumption DEF LoopInv, Close
<1>6. CloseInv'
  BY <1>1 DEF CloseInv, Closing, Range, Close
<1> QED  BY <1>2, <1>3, <1>4, <1>5, <1>6

LEMMA RenameStep == ASSUME IInv, Rename PROVE IInv'
<1> USE DEF IInv
<1>1. loop' \in LoopType /\ loop.at = "rename" /\ loop'.at \in {"rename", "fopen"}
  <2>1. loop.at = "rename" /\ loop \in LoopType
    BY DEF TypeOK, Rename
  <2>2. CASE loop.seq > 0
    <3>1. loop' = [loop EXCEPT !.seq = loop.seq - 1]
      BY <2>2 DEF Rename
    <3> QED  BY <2>1, <2>2, <3>1, FilesFacts DEF LoopType
  <2>3. CASE ~(loop.seq > 0)
    <3>1. loop' = [loop EXCEPT !.at = "fopen"]
      BY <2>3 DEF Rename
    <3> QED  BY <2>1, <3>1 DEF LoopType
  <2> QED  BY <2>2, <2>3, <2>1
<1>2. TypeOK'
  <2>1. archives' \in [1 .. MaxFiles + 1 -> Seq(Entry)]
    <3>1. CASE loop.seq > 0
      <4>1. archives' = Renamed(loop.seq) /\ loop.seq \in 1 .. MaxFiles
        BY <3>1, FilesFacts DEF TypeOK, LoopType, Rename
      <4>2. CASE archives[loop.seq] = <<>>
        BY <4>1, <4>2 DEF TypeOK, Renamed
      <4>3. CASE archives[loop.seq] # <<>>
        <5> DEFINE n == loop.seq
        <5>1. n \in 1 .. MaxFiles + 1 /\ n + 1 \in 1 .. MaxFiles + 1
          BY <4>1, FilesFacts
        <5>2. archives' = [[archives EXCEPT ![n + 1] = archives[n]] EXCEPT ![n] = <<>>]
          BY <4>1, <4>3 DEF Renamed
        <5>3. [archives EXCEPT ![n + 1] = archives[n]] \in [1 .. MaxFiles + 1 -> Seq(Entry)]
          BY <5>1 DEF TypeOK
        <5> QED  BY <5>1, <5>2, <5>3
      <4> QED  BY <4>2, <4>3
    <3>2. CASE ~(loop.seq > 0)
      BY <3>2, PrimaryIsSeq DEF TypeOK, Rename
    <3> QED  BY <3>1, <3>2
  <2>2. primary' \in Seq(Entry) /\ synced' \in 0 .. Len(primary')
    <3>1. CASE loop.seq > 0
      BY <3>1, PrimaryIsSeq DEF TypeOK, Rename
    <3>2. CASE ~(loop.seq > 0)
      <4>1. primary' = <<>> /\ synced' = 0
        BY <3>2 DEF Rename
      <4> QED  BY <4>1
    <3> QED  BY <3>1, <3>2
  <2> QED  BY <1>1, <2>1, <2>2 DEF TypeOK, Rename
<1>3. LockInv'
  BY LockFrame DEF Rename
<1>4. RingInv' /\ CursorInv'
  BY <1>1, RingFrame, CursorFrame DEF Rename
<1>5. LoopInv'
  BY <1>1, FilesAssumption DEF LoopInv, Rename
<1>6. CloseInv'
  BY <1>1 DEF CloseInv, Closing, Range, Rename
<1> QED  BY <1>2, <1>3, <1>4, <1>5, <1>6

LEMMA ReopenStep == ASSUME IInv, Reopen PROVE IInv'
<1> USE DEF IInv
<1>1. loop' \in LoopType /\ loop.at = "fopen" /\ loop'.at = "remove" /\ size' = 0
  BY DEF TypeOK, LoopType, Reopen
<1>2. TypeOK'
  BY <1>1, FilesAssumption DEF TypeOK, Reopen
<1>3. LockInv'
  BY LockFrame DEF Reopen
<1>4. RingInv' /\ CursorInv'
  BY <1>1, RingFrame, CursorFrame DEF Reopen
<1>5. LoopInv'
  BY <1>1, FilesAssumption DEF LoopInv, Reopen
<1>6. CloseInv'
  BY <1>1, CloseFrame DEF Reopen
<1> QED  BY <1>2, <1>3, <1>4, <1>5, <1>6

LEMMA RemoveOldStep == ASSUME IInv, RemoveOld PROVE IInv'
<1> USE DEF IInv
<1>1. loop' \in LoopType /\ loop.at = "remove" /\ loop'.at \in {"test", "create"}
  BY DEF TypeOK, LoopType, RemoveOld
<1>2. TypeOK'
  <2>1. archives' \in [1 .. MaxFiles + 1 -> Seq(Entry)]
    BY DEF TypeOK, RemoveOld
  <2> QED  BY <1>1, <2>1 DEF TypeOK, RemoveOld
<1>3. LockInv'
  BY LockFrame DEF RemoveOld
<1>4. RingInv' /\ CursorInv'
  BY <1>1, RingFrame, CursorFrame DEF RemoveOld
<1>5. LoopInv'
  BY <1>1, FilesAssumption DEF LoopInv, RemoveOld
<1>6. CloseInv'
  BY <1>1, CloseFrame DEF RemoveOld
<1> QED  BY <1>2, <1>3, <1>4, <1>5, <1>6

-----------------------------------------------------------------------------
(* The thread that flushes and closes *)

LEMMA FlushStep == ASSUME IInv, Flush PROVE IInv'
<1> USE DEF IInv
<1>1. main' \in MainType
  BY RingFacts DEF TypeOK, MainType, Flush
<1>2. TypeOK'
  BY <1>1, RangePut DEF TypeOK, Flush
<1>3. LockInv' /\ RingInv' /\ CursorInv'
  BY LockFrame, RingFrame, CursorFrame DEF Flush
<1>4. LoopInv'
  BY LoopFrame DEF Flush
<1>5. CloseInv'
  BY DEF TypeOK, MainType, CloseInv, Closing, Range, Flush
<1> QED  BY <1>2, <1>3, <1>4, <1>5

LEMMA FlushHeadStep == ASSUME IInv, FlushHead PROVE IInv'
<1> USE DEF IInv
<1>1. main' \in MainType
  BY RingFacts DEF TypeOK, MainType, FlushHead
<1>2. TypeOK'
  BY <1>1 DEF TypeOK, FlushHead
<1>3. LockInv' /\ RingInv' /\ CursorInv'
  BY LockFrame, RingFrame, CursorFrame DEF FlushHead
<1>4. LoopInv'
  BY LoopFrame DEF FlushHead
<1>5. CloseInv'
  BY DEF TypeOK, MainType, CloseInv, Closing, Range, FlushHead
<1> QED  BY <1>2, <1>3, <1>4, <1>5

LEMMA FlushTailStep == ASSUME IInv, FlushTail PROVE IInv'
<1> USE DEF IInv
<1>1. main' \in MainType
  <2>1. CASE EmptyAt(main.head)
    BY <2>1, RingFacts DEF MainType, FlushTail
  <2>2. CASE ~EmptyAt(main.head)
    BY <2>2, RingFacts DEF MainType, FlushTail
  <2> QED  BY <2>1, <2>2
<1>2. TypeOK'
  BY <1>1 DEF TypeOK, FlushTail
<1>3. LockInv' /\ RingInv' /\ CursorInv'
  BY LockFrame, RingFrame, CursorFrame DEF FlushTail
<1>4. LoopInv'
  BY LoopFrame DEF FlushTail
<1>5. CloseInv'
  BY DEF TypeOK, MainType, CloseInv, Closing, Range, FlushTail
<1> QED  BY <1>2, <1>3, <1>4, <1>5

LEMMA FlushFileStep == ASSUME IInv, FlushFile PROVE IInv'
<1> USE DEF IInv
<1>1. main' \in MainType
  BY RingFacts DEF TypeOK, MainType, FlushFile
<1>2. TypeOK'
  BY <1>1 DEF TypeOK, FlushFile
<1>3. LockInv' /\ RingInv' /\ CursorInv'
  BY LockFrame, RingFrame, CursorFrame DEF FlushFile
<1>4. LoopInv'
  BY LoopFrame DEF FlushFile
<1>5. CloseInv'
  BY DEF TypeOK, MainType, CloseInv, Closing, Range, FlushFile
<1> QED  BY <1>2, <1>3, <1>4, <1>5

LEMMA FlushSyncStep == ASSUME IInv, FlushSync PROVE IInv'
<1> USE DEF IInv
<1>1. main' \in MainType
  BY RingFacts DEF TypeOK, MainType, FlushSync
<1>2. TypeOK'
  BY <1>1 DEF TypeOK, FlushSync
<1>3. LockInv' /\ RingInv' /\ CursorInv'
  BY LockFrame, RingFrame, CursorFrame DEF FlushSync
<1>4. LoopInv'
  BY LoopFrame DEF FlushSync
<1>5. CloseInv'
  BY DEF TypeOK, MainType, CloseInv, Closing, Range, FlushSync
<1> QED  BY <1>2, <1>3, <1>4, <1>5

LEMMA FlushReturnStep == ASSUME IInv, FlushReturn PROVE IInv'
<1> USE DEF IInv
<1>1. main' \in MainType
  BY RingFacts DEF TypeOK, MainType, FlushReturn
<1>2. TypeOK'
  BY <1>1 DEF TypeOK, FlushReturn
<1>3. LockInv' /\ RingInv' /\ CursorInv'
  BY LockFrame, RingFrame, CursorFrame DEF FlushReturn
<1>4. LoopInv'
  BY LoopFrame DEF FlushReturn
<1>5. CloseInv'
  BY DEF TypeOK, MainType, CloseInv, Closing, Range, FlushReturn
<1> QED  BY <1>2, <1>3, <1>4, <1>5

LEMMA CloseLogStep == ASSUME IInv, CloseLog PROVE IInv'
<1> USE DEF IInv
<1>1. main' \in MainType
  BY RingFacts DEF TypeOK, MainType, CloseLog
<1>2. TypeOK'
  BY <1>1, RangePut DEF TypeOK, CloseLog
<1>3. LockInv' /\ RingInv' /\ CursorInv'
  BY LockFrame, RingFrame, CursorFrame DEF CloseLog
<1>4. LoopInv'
  BY LoopFrame DEF CloseLog
<1>5. CloseInv'
  BY DEF TypeOK, MainType, CloseInv, Closing, Range, CloseLog
<1> QED  BY <1>2, <1>3, <1>4, <1>5

LEMMA CloseJoinStep == ASSUME IInv, CloseJoin PROVE IInv'
<1> USE DEF IInv
<1>1. main' \in MainType
  BY RingFacts DEF TypeOK, MainType, CloseJoin
<1>2. TypeOK'
  BY <1>1 DEF TypeOK, CloseJoin
<1>3. LockInv' /\ RingInv' /\ CursorInv'
  BY LockFrame, RingFrame, CursorFrame DEF CloseJoin
<1>4. LoopInv'
  BY LoopFrame DEF CloseJoin
<1>5. CloseInv'
  BY DEF TypeOK, MainType, CloseInv, Closing, Range, CloseJoin
<1> QED  BY <1>2, <1>3, <1>4, <1>5

LEMMA CloseFreeStep == ASSUME IInv, CloseFree PROVE IInv'
<1> USE DEF IInv
<1>1. main' \in MainType
  BY RingFacts DEF TypeOK, MainType, CloseFree
<1>2. TypeOK'
  BY <1>1, PrimaryIsSeq DEF TypeOK, CloseFree
<1>3. LockInv' /\ RingInv' /\ CursorInv'
  BY LockFrame, RingFrame, CursorFrame DEF CloseFree
<1>4. LoopInv'
  BY LoopFrame DEF CloseFree
<1>5. CloseInv'
  BY DEF TypeOK, MainType, CloseInv, Closing, Range, CloseFree
<1> QED  BY <1>2, <1>3, <1>4, <1>5

-----------------------------------------------------------------------------
(* The specification *)

LEMMA StutterStep == ASSUME IInv, UNCHANGED vars PROVE IInv'
<1> USE DEF IInv, vars
<1>1. TypeOK'
  BY DEF TypeOK, ring, pipe, life, caller, disk, file, bounds
<1>2. LockInv' /\ RingInv' /\ CursorInv'
  BY LockFrame, RingFrame, CursorFrame DEF ring, disk, file
<1>3. LoopInv' /\ CloseInv'
  BY LoopFrame, CloseFrame DEF ring, life, caller, disk, file
<1> QED  BY <1>1, <1>2, <1>3

\* A new process has what Init has, but for the files and what is written in them.
LEMMA CrashStep == ASSUME IInv, Crash PROVE IInv'
<1>1. TypeOK
  BY DEF IInv
<1>2. PICK n \in synced .. Len(primary) : primary' = SubSeq(primary, 1, n)
  BY DEF Crash
<1>3. primary' \in Seq(Entry) /\ Len(primary') \in Nat
  <2>1. primary \in Seq(Entry) /\ n \in 0 .. Len(primary)
    BY <1>1, <1>2 DEF TypeOK
  <2> QED  BY <1>2, <2>1
<1>4. put' \in Seq(Entry) /\ written' = put' /\ Len(put') \in Nat
  <2>1. Piled(archives) \in Seq(Entry)
    BY <1>1, PiledTyped DEF TypeOK, Archived, Files
  <2>2. put' = Piled(archives) \o primary' /\ written' = put'
    BY DEF Crash, Kept, Piled
  <2> QED  BY <1>3, <2>1, <2>2
<1>5. TypeOK'
  <2>1. /\ slots' \in [Index -> Entry \cup {0}] /\ head' \in Index /\ tail' \in Index
        /\ main' \in MainType /\ loop' \in LoopType /\ thr' \in [Threads -> ThreadType]
    BY RingFacts, PollsFacts, FilesFacts
       DEF Crash, NoEntries, NoCall, MainType, Opening, LoopType, AllIdle, ThreadType
  <2>2. crashes' \in 0 .. MaxCrashes /\ calls' \in 0 .. MaxEntries
    BY <1>1, LogBounds DEF TypeOK, Crash
  <2>3. synced' \in 0 .. Len(primary') /\ size' \in Nat
    BY <1>3 DEF Crash
  <2> QED  BY <1>1, <1>3, <1>4, <2>1, <2>2, <2>3 DEF TypeOK, Crash
<1>6. LockInv' /\ CursorInv'
  BY DEF Crash, LockInv, CursorInv, InRing, AllIdle, Opening
<1>7. RingInv'
  BY <1>4, RingFacts DEF Crash, RingInv, Gone, Held, Opening
<1>8. LoopInv' /\ CloseInv'
  BY FilesFacts DEF Crash, LoopInv, CloseInv, Closing, Opening
<1> QED  BY <1>5, <1>6, <1>7, <1>8 DEF IInv

LEMMA NextInv == ASSUME IInv, [Next]_vars PROVE IInv'
<1>1. ASSUME NEW t \in Threads, Call(t) \/ Log(t) PROVE IInv'
  BY <1>1, CallStep, LockStep, RoomStep, StoreStep, AdvanceStep, StoreNowhereStep,
     CheckStep, SignalStep, NotifiedStep DEF Log
<1>2. CASE Open \/ Create \/ Loop
  BY <1>2, OpenStep, CreateStep, TestStep, PopStep, ListenStep, PollStep, ReleaseStep,
     TakeStep, WriteStep, CloseStep, RenameStep, ReopenStep, RemoveOldStep DEF Loop, Rotate
<1>3. CASE Main
  BY <1>3, FlushStep, FlushHeadStep, FlushTailStep, FlushFileStep, FlushSyncStep,
     FlushReturnStep, CloseLogStep, CloseJoinStep, CloseFreeStep DEF Main
<1>4. CASE Crash
  BY <1>4, CrashStep
<1>5. CASE UNCHANGED vars
  BY <1>5, StutterStep
<1> QED  BY <1>1, <1>2, <1>3, <1>4, <1>5 DEF Next

LEMMA Invariance == Spec => []IInv
<1>1. Init => IInv
  BY InitInv
<1>2. IInv /\ [Next]_vars => IInv'
  BY NextInv
<1> QED  BY <1>1, <1>2, PTL DEF Spec

\* Every variable has its type: no index leaves the ring, no counter passes its
\* limit, also when the process dies.
THEOREM TypeCorrect == Spec => []TypeOK
<1>1. IInv => TypeOK
  BY DEF IInv
<1> QED  BY <1>1, Invariance, PTL

\* The entries are written in the order in which they were put in the ring, each
\* once and none left out.
THEOREM WritesInOrder == Spec => []WrittenInOrder
<1>1. IInv => WrittenInOrder
  <2> SUFFICES ASSUME IInv PROVE WrittenInOrder
    OBVIOUS
  <2>1. TypeOK /\ RingInv
    BY DEF IInv
  <2>2. /\ put \in Seq(Entry) /\ written \in Seq(Entry) /\ Len(written) <= Len(put)
        /\ \A i \in 1 .. Len(written) : written[i] = put[i]
    BY <2>1, Counts DEF RingInv
  <2>3. SubSeq(written, 1, Len(written)) = SubSeq(put, 1, Len(written))
    BY <2>2
  <2> QED  BY <2>2, <2>3 DEF WrittenInOrder, IsPrefix
<1> QED  BY <1>1, Invariance, PTL

\* When agoo_log_close is done, every entry that was in the ring when it was
\* called is in a file, and the file is closed after the last of them.
THEOREM ClosesDrained == Spec => []CloseDrains
<1>1. IInv => CloseDrains
  BY DEF IInv, CloseInv, CloseDrains, Closing
<1> QED  BY <1>1, Invariance, PTL

-----------------------------------------------------------------------------
(* The files hold the last entries *)

\* On the way the archive that was renamed last is missing.
KeptInv ==
  /\ loop.at = "rename" /\ loop.seq < MaxFiles => archives[loop.seq + 1] = <<>>
  /\ \E d \in Seq(Entry) : written = d \o (Piled(archives) \o primary)

LEMMA Joint == \A x, y \in Seq(Entry) : x \o y \in Seq(Entry)
OBVIOUS

LEMMA SuffixOf == ASSUME NEW d \in Seq(Entry), NEW k \in Seq(Entry) PROVE IsSuffix(k, d \o k)
<1> DEFINE w == d \o k
           s == Reverse(k)
           t == Reverse(w)
<1>1. PICK x \in Nat, y \in Nat : x = Len(d) /\ y = Len(k)
  OBVIOUS
<1>2. w \in Seq(Entry) /\ Len(w) = x + y /\ \A i \in 1 .. y : w[x + i] = k[i]
  BY <1>1
<1> HIDE DEF w
<1>3. /\ s = [i \in 1 .. y |-> k[(y - i) + 1]]
      /\ t = [i \in 1 .. x + y |-> w[((x + y) - i) + 1]]
  BY <1>1, <1>2 DEF Reverse
<1>4. s \in Seq(Entry) /\ Len(s) = y /\ t \in Seq(Entry) /\ Len(t) = x + y
  <2>1. /\ \A i \in 1 .. y : k[(y - i) + 1] \in Entry
        /\ \A i \in 1 .. x + y : w[((x + y) - i) + 1] \in Entry
    BY <1>1, <1>2
  <2> QED  BY <1>3, <2>1
<1>5. \A i \in 1 .. y : s[i] = t[i]
  <2> TAKE i \in 1 .. y
  <2>1. (y - i) + 1 \in 1 .. y /\ ((x + y) - i) + 1 = x + ((y - i) + 1) /\ i \in 1 .. x + y
    OBVIOUS
  <2> QED  BY <1>2, <1>3, <2>1
<1> HIDE DEF s, t
<1>6. SubSeq(s, 1, Len(s)) = SubSeq(t, 1, Len(s))
  BY <1>4, <1>5
<1>7. IsPrefix(s, t)
  BY <1>4, <1>6 DEF IsPrefix
<1> QED  BY <1>7 DEF IsSuffix, s, t, w

\* The oldest entries go.
LEMMA OldestGo ==
  ASSUME NEW a \in Seq(Entry), NEW b \in Seq(Entry), NEW p \in Seq(Entry),
         \E d \in Seq(Entry) : written = d \o ((a \o b) \o p)
  PROVE  \E d \in Seq(Entry) : written = d \o (b \o p)
<1>1. PICK d \in Seq(Entry) : written = d \o ((a \o b) \o p)
  OBVIOUS
<1>2. (a \o b) \o p = a \o (b \o p)
  BY Assoc, ZenonT(30)
<1>3. b \o p \in Seq(Entry) /\ d \o a \in Seq(Entry)
  BY Joint, Zenon
<1>4. d \o (a \o (b \o p)) = (d \o a) \o (b \o p)
  BY <1>3, Assoc, ZenonT(30)
<1> QED  BY <1>1, <1>2, <1>3, <1>4, Zenon

LEMMA ArchivesFacts ==
  ASSUME IInv
  PROVE  Archived(archives) /\ Piled(archives) \in Seq(Entry) /\ primary \in Seq(Entry)
BY PiledTyped DEF IInv, TypeOK, Archived, Files

LEMMA KeptFrame ==
  ASSUME KeptInv, UNCHANGED <<archives, primary, written>>,
         \/ loop' = loop
         \/ loop'.at # "rename"
         \/ loop'.seq = MaxFiles
  PROVE  KeptInv'
<1>1. \/ loop' = loop
      \/ ~(loop'.at = "rename" /\ loop'.seq < MaxFiles)
  BY FilesFacts
<1>2. loop'.at = "rename" /\ loop'.seq < MaxFiles => archives'[loop'.seq + 1] = <<>>
  BY <1>1 DEF KeptInv
<1>3. \E d \in Seq(Entry) : written' = d \o (Piled(archives') \o primary')
  BY DEF KeptInv
<1> QED  BY <1>2, <1>3 DEF KeptInv

LEMMA WriteKept == ASSUME IInv, KeptInv, Write PROVE KeptInv'
<1>1. PICK e \in Entry : e = slots[head]
  <2>1. loop.at = "write"
    BY DEF Write, In
  <2>2. slots[head] \in Entry
    BY <2>1, Counts DEF IInv, RingInv
  <2> QED  BY <2>2
<1>2. /\ written' = Append(written, e) /\ primary' = Append(primary, e)
      /\ archives' = archives /\ loop'.at # "rename"
  <2>1. loop' \in {[loop EXCEPT !.at = "fclose"], [loop EXCEPT !.at = "test"]}
    BY DEF Write
  <2> QED  BY <1>1, <2>1 DEF Write, IInv, TypeOK, LoopType
<1>3. PICK d \in Seq(Entry) : written = d \o (Piled(archives) \o primary)
  BY DEF KeptInv
<1>4. PICK q \in Seq(Entry), p \in Seq(Entry), l \in Seq(Entry) :
         q = Piled(archives) /\ p = primary /\ l = <<e>>
  <2>1. <<e>> \in Seq(Entry)
    OBVIOUS
  <2> QED  BY <2>1, ArchivesFacts
<1>5. \A x \in Seq(Entry) : Append(x, e) = x \o l
  BY <1>4
<1>6. d \o (q \o p) \in Seq(Entry) /\ q \o p \in Seq(Entry)
  BY Joint, Zenon
<1>7. written' = (d \o (q \o p)) \o l /\ primary' = p \o l
  <2>1. written = d \o (q \o p)
    BY <1>3, <1>4, Zenon
  <2>2. Append(d \o (q \o p), e) = (d \o (q \o p)) \o l /\ Append(p, e) = p \o l
    BY <1>5, <1>6, Zenon
  <2> QED  BY <1>2, <1>4, <2>1, <2>2, Zenon
<1>8. (d \o (q \o p)) \o l = d \o (q \o (p \o l))
  <2>1. PICK r \in Seq(Entry) : r = q \o p
    BY <1>6, Zenon
  <2>2. (d \o r) \o l = d \o (r \o l)
    BY Assoc, ZenonT(30)
  <2>3. (q \o p) \o l = q \o (p \o l)
    BY Assoc, ZenonT(30)
  <2> QED  BY <2>1, <2>2, <2>3, Zenon
<1>9. written' = d \o (Piled(archives') \o primary')
  BY <1>2, <1>4, <1>7, <1>8, Zenon
<1> QED  BY <1>2, <1>9 DEF KeptInv

LEMMA RenameKept == ASSUME IInv, KeptInv, Rename PROVE KeptInv'
<1>1. /\ loop.at = "rename" /\ loop.seq \in 0 .. MaxFiles /\ written' = written
      /\ loop.seq < MaxFiles => archives[loop.seq + 1] = <<>>
  BY DEF IInv, TypeOK, LoopType, KeptInv, Rename
<1>2. Archived(archives) /\ archives \in [Files -> Seq(Entry)]
  BY ArchivesFacts DEF Archived
<1>3. CASE loop.seq > 0
  <2>1. PICK n \in 1 .. MaxFiles : n = loop.seq
    BY <1>1, <1>3
  <2>2. /\ archives' = Renamed(n) /\ loop'.seq = n - 1 /\ loop'.at = "rename" /\ primary' = primary
        /\ archives[n + 1] = <<>> \/ n = MaxFiles
    <3>1. loop' = [loop EXCEPT !.seq = loop.seq - 1]
      BY <1>3 DEF Rename
    <3>2. loop'.seq = n - 1 /\ loop'.at = "rename"
      BY <1>1, <2>1, <3>1 DEF IInv, TypeOK, LoopType
    <3>3. archives' = Renamed(n) /\ primary' = primary
      BY <1>3, <2>1 DEF Rename
    <3>4. archives[n + 1] = <<>> \/ n = MaxFiles
      <4>1. n < MaxFiles \/ n = MaxFiles
        BY FilesFacts
      <4>2. n < MaxFiles => archives[n + 1] = <<>>
        BY <1>1, <2>1, Zenon
      <4> QED  BY <4>1, <4>2
    <3> QED  BY <3>2, <3>3, <3>4
  <2>3. n \in Files /\ n + 1 \in Files /\ (n - 1) + 1 = n /\ n # n + 1
    BY FilesFacts DEF Files
  <2>4. archives'[n] = <<>>
    BY <1>2, <2>2, <2>3 DEF Renamed
  <2>5. CASE archives[n] = <<>>
    <3>1. archives' = archives
      BY <2>2, <2>5 DEF Renamed
    <3>2. \E d \in Seq(Entry) : written' = d \o (Piled(archives') \o primary')
      BY <1>1, <2>2, <3>1 DEF KeptInv
    <3> QED  BY <2>2, <2>3, <2>4, <3>2 DEF KeptInv
  <2>6. CASE archives[n] # <<>>
    <3>1. archives' = [archives EXCEPT ![n + 1] = archives[n], ![n] = <<>>]
      BY <2>2, <2>6 DEF Renamed
    <3>2. /\ archives'[n + 1] = archives[n]
          /\ \A i \in Files : i # n /\ i # n + 1 => archives[i] = archives'[i]
      BY <1>2, <2>3, <3>1
    <3>3. Archived(archives')
      <4>1. IInv'
        BY RenameStep
      <4> QED  BY <4>1 DEF IInv, TypeOK, Archived, Files
    <3>4. Piled(archives) = archives[n + 1] \o Piled(archives')
      BY <1>2, <2>2, <2>4, <3>2, <3>3, PileRenamed
    <3>5. PICK a \in Seq(Entry), b \in Seq(Entry), p \in Seq(Entry) :
            a = archives[n + 1] /\ b = Piled(archives') /\ p = primary
      BY <1>2, <2>3, <3>3, PiledTyped, ArchivesFacts
    <3>6. \E d \in Seq(Entry) : written = d \o ((a \o b) \o p)
      BY <3>4, <3>5, Zenon DEF KeptInv
    <3>7. \E d \in Seq(Entry) : written = d \o (b \o p)
      BY <3>6, OldestGo
    <3>8. \E d \in Seq(Entry) : written' = d \o (Piled(archives') \o primary')
      BY <1>1, <2>2, <3>5, <3>7, Zenon
    <3> QED  BY <2>2, <2>3, <2>4, <3>8 DEF KeptInv
  <2> QED  BY <2>5, <2>6
<1>4. CASE ~(loop.seq > 0)
  <2>1. loop.seq = 0 /\ 0 < MaxFiles /\ 0 + 1 = 1
    BY <1>1, <1>4, FilesFacts
  <2>2. archives[1] = <<>> /\ loop'.at # "rename" /\ primary' = <<>>
        /\ archives' = [archives EXCEPT ![1] = primary]
    <3>1. loop' = [loop EXCEPT !.at = "fopen"]
      BY <1>4 DEF Rename
    <3> QED  BY <1>1, <1>4, <2>1, <3>1 DEF IInv, TypeOK, LoopType, Rename
  <2>3. 1 \in Files
    BY FilesFacts DEF Files
  <2>4. Archived(archives')
    <3>1. IInv'
      BY RenameStep
    <3> QED  BY <3>1 DEF IInv, TypeOK, Archived, Files
  <2>5. archives'[1] = primary /\ \A i \in Files : i # 1 => archives[i] = archives'[i]
    BY <1>2, <2>2, <2>3
  <2>6. PICK p \in Seq(Entry), q \in Seq(Entry), b \in Seq(Entry) :
          p = primary /\ q = Piled(archives) /\ b = Piled(archives')
    BY <2>4, PiledTyped, ArchivesFacts
  <2>7. b = q \o p
    <3>1. Piled(archives') = Piled(archives) \o primary
      BY <1>2, <2>2, <2>4, <2>5, <2>6, PileFirst, ZenonT(60)
    <3> QED  BY <2>6, <3>1, Zenon
  <2>8. b \o <<>> = b
    BY NoneAdded, Zenon
  <2>9. \E d \in Seq(Entry) : written' = d \o (Piled(archives') \o primary')
    BY <1>1, <2>2, <2>6, <2>7, <2>8, Zenon DEF KeptInv
  <2> QED  BY <2>2, <2>9 DEF KeptInv
<1> QED  BY <1>3, <1>4

LEMMA RemoveOldKept == ASSUME IInv, KeptInv, RemoveOld PROVE KeptInv'
<1>1. /\ written' = written /\ primary' = primary /\ loop'.at # "rename"
      /\ archives' = [n \in DOMAIN archives |-> IF MaxFiles < n THEN <<>> ELSE archives[n]]
  <2>1. loop' \in {[loop EXCEPT !.at = "test"], [loop EXCEPT !.at = "create"]}
    BY DEF RemoveOld
  <2> QED  BY <2>1 DEF RemoveOld, IInv, TypeOK, LoopType
<1>2. Archived(archives) /\ archives \in [Files -> Seq(Entry)]
  BY ArchivesFacts DEF Archived
<1>3. Archived(archives')
  <2>1. IInv'
    BY RemoveOldStep
  <2> QED  BY <2>1 DEF IInv, TypeOK, Archived, Files
<1>4. MaxFiles + 1 \in Files /\ \A i \in Files : i <= MaxFiles => ~(MaxFiles < i)
  BY FilesFacts DEF Files
<1>5. /\ archives'[MaxFiles + 1] = <<>>
      /\ \A i \in Files : i <= MaxFiles => archives[i] = archives'[i]
  BY <1>1, <1>2, <1>4, FilesFacts
<1>6. Piled(archives) = archives[MaxFiles + 1] \o Piled(archives')
  BY <1>2, <1>3, <1>5, PileCut
<1>7. PICK a \in Seq(Entry), b \in Seq(Entry), p \in Seq(Entry) :
        a = archives[MaxFiles + 1] /\ b = Piled(archives') /\ p = primary
  BY <1>2, <1>3, <1>4, PiledTyped, ArchivesFacts
<1>8. \E d \in Seq(Entry) : written = d \o ((a \o b) \o p)
  BY <1>6, <1>7, Zenon DEF KeptInv
<1>9. \E d \in Seq(Entry) : written = d \o (b \o p)
  BY <1>8, OldestGo
<1>10. \E d \in Seq(Entry) : written' = d \o (Piled(archives') \o primary')
  BY <1>1, <1>7, <1>9, Zenon
<1> QED  BY <1>1, <1>10 DEF KeptInv

LEMMA CrashKept == ASSUME IInv, KeptInv, Crash PROVE KeptInv'
<1>1. written' = Piled(archives) \o primary' /\ archives' = archives /\ loop'.at # "rename"
  BY DEF Crash, Kept, Piled, Opening
<1>2. primary' \in Seq(Entry) /\ Piled(archives) \in Seq(Entry)
  BY CrashStep, ArchivesFacts DEF IInv, TypeOK
<1>3. PICK w \in Seq(Entry) : w = Piled(archives) \o primary'
  BY <1>2, Joint, Zenon
<1>4. <<>> \o w = w /\ <<>> \in Seq(Entry)
  BY NoneAdded
<1>5. \E d \in Seq(Entry) : written' = d \o (Piled(archives') \o primary')
  BY <1>1, <1>3, <1>4, Zenon
<1> QED  BY <1>1, <1>5 DEF KeptInv

LEMMA NextKept == ASSUME IInv, KeptInv, [Next]_vars PROVE KeptInv'
<1>1. ASSUME NEW t \in Threads, Call(t) \/ Log(t) PROVE KeptInv'
  BY <1>1, KeptFrame DEF Call, Log, Lock, Room, Store, Advance, StoreNowhere, Check, Signal, Notified
<1>2. CASE Open \/ Create \/ Test \/ Pop \/ Listen \/ Poll
  <2>1. loop'.at # "rename"
    BY <1>2 DEF IInv, TypeOK, LoopType, Open, Create, Test, Pop, Listen, Poll
  <2> QED  BY <1>2, <2>1, KeptFrame DEF Open, Create, Test, Pop, Listen, Poll
<1>3. CASE Release \/ Take \/ Close \/ Reopen
  <2>1. loop'.at # "rename" \/ loop'.seq = MaxFiles
    BY <1>3 DEF IInv, TypeOK, LoopType, Release, Take, Close, Reopen
  <2> QED  BY <1>3, <2>1, KeptFrame DEF Release, Take, Close, Reopen
<1>4. CASE Write \/ Rename \/ RemoveOld \/ Crash
  BY <1>4, WriteKept, RenameKept, RemoveOldKept, CrashKept
<1>5. CASE Main
  BY <1>5, KeptFrame DEF Main, Flush, FlushHead, FlushTail, FlushFile, FlushSync, FlushReturn,
     CloseLog, CloseJoin, CloseFree
<1>6. CASE UNCHANGED vars
  BY <1>6, KeptFrame DEF vars
<1> QED  BY <1>1, <1>2, <1>3, <1>4, <1>5, <1>6 DEF Next, Loop, Rotate

LEMMA InitPile == ASSUME Init PROVE Piled(archives) = <<>>
<1>1. Archived(archives) /\ \A n \in Files : archives[n] = <<>>
  BY DEF Init, Archived, Files
<1>2. PICK g : Piles(g, archives) /\ Piled(archives) = g[0]
  BY <1>1, PilesExist
<1> DEFINE T == {m \in Nat : m <= MaxFiles + 1 => g[(MaxFiles + 1) - m] = <<>>}
<1>3. 0 \in T
  BY <1>2, FilesFacts DEF Piles
<1>4. ASSUME NEW m \in T \cap Nat PROVE m + 1 \in T
  <2> SUFFICES ASSUME m + 1 <= MaxFiles + 1
               PROVE  g[(MaxFiles + 1) - (m + 1)] = <<>>
    OBVIOUS
  <2>1. /\ (MaxFiles + 1) - m \in Files /\ m <= MaxFiles + 1
        /\ ((MaxFiles + 1) - m) - 1 = (MaxFiles + 1) - (m + 1)
    BY FilesFacts DEF Files
  <2>2. g[(MaxFiles + 1) - (m + 1)] = <<>> \o <<>>
    BY <1>1, <1>2, <2>1 DEF Piles
  <2> QED  BY <2>2, NoneAdded
<1> HIDE DEF T
<1>5. Nat \subseteq T
  BY <1>3, <1>4, SetInduction, Zenon
<1>6. MaxFiles + 1 \in T /\ (MaxFiles + 1) - (MaxFiles + 1) = 0
  BY <1>5, FilesFacts
<1> QED  BY <1>2, <1>6, FilesFacts DEF T

LEMMA InitKept == Init => KeptInv
<1> SUFFICES ASSUME Init PROVE KeptInv
  OBVIOUS
<1>1. written = <<>> /\ primary = <<>> /\ loop.at # "rename"
  BY DEF Init, Opening
<1>2. Piled(archives) = <<>>
  BY InitPile
<1>3. <<>> \in Seq(Entry) /\ <<>> \o <<>> = <<>>
  BY NoneAdded
<1>4. \E d \in Seq(Entry) : written = d \o (Piled(archives) \o primary)
  BY <1>1, <1>2, <1>3, Zenon
<1> QED  BY <1>1, <1>4 DEF KeptInv

LEMMA KeptInvariance == Spec => [](IInv /\ KeptInv)
<1>1. Init => IInv /\ KeptInv
  BY InitInv, InitKept
<1>2. IInv /\ KeptInv /\ [Next]_vars => IInv' /\ KeptInv'
  BY NextInv, NextKept
<1> QED  BY <1>1, <1>2, PTL DEF Spec

\* The archives from the oldest to the first, and the log file, hold the entries
\* written last, in order and without a gap, in the middle of a rotation as well,
\* and when the process dies in one, however often.
THEOREM FilesInOrder == Spec => []KeptInOrder
<1>1. IInv /\ KeptInv => KeptInOrder
  <2> SUFFICES ASSUME IInv, KeptInv PROVE KeptInOrder
    OBVIOUS
  <2>1. PICK d \in Seq(Entry) : written = d \o (Piled(archives) \o primary)
    BY DEF KeptInv
  <2>2. PICK k \in Seq(Entry) : k = Piled(archives) \o primary
    BY ArchivesFacts, Joint, Zenon
  <2>3. IsSuffix(k, d \o k)
    BY SuffixOf
  <2>4. Kept(primary) = k /\ written = d \o k
    BY <2>1, <2>2, Zenon DEF Kept, Piled
  <2> QED  BY <2>3, <2>4, Zenon DEF KeptInOrder
<1> QED  BY <1>1, KeptInvariance, PTL

-----------------------------------------------------------------------------
(* What goes *)

\* The log file grows to MaxSize and starts again; after the process died it may
\* grow further, if ftell says 0 of a file that is there.
SizeInv ==
  /\ loop.at # "fopen" => size <= Len(primary)
  /\ loop.at = "fopen" => primary = <<>>
  /\ loop.at \in {"fclose", "rename"} => size >= MaxSize

\* On the way there is no archive of this number.
Hole(n) == loop.at = "rename" /\ n = loop.seq + 1

\* The numbers below n that miss their archive, but for the hole
Below(n) == {m \in Files : m < n /\ archives[m] = <<>> /\ ~Hole(m)}

\* Archives are full, and below one of them as many are missing as the process
\* died times, at most.
StackInv ==
  /\ AllFull(archives)
  /\ \A n \in Files : archives[n] # <<>> => Cardinality(Below(n)) <= crashes
  /\ crashes = 0 /\ loop.at \notin {"rename", "fopen", "remove"} => archives[MaxFiles + 1] = <<>>

\* Max_files full files are kept, one less for each time the process died, or
\* everything is.
LeftInv == Len(Kept(primary)) >= (MaxFiles - crashes) * MaxSize \/ written = Kept(primary)

RetainInv == SizeInv /\ StackInv /\ LeftInv

LEMMA BelowFacts ==
  ASSUME NEW n
  PROVE  Below(n) \subseteq Files /\ IsFiniteSet(Below(n)) /\ Cardinality(Below(n)) \in Nat
<1>1. Below(n) \subseteq Files
  BY DEF Below
<1> QED  BY <1>1, MissingFinite

LEMMA FewerBelow ==
  ASSUME NEW S \in SUBSET Files, NEW T \in SUBSET S
  PROVE  Cardinality(T) <= Cardinality(S)
BY MissingFinite, FS_Subset

\* One number is put for another.
LEMMA OneForAnother ==
  ASSUME NEW S \in SUBSET Files, NEW a \in S, NEW b \in Files,
         NEW T \in SUBSET ((S \ {a}) \cup {b})
  PROVE  Cardinality(T) <= Cardinality(S)
<1>1. IsFiniteSet(S) /\ Cardinality(S) \in Nat
  BY MissingFinite
<1>2. IsFiniteSet(S \ {a}) /\ Cardinality(S \ {a}) = Cardinality(S) - 1
  BY <1>1, FS_RemoveElement
<1>3. Cardinality((S \ {a}) \cup {b}) \in {Cardinality(S \ {a}), Cardinality(S \ {a}) + 1}
  BY <1>2, FS_AddElement, Zenon
<1>4. (S \ {a}) \cup {b} \subseteq Files /\ T \subseteq Files
  OBVIOUS
<1>5. Cardinality((S \ {a}) \cup {b}) \in Nat /\ Cardinality(T) \in Nat
  BY <1>4, MissingFinite
<1>6. Cardinality(T) <= Cardinality((S \ {a}) \cup {b})
  BY <1>4, FewerBelow
<1> QED  BY <1>1, <1>2, <1>3, <1>5, <1>6

LEMMA OneMore ==
  ASSUME NEW S \in SUBSET Files, NEW a \in Files, NEW T \in SUBSET (S \cup {a})
  PROVE  Cardinality(T) <= Cardinality(S) + 1
<1>1. IsFiniteSet(S) /\ Cardinality(S) \in Nat
  BY MissingFinite
<1>2. Cardinality(S \cup {a}) \in {Cardinality(S), Cardinality(S) + 1}
  BY <1>1, FS_AddElement, Zenon
<1>3. S \cup {a} \subseteq Files /\ T \subseteq Files
  OBVIOUS
<1>4. Cardinality(S \cup {a}) \in Nat /\ Cardinality(T) \in Nat
  BY <1>3, MissingFinite
<1>5. Cardinality(T) <= Cardinality(S \cup {a})
  BY <1>3, FewerBelow
<1> QED  BY <1>1, <1>2, <1>4, <1>5

\* What is left where no more are missing than one for each time the process
\* died, and one of the max_files + 1.
LEMMA EnoughLeft ==
  ASSUME NEW A, Archived(A), AllFull(A), NEW c \in Nat, Cardinality(Missing(A)) <= c + 1,
         NEW p \in Seq(Entry)
  PROVE  Len(Piled(A) \o p) >= (MaxFiles - c) * MaxSize
<1>1. PICK b \in Seq(Entry) : b = Piled(A)
  BY PiledTyped
<1>2. Len(b \o p) >= Len(b) /\ Len(b) \in Nat /\ Len(b \o p) \in Nat
  OBVIOUS
<1>3. PICK k \in Nat : k = Cardinality(Missing(A))
  BY MissingFinite DEF Missing
<1>4. MaxFiles - c \in Int /\ (MaxFiles + 1) - k \in Int /\ MaxFiles - c <= (MaxFiles + 1) - k
  BY <1>3, FilesFacts
<1>5. /\ (MaxFiles - c) * MaxSize \in Int /\ ((MaxFiles + 1) - k) * MaxSize \in Int
      /\ (MaxFiles - c) * MaxSize <= ((MaxFiles + 1) - k) * MaxSize
  BY <1>4, MoreFiles
<1>6. Len(b) >= ((MaxFiles + 1) - k) * MaxSize
  BY <1>1, <1>3, PileHolds
<1>7. Len(b \o p) >= (MaxFiles - c) * MaxSize
  BY <1>2, <1>5, <1>6
<1> QED  BY <1>1, <1>7, Zenon

LEMMA RetainFrame ==
  ASSUME RetainInv, UNCHANGED <<archives, primary, written, size, crashes>>,
         \/ loop' = loop
         \/ {loop.at, loop'.at} \cap {"open", "fopen", "fclose", "rename", "remove"} = {}
  PROVE  RetainInv'
<1>1. SizeInv /\ StackInv /\ LeftInv
  BY DEF RetainInv
<1>2. \A n : Hole(n)' = Hole(n)
  BY DEF Hole
<1>3. \A n : Below(n)' = Below(n)
  BY <1>2 DEF Below
<1>4. SizeInv'
  BY <1>1 DEF SizeInv
<1>5. StackInv'
  BY <1>1, <1>3 DEF StackInv
<1>6. LeftInv'
  BY <1>1, Zenon DEF LeftInv, Kept
<1> QED  BY <1>4, <1>5, <1>6 DEF RetainInv

LEMMA OpenRetain == ASSUME IInv, RetainInv, Open PROVE RetainInv'
<1>1. SizeInv /\ StackInv /\ LeftInv
  BY DEF RetainInv
<1>2. UNCHANGED <<archives, primary, written, crashes>> /\ loop.at = "open"
  BY DEF Open, In, bounds
<1>3. size' \in {0, Len(primary)} /\ Len(primary) \in Nat
  BY PrimaryIsSeq DEF Open, IInv
<1>4. loop'.at = "create" \/ (loop'.at = "fclose" /\ MaxSize <= size')
  BY DEF Open, To, IInv, TypeOK, LoopType
<1>5. \A n : ~Hole(n) /\ ~Hole(n)'
  BY <1>2, <1>4 DEF Hole
<1>6. \A n : Below(n)' = Below(n)
  BY <1>2, <1>5 DEF Below
<1>7. SizeInv'
  BY <1>2, <1>3, <1>4, FilesFacts DEF SizeInv
<1>8. StackInv'
  BY <1>1, <1>2, <1>6 DEF StackInv
<1>9. LeftInv'
  BY <1>1, <1>2, Zenon DEF LeftInv, Kept
<1> QED  BY <1>7, <1>8, <1>9 DEF RetainInv

LEMMA WriteRetain == ASSUME IInv, RetainInv, Write PROVE RetainInv'
<1>1. SizeInv /\ StackInv /\ LeftInv
  BY DEF RetainInv
<1>2. PICK e \in Entry : e = slots[head]
  <2>1. loop.at = "write"
    BY DEF Write, In
  <2>2. slots[head] \in Entry
    BY <2>1, Counts DEF IInv, RingInv
  <2> QED  BY <2>2
<1>3. /\ written' = Append(written, e) /\ primary' = Append(primary, e) /\ crashes' = crashes
      /\ archives' = archives /\ size' = size + 1 /\ loop.at = "write"
  BY <1>2 DEF Write, In, bounds
<1>4. Len(primary') = Len(primary) + 1 /\ size <= Len(primary) /\ size \in Nat
      /\ Len(primary) \in Nat
  BY <1>1, <1>3, PrimaryIsSeq DEF IInv, TypeOK, SizeInv
<1>5. loop'.at = "test" \/ (loop'.at = "fclose" /\ MaxSize <= size')
  BY DEF Write, To, IInv, TypeOK, LoopType
<1>6. \A n : ~Hole(n) /\ ~Hole(n)'
  BY <1>3, <1>5 DEF Hole
<1>7. \A n : Below(n)' = Below(n)
  BY <1>3, <1>6 DEF Below
<1>8. SizeInv'
  BY <1>3, <1>4, <1>5, FilesFacts DEF SizeInv
<1>9. StackInv'
  BY <1>1, <1>3, <1>7 DEF StackInv
<1>10. LeftInv'
  <2>1. PICK q \in Seq(Entry), p \in Seq(Entry), l \in Seq(Entry) :
           q = Piled(archives) /\ p = primary /\ l = <<e>>
    <3>1. <<e>> \in Seq(Entry)
      OBVIOUS
    <3> QED  BY <3>1, ArchivesFacts
  <2>2. PICK k \in Seq(Entry) : k = q \o p
    BY Joint, Zenon
  <2>3. \A x \in Seq(Entry) : Append(x, e) = x \o l
    BY <2>1
  <2>4. Kept(primary) = k
    BY <2>1, <2>2, Zenon DEF Kept, Piled
  <2>5. Kept(primary)' = q \o (p \o l)
    BY <1>3, <2>1, <2>3, Zenon DEF Kept, Piled
  <2>6. q \o (p \o l) = k \o l
    BY <2>2, Assoc, ZenonT(30)
  <2>7. Len(k \o l) = Len(k) + 1
    BY <2>1
  <2>8. CASE written = Kept(primary)
    BY <1>3, <2>2, <2>3, <2>4, <2>5, <2>6, <2>8, Zenon DEF LeftInv
  <2>9. CASE Len(Kept(primary)) >= (MaxFiles - crashes) * MaxSize
    <3>1. Len(k) \in Nat /\ (MaxFiles - crashes) * MaxSize \in Int
      BY FilesFacts DEF IInv, TypeOK
    <3>2. Len(k) + 1 >= (MaxFiles - crashes) * MaxSize
      BY <2>4, <2>9, <3>1
    <3> QED  BY <1>3, <2>5, <2>6, <2>7, <3>2 DEF LeftInv
  <2> QED  BY <1>1, <2>8, <2>9 DEF LeftInv
<1> QED  BY <1>8, <1>9, <1>10 DEF RetainInv

LEMMA CloseRetain == ASSUME IInv, RetainInv, Close PROVE RetainInv'
<1>1. SizeInv /\ StackInv /\ LeftInv
  BY DEF RetainInv
<1>2. /\ UNCHANGED <<archives, primary, written, size, crashes>> /\ loop.at = "fclose"
      /\ loop'.at = "rename" /\ loop'.seq = MaxFiles
  BY DEF Close, In, bounds, IInv, TypeOK, LoopType
<1>3. \A n : ~Hole(n) /\ (Hole(n)' <=> n = MaxFiles + 1)
  BY <1>2 DEF Hole
<1>4. \A n \in Files : Below(n)' = Below(n)
  <2> TAKE n \in Files
  <2>1. \A m \in Files : m < n => m # MaxFiles + 1
    BY FilesFacts DEF Files
  <2> QED  BY <1>2, <1>3, <2>1 DEF Below
<1>5. SizeInv'
  BY <1>1, <1>2 DEF SizeInv
<1>6. StackInv'
  BY <1>1, <1>2, <1>4 DEF StackInv
<1>7. LeftInv'
  BY <1>1, <1>2, Zenon DEF LeftInv, Kept
<1> QED  BY <1>5, <1>6, <1>7 DEF RetainInv

\* An archive moves up, into the hole; or over the one above max_files that a
\* rotation left when the process died.
LEMMA ArchiveRetain ==
  ASSUME IInv, KeptInv, RetainInv, Rename, loop.seq > 0
  PROVE  RetainInv'
<1>1. SizeInv /\ StackInv /\ LeftInv
  BY DEF RetainInv
<1>2. PICK n \in 1 .. MaxFiles : n = loop.seq
  BY FilesFacts DEF IInv, TypeOK, LoopType
<1>3. /\ UNCHANGED <<primary, written, size, crashes>> /\ loop.at = "rename" /\ loop'.at = "rename"
      /\ archives' = Renamed(n) /\ loop'.seq = n - 1
  BY <1>2 DEF Rename, In, bounds, IInv, TypeOK, LoopType
<1>4. n \in Files /\ n + 1 \in Files /\ (n - 1) + 1 = n /\ n # n + 1 /\ n < n + 1 /\ n \in Nat
  BY FilesFacts DEF Files
<1>5. \A m : (Hole(m) <=> m = n + 1) /\ (Hole(m)' <=> m = n)
  BY <1>2, <1>3, <1>4 DEF Hole
<1>6. archives[n + 1] = <<>> \/ n = MaxFiles
  <2>1. n < MaxFiles \/ n = MaxFiles
    BY FilesFacts
  <2> QED  BY <1>2, <1>3, <2>1 DEF KeptInv
<1>7. Archived(archives) /\ archives \in [Files -> Seq(Entry)] /\ Files \subseteq Nat
  BY ArchivesFacts, FilesFacts DEF Archived, Files
<1>8. PICK c \in Nat : c = crashes
  BY DEF IInv, TypeOK
<1>9. SizeInv'
  BY <1>1, <1>3 DEF SizeInv
<1>10. CASE archives[n] = <<>>
  <2>1. archives' = archives
    BY <1>3, <1>10 DEF Renamed
  <2>2. ASSUME NEW i \in Files, archives'[i] # <<>> PROVE Cardinality(Below(i)') <= c
    <3>1. Cardinality(Below(i)) <= c /\ Cardinality(Below(i)) \in Nat /\ i # n
      BY <1>1, <1>8, <1>10, <2>1, <2>2, BelowFacts DEF StackInv
    <3>2. Cardinality(Below(i)') <= Cardinality(Below(i)) /\ Cardinality(Below(i)') \in Nat
      <4>1. \A m : m \in Below(i)' <=> m \in Files /\ m < i /\ archives[m] = <<>> /\ m # n
        BY <1>5, <2>1 DEF Below
      <4>2. \A m : m \in Below(i) <=> m \in Files /\ m < i /\ archives[m] = <<>> /\ m # n + 1
        BY <1>5 DEF Below
      <4>3. CASE n < i
        <5>1. n \in Below(i)
          BY <1>4, <1>10, <4>2, <4>3
        <5>2. Below(i)' \subseteq (Below(i) \ {n}) \cup {n + 1}
          BY <4>1, <4>2
        <5> QED  BY <1>4, <4>1, <5>1, <5>2, BelowFacts, OneForAnother, MissingFinite
      <4>4. CASE ~(n < i)
        <5>1. ~(n + 1 < i)
          BY <1>4, <1>7, <4>4
        <5>2. Below(i)' \subseteq Below(i)
          BY <4>1, <4>2, <5>1
        <5> QED  BY <4>1, <5>2, BelowFacts, FewerBelow, MissingFinite
      <4> QED  BY <4>3, <4>4
    <3> QED  BY <3>1, <3>2
  <2>3. StackInv'
    BY <1>1, <1>3, <1>8, <2>1, <2>2 DEF StackInv
  <2>4. LeftInv'
    BY <1>1, <1>3, <2>1, Zenon DEF LeftInv, Kept
  <2> QED  BY <1>9, <2>3, <2>4 DEF RetainInv
<1>11. CASE archives[n] # <<>>
  <2>1. archives' = [archives EXCEPT ![n + 1] = archives[n], ![n] = <<>>]
    BY <1>3, <1>11 DEF Renamed
  <2>2. /\ archives'[n + 1] = archives[n] /\ archives'[n] = <<>>
        /\ \A i \in Files : i # n /\ i # n + 1 => archives'[i] = archives[i]
    BY <1>4, <1>7, <2>1
  <2>3. \A i, m : m \in Below(i)' <=> m \in Files /\ m < i /\ archives'[m] = <<>> /\ m # n
    BY <1>5 DEF Below
  <2>4. \A i, m : m \in Below(i) <=> m \in Files /\ m < i /\ archives[m] = <<>> /\ m # n + 1
    BY <1>5 DEF Below
  <2>5. ASSUME NEW i \in Files, archives'[i] # <<>> PROVE Cardinality(Below(i)') <= c
    <3>1. CASE i = n + 1
      <4>1. Cardinality(Below(n)) <= c /\ Cardinality(Below(n)) \in Nat
        BY <1>1, <1>4, <1>8, <1>11, BelowFacts DEF StackInv
      <4>2. \A m \in Files : m < n + 1 /\ m # n => m < n /\ m # n + 1
        BY <1>4, <1>7
      <4>3. Below(i)' \subseteq Below(n)
        BY <2>2, <2>3, <2>4, <3>1, <4>2
      <4> QED  BY <2>3, <4>1, <4>3, BelowFacts, FewerBelow, MissingFinite
    <3>2. CASE i # n + 1
      <4>1. i # n /\ archives[i] # <<>>
        BY <2>2, <2>5, <3>2
      <4>2. Cardinality(Below(i)) <= c /\ Cardinality(Below(i)) \in Nat
        BY <1>1, <1>8, <4>1, BelowFacts DEF StackInv
      <4>3. Below(i)' \subseteq Below(i)
        BY <1>11, <2>2, <2>3, <2>4
      <4> QED  BY <2>3, <4>2, <4>3, BelowFacts, FewerBelow, MissingFinite
    <3> QED  BY <3>1, <3>2
  <2>6. AllFull(archives')
    BY <1>1, <1>4, <2>2 DEF StackInv, AllFull
  <2>7. StackInv'
    BY <1>3, <1>8, <2>5, <2>6 DEF StackInv
  <2>8. Archived(archives')
    <3>1. IInv'
      BY RenameStep
    <3> QED  BY <3>1 DEF IInv, TypeOK, Archived, Files
  <2>9. CASE archives[n + 1] = <<>>
    <3>1. Piled(archives) = archives[n + 1] \o Piled(archives')
      BY <1>6, <1>7, <2>2, <2>8, PileRenamed
    <3>2. PICK b \in Seq(Entry) : b = Piled(archives')
      BY <2>8, PiledTyped
    <3>3. Piled(archives) = Piled(archives')
      BY <2>9, <3>1, <3>2, NoneAdded, Zenon
    <3>4. Kept(primary)' = Kept(primary)
      BY <1>3, <3>3, Zenon DEF Kept, Piled
    <3>5. LeftInv'
      BY <1>1, <1>3, <3>4, Zenon DEF LeftInv
    <3> QED  BY <1>9, <2>7, <3>5 DEF RetainInv
  <2>10. CASE archives[n + 1] # <<>>
    <3>1. n = MaxFiles /\ Cardinality(Below(n + 1)) <= c
      BY <1>1, <1>4, <1>6, <1>8, <2>10 DEF StackInv
    <3>2. Missing(archives') \subseteq Below(n + 1) \cup {n}
      <4>1. \A m \in Files : m < n + 1 \/ m = n + 1
        BY <3>1 DEF Files
      <4>2. \A m \in Files : archives'[m] = <<>> => m \in Below(n + 1) \/ m = n
        BY <1>4, <1>11, <2>2, <2>4, <4>1
      <4> QED  BY <4>2 DEF Missing
    <3>3. Cardinality(Missing(archives')) <= Cardinality(Below(n + 1)) + 1
      BY <1>4, <3>2, BelowFacts, OneMore
    <3>4. Cardinality(Missing(archives')) <= c + 1
      <4>1. Cardinality(Below(n + 1)) \in Nat /\ Cardinality(Missing(archives')) \in Nat
        BY BelowFacts, MissingFinite DEF Missing
      <4> QED  BY <3>1, <3>3, <4>1
    <3>5. PICK p \in Seq(Entry) : p = primary
      BY ArchivesFacts
    <3>6. Len(Piled(archives') \o p) >= (MaxFiles - c) * MaxSize
      BY <2>6, <2>8, <3>4, EnoughLeft
    <3>7. LeftInv'
      BY <1>3, <1>8, <3>5, <3>6, Zenon DEF LeftInv, Kept, Piled
    <3> QED  BY <1>9, <2>7, <3>7 DEF RetainInv
  <2> QED  BY <2>9, <2>10
<1> QED  BY <1>10, <1>11

\* The log file becomes the first archive.
LEMMA FirstRetain ==
  ASSUME IInv, KeptInv, RetainInv, Rename, ~(loop.seq > 0)
  PROVE  RetainInv'
<1>1. SizeInv /\ StackInv /\ LeftInv
  BY DEF RetainInv
<1>2. loop.seq = 0 /\ 0 < MaxFiles /\ 0 + 1 = 1
  BY FilesFacts DEF IInv, TypeOK, LoopType
<1>3. /\ UNCHANGED <<written, size, crashes>> /\ loop.at = "rename" /\ loop'.at = "fopen"
      /\ archives' = [archives EXCEPT ![1] = primary] /\ primary' = <<>>
  BY <1>2 DEF Rename, In, To, bounds, IInv, TypeOK, LoopType
<1>4. \A m : (Hole(m) <=> m = 1) /\ ~Hole(m)'
  BY <1>2, <1>3 DEF Hole
<1>5. 1 \in Files /\ archives[1] = <<>>
  BY <1>2, <1>3, FilesFacts DEF KeptInv, Files
<1>6. Archived(archives) /\ archives \in [Files -> Seq(Entry)] /\ primary \in Seq(Entry)
  BY ArchivesFacts DEF Archived
<1>7. archives'[1] = primary /\ \A i \in Files : i # 1 => archives'[i] = archives[i]
  BY <1>3, <1>5, <1>6
<1>8. Len(primary) >= MaxSize /\ primary # <<>>
  <2>1. size <= Len(primary) /\ MaxSize <= size /\ size \in Nat /\ Len(primary) \in Nat
    BY <1>1, <1>3, PrimaryIsSeq DEF SizeInv, IInv, TypeOK
  <2>2. Len(primary) >= MaxSize /\ Len(primary) # 0 /\ Len(<<>>) = 0
    BY <2>1, FilesFacts
  <2> QED  BY <2>2
<1>9. SizeInv'
  BY <1>3 DEF SizeInv
<1>10. StackInv'
  <2>1. AllFull(archives')
    BY <1>1, <1>7, <1>8 DEF StackInv, AllFull
  <2>2. ASSUME NEW i \in Files, archives'[i] # <<>> PROVE Cardinality(Below(i)') <= crashes
    <3>1. CASE i = 1
      <4>1. Below(i)' = {}
        BY <3>1 DEF Below, Files
      <4>2. Cardinality(Below(i)') = 0
        BY <4>1, FS_EmptySet
      <4> QED  BY <4>2 DEF IInv, TypeOK
    <3>2. CASE i # 1
      <4>1. Cardinality(Below(i)) <= crashes /\ Cardinality(Below(i)) \in Nat /\ crashes \in Nat
        BY <1>1, <1>7, <2>2, <3>2, BelowFacts DEF StackInv, IInv, TypeOK
      <4>2. Below(i)' \subseteq Below(i)
        BY <1>4, <1>7, <1>8 DEF Below
      <4>3. Below(i)' \subseteq Files
        BY DEF Below
      <4> QED  BY <4>1, <4>2, <4>3, BelowFacts, FewerBelow, MissingFinite
    <3> QED  BY <3>1, <3>2
  <2> QED  BY <1>3, <2>1, <2>2 DEF StackInv
<1>11. LeftInv'
  <2>1. Archived(archives')
    <3>1. IInv'
      BY RenameStep
    <3> QED  BY <3>1 DEF IInv, TypeOK, Archived, Files
  <2>2. \A i \in Files : i # 1 => archives[i] = archives'[i]
    BY <1>7
  <2>3. Piled(archives') = Piled(archives) \o primary
    BY <1>5, <1>6, <1>7, <2>1, <2>2, PileFirst
  <2>4. PICK b \in Seq(Entry) : b = Piled(archives')
    BY <2>1, PiledTyped
  <2>5. b \o <<>> = b
    BY NoneAdded, Zenon
  <2>6. Kept(primary)' = Kept(primary)
    BY <1>3, <2>3, <2>4, <2>5, Zenon DEF Kept, Piled
  <2> QED  BY <1>1, <1>3, <2>6, Zenon DEF LeftInv
<1> QED  BY <1>9, <1>10, <1>11 DEF RetainInv

LEMMA ReopenRetain == ASSUME IInv, RetainInv, Reopen PROVE RetainInv'
<1>1. SizeInv /\ StackInv /\ LeftInv
  BY DEF RetainInv
<1>2. /\ UNCHANGED <<archives, primary, written, crashes>> /\ loop.at = "fopen" /\ loop'.at = "remove"
      /\ size' = 0
  BY DEF Reopen, In, To, bounds, IInv, TypeOK, LoopType
<1>3. \A n : ~Hole(n) /\ ~Hole(n)'
  BY <1>2 DEF Hole
<1>4. \A n : Below(n)' = Below(n)
  BY <1>2, <1>3 DEF Below
<1>5. Len(primary) \in Nat
  BY PrimaryIsSeq DEF IInv
<1>6. SizeInv'
  BY <1>2, <1>5 DEF SizeInv
<1>7. StackInv'
  BY <1>1, <1>2, <1>4 DEF StackInv
<1>8. LeftInv'
  BY <1>1, <1>2, Zenon DEF LeftInv, Kept
<1> QED  BY <1>6, <1>7, <1>8 DEF RetainInv

\* The archive that goes was full, and so are those that stay.
LEMMA RemoveOldRetain == ASSUME IInv, RetainInv, RemoveOld PROVE RetainInv'
<1>1. SizeInv /\ StackInv /\ LeftInv
  BY DEF RetainInv
<1>2. /\ UNCHANGED <<primary, written, size, crashes>> /\ loop.at = "remove"
      /\ loop'.at \in {"test", "create"}
      /\ archives' = [n \in DOMAIN archives |-> IF MaxFiles < n THEN <<>> ELSE archives[n]]
  BY DEF RemoveOld, In, To, file, bounds, IInv, TypeOK, LoopType
<1>3. \A n : ~Hole(n) /\ ~Hole(n)'
  BY <1>2 DEF Hole
<1>4. Archived(archives) /\ archives \in [Files -> Seq(Entry)]
  BY ArchivesFacts DEF Archived
<1>5. /\ MaxFiles + 1 \in Files /\ Files \subseteq Nat
      /\ \A i \in Files : MaxFiles < i <=> i = MaxFiles + 1
      /\ \A i, m \in Files : m < i => m # MaxFiles + 1
      /\ \A m \in Files : m # MaxFiles + 1 => m < MaxFiles + 1
  BY FilesFacts DEF Files
<1>6. archives'[MaxFiles + 1] = <<>> /\ \A i \in Files : i # MaxFiles + 1 => archives'[i] = archives[i]
  BY <1>2, <1>4, <1>5
<1>7. PICK c \in Nat : c = crashes
  BY DEF IInv, TypeOK
<1>8. SizeInv'
  BY <1>1, <1>2 DEF SizeInv
<1>9. \A i \in Files : Below(i)' = Below(i)
  BY <1>3, <1>5, <1>6 DEF Below
<1>10. AllFull(archives')
  BY <1>1, <1>6 DEF StackInv, AllFull
<1>11. StackInv'
  BY <1>1, <1>2, <1>6, <1>9, <1>10 DEF StackInv
<1>12. LeftInv'
  <2>1. CASE archives[MaxFiles + 1] = <<>>
    <3>1. \A i \in Files : archives'[i] = archives[i]
      BY <1>6, <2>1
    <3>2. archives' = archives
      BY <1>2, <1>4, <3>1
    <3> QED  BY <1>1, <1>2, <3>2, Zenon DEF LeftInv, Kept
  <2>2. CASE archives[MaxFiles + 1] # <<>>
    <3>1. Archived(archives')
      <4>1. IInv'
        BY RemoveOldStep
      <4> QED  BY <4>1 DEF IInv, TypeOK, Archived, Files
    <3>2. Cardinality(Below(MaxFiles + 1)) <= c
      BY <1>1, <1>5, <1>7, <2>2 DEF StackInv
    <3>3. Missing(archives') \subseteq Below(MaxFiles + 1) \cup {MaxFiles + 1}
      BY <1>3, <1>5, <1>6 DEF Missing, Below
    <3>4. Cardinality(Missing(archives')) <= Cardinality(Below(MaxFiles + 1)) + 1
      BY <1>5, <3>3, BelowFacts, OneMore
    <3>5. Cardinality(Missing(archives')) <= c + 1
      <4>1. Cardinality(Below(MaxFiles + 1)) \in Nat /\ Cardinality(Missing(archives')) \in Nat
        BY BelowFacts, MissingFinite DEF Missing
      <4> QED  BY <3>2, <3>4, <4>1
    <3>6. PICK p \in Seq(Entry) : p = primary
      BY ArchivesFacts
    <3>7. Len(Piled(archives') \o p) >= (MaxFiles - c) * MaxSize
      BY <1>10, <3>1, <3>5, EnoughLeft
    <3> QED  BY <1>2, <1>7, <3>6, <3>7, Zenon DEF LeftInv, Kept, Piled
  <2> QED  BY <2>1, <2>2
<1> QED  BY <1>8, <1>11, <1>12 DEF RetainInv

\* A process that dies on the way leaves the hole.
LEMMA CrashRetain == ASSUME IInv, RetainInv, Crash PROVE RetainInv'
<1>1. SizeInv /\ StackInv /\ LeftInv
  BY DEF RetainInv
<1>2. /\ archives' = archives /\ crashes' = crashes + 1 /\ loop'.at = "open" /\ size' = 0
      /\ written' = Kept(primary')
  BY DEF Crash, Opening
<1>3. Len(primary') \in Nat /\ crashes \in Nat
  BY CrashStep DEF IInv, TypeOK
<1>4. SizeInv'
  BY <1>2, <1>3 DEF SizeInv
<1>5. ASSUME NEW n \in Files, archives[n] # <<>> PROVE Cardinality(Below(n)') <= crashes + 1
  <2>1. Cardinality(Below(n)) <= crashes /\ Cardinality(Below(n)) \in Nat
    BY <1>1, <1>5, BelowFacts DEF StackInv
  <2>2. Below(n)' \subseteq Files
    BY DEF Below
  <2>3. loop.seq + 1 \in Files
    BY FilesFacts DEF IInv, TypeOK, LoopType, Files
  <2>4. Below(n)' \subseteq Below(n) \cup {loop.seq + 1}
    BY <1>2 DEF Below, Hole
  <2>5. Cardinality(Below(n)') <= Cardinality(Below(n)) + 1
    BY <2>3, <2>4, BelowFacts, OneMore
  <2> QED  BY <1>3, <2>1, <2>2, <2>5, MissingFinite
<1>6. StackInv'
  BY <1>1, <1>2, <1>3, <1>5 DEF StackInv
<1>7. LeftInv'
  BY <1>2, Zenon DEF LeftInv, Kept
<1> QED  BY <1>4, <1>6, <1>7 DEF RetainInv

LEMMA NextRetain == ASSUME IInv, KeptInv, RetainInv, [Next]_vars PROVE RetainInv'
<1>1. ASSUME NEW t \in Threads, Call(t) \/ Log(t) PROVE RetainInv'
  BY <1>1, RetainFrame DEF Call, Log, Lock, Room, Store, Advance, StoreNowhere, Check, Signal, Notified
<1>2. CASE Create \/ Test \/ Pop \/ Listen \/ Poll \/ Release \/ Take
  <2>1. {loop.at, loop'.at} \cap {"open", "fopen", "fclose", "rename", "remove"} = {}
    BY <1>2 DEF IInv, TypeOK, LoopType, In, To, Create, Test, Pop, Listen, Poll, Release, Take
  <2> QED  BY <1>2, <2>1, RetainFrame DEF Create, Test, Pop, Listen, Poll, Release, Take
<1>3. CASE Open \/ Write \/ Close \/ Reopen \/ RemoveOld
  BY <1>3, OpenRetain, WriteRetain, CloseRetain, ReopenRetain, RemoveOldRetain
<1>4. CASE Rename \/ Crash
  BY <1>4, ArchiveRetain, FirstRetain, CrashRetain
<1>5. CASE Main
  BY <1>5, RetainFrame DEF Main, Flush, FlushHead, FlushTail, FlushFile, FlushSync, FlushReturn,
     CloseLog, CloseJoin, CloseFree
<1>6. CASE UNCHANGED vars
  BY <1>6, RetainFrame DEF vars
<1> QED  BY <1>1, <1>2, <1>3, <1>4, <1>5, <1>6 DEF Next, Loop, Rotate

LEMMA InitRetain == Init => RetainInv
<1> SUFFICES ASSUME Init PROVE SizeInv /\ StackInv /\ LeftInv
  BY DEF RetainInv
<1>1. written = <<>> /\ primary = <<>> /\ loop.at = "open" /\ size = 0 /\ Len(<<>>) = 0
  BY DEF Init, Opening
<1>2. MaxFiles + 1 \in Files /\ \A n \in Files : archives[n] = <<>>
  BY FilesFacts DEF Init, Files
<1>3. StackInv
  BY <1>1, <1>2 DEF StackInv, AllFull
<1>4. LeftInv
  <2>1. <<>> \in Seq(Entry) /\ <<>> \o <<>> = <<>>
    BY NoneAdded
  <2> QED  BY <1>1, <2>1, InitPile, Zenon DEF LeftInv, Kept, Piled
<1> QED  BY <1>1, <1>3, <1>4 DEF SizeInv

LEMMA RetainInvariance == Spec => [](IInv /\ KeptInv /\ RetainInv)
<1>1. Init => IInv /\ KeptInv /\ RetainInv
  BY InitInv, InitKept, InitRetain
<1>2. IInv /\ KeptInv /\ RetainInv /\ [Next]_vars => IInv' /\ KeptInv' /\ RetainInv'
  BY NextInv, NextKept, NextRetain
<1> QED  BY <1>1, <1>2, PTL DEF Spec

\* An entry goes only when max_files younger files are full, one less for each time
\* the process died; and while it lives, no more archives are left after a
\* rotation.
THEOREM OldestGoLast == Spec => []Retention
<1>1. IInv /\ RetainInv => Retention
  <2> SUFFICES ASSUME IInv, SizeInv, StackInv, LeftInv PROVE Retention
    BY DEF RetainInv
  <2>1. (MaxFiles - crashes) * MaxSize \in Int /\ Len(written) \in Nat
    BY Counts, FilesFacts DEF IInv, TypeOK
  <2>2. Len(Kept(primary)) >= Min2(Len(written), (MaxFiles - crashes) * MaxSize)
    BY <2>1 DEF LeftInv, Min2
  <2> QED  BY <2>2 DEF Retention, StackInv
<1> QED  BY <1>1, RetainInvariance, PTL

-----------------------------------------------------------------------------
(* Flushing *)

OnCall(t) == InRing(t) \/ thr[t].at = "lock"

\* An entry that is on its way to the ring is not in it, nor on another way.
FreshInv ==
  /\ Range(put) \subseteq 1 .. calls
  /\ \A t \in Threads : OnCall(t) =>
       /\ thr[t].entry \in (1 .. calls) \ Range(put)
       /\ \A u \in Threads : OnCall(u) /\ thr[u].entry = thr[t].entry => u = t

\* A file that is not open holds all that was written to it.
FileInv == ~open => synced = Len(primary) /\ loop.at \in {"open", "rename", "fopen", "ended"}

Flushing == main.at \in {"head", "tail", "file", "fflush", "true"}

\* With nothing logged meanwhile the ring is empty once it looked so, and one entry
\* at most is written after the buffers were.
FlushInv ==
  Flushing =>
    /\ due \subseteq Range(put)
    /\ due = Range(put) =>
         /\ main.at = "tail" /\ EmptyAt(main.head) => main.head = head
         /\ main.at \in {"file", "fflush", "true"} => EmptyAt(head)
         /\ main.at = "true" => \/ synced = Len(primary)
                                \/ loop.at # "write" /\ Len(primary) = synced + 1

LEMMA RangeOf ==
  ASSUME NEW s \in Seq(Entry) PROVE \A x : x \in Range(s) <=> \E i \in 1 .. Len(s) : s[i] = x
BY DEF Range

LEMMA FreshFrame ==
  ASSUME FreshInv, UNCHANGED <<put, calls>>,
         \A u \in Threads : OnCall(u)' => OnCall(u) /\ thr'[u].entry = thr[u].entry
  PROVE  FreshInv'
BY DEF FreshInv, Range

LEMMA CallFresh == ASSUME IInv, FreshInv, NEW t \in Threads, Call(t) PROVE FreshInv'
<1>1. /\ put' = put /\ calls' = calls + 1 /\ calls \in Nat
      /\ thr'[t].entry = calls + 1 /\ \A u \in Threads : u # t => thr'[u] = thr[u]
  BY DEF IInv, TypeOK, Call
<1>2. Range(put') = Range(put)
  BY <1>1 DEF Range
<1>3. \A u \in Threads : u # t /\ OnCall(u)' =>
        OnCall(u) /\ thr'[u].entry = thr[u].entry /\ thr[u].entry \in (1 .. calls) \ Range(put)
  BY <1>1 DEF FreshInv, OnCall, InRing
<1>4. calls + 1 \notin Range(put) /\ calls + 1 \notin 1 .. calls
  BY <1>1 DEF FreshInv
<1>5. Range(put') \subseteq 1 .. calls'
  BY <1>1, <1>2 DEF FreshInv
<1>6. ASSUME NEW u \in Threads, OnCall(u)'
      PROVE  /\ thr'[u].entry \in (1 .. calls') \ Range(put')
             /\ \A v \in Threads : OnCall(v)' /\ thr'[v].entry = thr'[u].entry => v = u
  <2>1. thr'[u].entry \in (1 .. calls') \ Range(put')
    BY <1>1, <1>2, <1>3, <1>4, <1>6
  <2>2. ASSUME NEW v \in Threads, OnCall(v)', thr'[v].entry = thr'[u].entry PROVE v = u
    <3>1. CASE u = t \/ v = t
      BY <1>1, <1>3, <1>4, <1>6, <2>2, <3>1
    <3>2. CASE u # t /\ v # t
      BY <1>3, <1>6, <2>2, <3>2 DEF FreshInv
    <3> QED  BY <3>1, <3>2
  <2> QED  BY <2>1, <2>2
<1> QED  BY <1>5, <1>6 DEF FreshInv

LEMMA AdvanceFresh ==
  ASSUME IInv, FreshInv, NEW t \in Threads, Advance(t)
  PROVE  /\ FreshInv'
         /\ thr[t].entry \notin Range(put) /\ Range(put') = Range(put) \cup {thr[t].entry}
<1>1. /\ put' = Append(put, thr[t].entry) /\ calls' = calls /\ OnCall(t)
      /\ thr'[t].at = "check" /\ \A u \in Threads : u # t => thr'[u] = thr[u]
  BY DEF IInv, TypeOK, ThreadType, Idle, OnCall, InRing, At, Advance
<1>2. Range(put') = Range(put) \cup {thr[t].entry}
  <2>1. PICK p \in Seq(Entry), e \in Entry : p = put /\ e = thr[t].entry
    BY <1>1 DEF IInv, TypeOK, CursorInv, OnCall
  <2>2. \A x : x \in Range(Append(p, e)) <=> x \in Range(p) \cup {e}
    <3>1. /\ DOMAIN Append(p, e) = 1 .. Len(p) + 1 /\ DOMAIN p = 1 .. Len(p) /\ Len(p) \in Nat
          /\ Append(p, e)[Len(p) + 1] = e /\ \A i \in 1 .. Len(p) : Append(p, e)[i] = p[i]
      OBVIOUS
    <3> QED  BY <3>1 DEF Range
  <2> QED  BY <1>1, <2>1, <2>2
<1>3. \A u \in Threads : OnCall(u)' => u # t /\ OnCall(u) /\ thr'[u].entry = thr[u].entry
  BY <1>1 DEF OnCall, InRing
<1>4. thr[t].entry \in 1 .. calls /\ thr[t].entry \notin Range(put)
  BY <1>1 DEF FreshInv
<1>5. ASSUME NEW u \in Threads, OnCall(u)'
      PROVE  /\ thr'[u].entry \in (1 .. calls') \ Range(put')
             /\ \A v \in Threads : OnCall(v)' /\ thr'[v].entry = thr'[u].entry => v = u
  BY <1>1, <1>2, <1>3, <1>5 DEF FreshInv
<1>6. Range(put') \subseteq 1 .. calls'
  BY <1>1, <1>2, <1>4 DEF FreshInv
<1> QED  BY <1>2, <1>4, <1>5, <1>6 DEF FreshInv

\* What is kept when the process dies is part of what was put.
LEMMA CrashFresh == ASSUME IInv, KeptInv, FreshInv, Crash PROVE FreshInv'
<1>1. PICK n \in synced .. Len(primary) : primary' = SubSeq(primary, 1, n)
  BY DEF Crash
<1>2. PICK d \in Seq(Entry) : written = d \o (Piled(archives) \o primary)
  BY DEF KeptInv
<1>3. PICK q \in Seq(Entry), p \in Seq(Entry) : q = Piled(archives) /\ p = primary
  BY ArchivesFacts
<1>4. n \in 0 .. Len(p) /\ Len(p) \in Nat
  BY <1>3 DEF IInv, TypeOK
<1>5. put' = q \o SubSeq(p, 1, n) /\ written = d \o (q \o p)
  BY <1>1, <1>2, <1>3, Zenon DEF Crash, Kept, Piled
<1>6. Range(q \o SubSeq(p, 1, n)) \subseteq Range(d \o (q \o p))
  <2>1. PICK r \in Seq(Entry), s \in Seq(Entry), w \in Seq(Entry) :
          r = q \o p /\ s = q \o SubSeq(p, 1, n) /\ w = d \o r
    <3>1. SubSeq(p, 1, n) \in Seq(Entry)
      BY <1>4
    <3>2. q \o p \in Seq(Entry) /\ q \o SubSeq(p, 1, n) \in Seq(Entry)
      BY <3>1, Joint, Zenon
    <3>3. d \o (q \o p) \in Seq(Entry)
      BY <3>2, Joint, Zenon
    <3> QED  BY <3>2, <3>3, Zenon
  <2>2. /\ Len(r) = Len(q) + Len(p) /\ Len(s) = Len(q) + n /\ Len(w) = Len(d) + Len(r)
        /\ \A i \in 1 .. Len(q) + n : s[i] = r[i]
    BY <1>4, <2>1
  <2>3. \A i \in 1 .. Len(r) : w[Len(d) + i] = r[i]
    BY <2>1, SMTT(30)
  <2>4. \A i \in 1 .. Len(s) : Len(d) + i \in 1 .. Len(w) /\ s[i] = w[Len(d) + i]
    BY <1>4, <2>2, <2>3
  <2>5. ASSUME NEW x \in Range(s) PROVE x \in Range(w)
    <3>1. PICK i \in 1 .. Len(s) : s[i] = x
      BY RangeOf
    <3>2. Len(d) + i \in 1 .. Len(w) /\ w[Len(d) + i] = x
      BY <2>4, <3>1, Zenon
    <3> QED  BY <3>2, RangeOf, Zenon
  <2> QED  BY <2>1, <2>5, Zenon
<1>7. Range(written) \subseteq Range(put)
  <2>1. /\ put \in Seq(Entry) /\ written \in Seq(Entry)
        /\ Len(put) \in Nat /\ Len(written) \in Nat /\ Len(written) <= Len(put)
    BY Counts DEF IInv
  <2>2. \A i \in 1 .. Len(written) : i \in 1 .. Len(put) /\ written[i] = put[i]
    BY <2>1 DEF IInv, RingInv
  <2> QED  BY <2>1, <2>2, RangeOf
<1>8. Range(put') \subseteq 1 .. calls'
  BY <1>5, <1>6, <1>7 DEF FreshInv, Crash
<1>9. \A t \in Threads : ~OnCall(t)'
  BY DEF Crash, AllIdle, Idle, OnCall, InRing
<1> QED  BY <1>8, <1>9 DEF FreshInv

LEMMA NextFresh == ASSUME IInv, KeptInv, FreshInv, [Next]_vars PROVE FreshInv'
<1>1. ASSUME NEW t \in Threads, Lock(t) \/ Room(t) \/ Store(t) \/ StoreNowhere(t) \/ Check(t)
                                \/ Signal(t) \/ Notified(t)
      PROVE  FreshInv'
  <2>1. /\ UNCHANGED <<put, calls>> /\ \A u \in Threads : u # t => thr'[u] = thr[u]
        /\ OnCall(t)' => OnCall(t) /\ thr'[t].entry = thr[t].entry
    BY <1>1 DEF IInv, TypeOK, ThreadType, OnCall, InRing, At, GoTo, Idle, Lock, Room, Store,
       StoreNowhere, Check, Signal, Notified
  <2>2. \A u \in Threads : OnCall(u)' => OnCall(u) /\ thr'[u].entry = thr[u].entry
    BY <2>1 DEF OnCall, InRing
  <2> QED  BY <2>1, <2>2, FreshFrame
<1>2. ASSUME NEW t \in Threads, Call(t) \/ Advance(t) PROVE FreshInv'
  BY <1>2, CallFresh, AdvanceFresh
<1>3. CASE Open \/ Create \/ Loop \/ Main \/ UNCHANGED vars
  <2>1. UNCHANGED <<put, calls, thr>>
    BY <1>3 DEF vars, Open, Create, Loop, Rotate, Test, Pop, Listen, Poll, Release, Take, Write,
       Close, Rename, Reopen, RemoveOld, Main, Flush, FlushHead, FlushTail, FlushFile, FlushSync,
       FlushReturn, CloseLog, CloseJoin, CloseFree
  <2>2. \A u \in Threads : OnCall(u)' => OnCall(u) /\ thr'[u].entry = thr[u].entry
    BY <2>1 DEF OnCall, InRing
  <2> QED  BY <2>1, <2>2, FreshFrame
<1>4. CASE Crash
  BY <1>4, CrashFresh
<1> QED  BY <1>1, <1>2, <1>3, <1>4 DEF Next, Log

LEMMA FileFrame ==
  ASSUME FileInv, UNCHANGED <<open, synced, primary>>,
         loop' = loop \/ loop.at \notin {"open", "rename", "fopen", "ended"}
  PROVE  FileInv'
BY DEF FileInv

LEMMA NextFile == ASSUME IInv, FileInv, [Next]_vars PROVE FileInv'
<1>1. ASSUME NEW t \in Threads, Call(t) \/ Log(t) PROVE FileInv'
  BY <1>1, FileFrame DEF Call, Log, Lock, Room, Store, Advance, StoreNowhere, Check, Signal, Notified
<1>2. CASE Create \/ Test \/ Pop \/ Listen \/ Poll \/ Release \/ Take \/ RemoveOld
  BY <1>2, FileFrame DEF Create, Test, Pop, Listen, Poll, Release, Take, RemoveOld, In
<1>3. CASE Open \/ Reopen
  BY <1>3 DEF FileInv, Open, Reopen
<1>4. CASE Write
  BY <1>4 DEF FileInv, Write
<1>5. CASE Close
  <2>1. loop'.at = "rename"
    BY <1>5 DEF IInv, TypeOK, LoopType, Close
  <2> QED  BY <1>5, <2>1 DEF FileInv, Close
<1>6. CASE Rename
  <2>1. loop'.at \in {"rename", "fopen"} /\ open' = open
    BY <1>6 DEF IInv, TypeOK, LoopType, In, To, Rename
  <2>2. synced = Len(primary) => synced' = Len(primary')
    <3>1. CASE loop.seq > 0
      BY <1>6, <3>1 DEF Rename
    <3>2. CASE ~(loop.seq > 0)
      <4>1. primary' = <<>> /\ synced' = 0
        BY <1>6, <3>2 DEF Rename
      <4> QED  BY <4>1
    <3> QED  BY <3>1, <3>2
  <2> QED  BY <2>1, <2>2 DEF FileInv
<1>7. CASE FlushSync
  BY <1>7 DEF FileInv, FlushSync
<1>8. CASE CloseFree
  BY <1>8 DEF FileInv, IInv, CloseInv, CloseFree, MainAt
<1>9. CASE Flush \/ FlushHead \/ FlushTail \/ FlushFile \/ FlushReturn \/ CloseLog \/ CloseJoin
           \/ UNCHANGED vars
  BY <1>9, FileFrame DEF vars, Flush, FlushHead, FlushTail, FlushFile, FlushReturn, CloseLog, CloseJoin
<1>10. CASE Crash
  BY <1>10 DEF FileInv, Crash, Opening
<1> QED  BY <1>1, <1>2, <1>3, <1>4, <1>5, <1>6, <1>7, <1>8, <1>9, <1>10 DEF Next, Loop, Rotate, Main

LEMMA FlushFrame ==
  ASSUME FlushInv, UNCHANGED <<main, due, head, tail, put>>,
         \/ UNCHANGED <<primary, synced>> /\ (loop'.at = "write" => loop.at = "write")
         \/ synced' = Len(primary')
  PROVE  FlushInv'
BY DEF FlushInv, Flushing, EmptyAt, Range

LEMMA AdvanceFlush ==
  ASSUME IInv, FreshInv, FlushInv, NEW t \in Threads, Advance(t) PROVE FlushInv'
<1>1. UNCHANGED <<main, due>>
  BY DEF Advance
<1>2. thr[t].entry \notin Range(put) /\ Range(put') = Range(put) \cup {thr[t].entry}
  BY AdvanceFresh
<1>3. Flushing' => Flushing
  BY <1>1 DEF Flushing
<1> QED  BY <1>1, <1>2, <1>3 DEF FlushInv

LEMMA TakeFlush == ASSUME IInv, FlushInv, Take PROVE FlushInv'
<1>1. UNCHANGED <<main, due, tail, put>> /\ ~EmptyAt(head)
  BY DEF IInv, CursorInv, Take
<1>2. \A h : EmptyAt(h)' = EmptyAt(h)
  BY <1>1 DEF EmptyAt
<1>3. Range(put') = Range(put) /\ (Flushing' => Flushing)
  BY <1>1 DEF Range, Flushing
<1> QED  BY <1>1, <1>2, <1>3 DEF FlushInv

LEMMA WriteFlush == ASSUME IInv, FlushInv, Write PROVE FlushInv'
<1>1. /\ UNCHANGED <<main, due, head, tail, put, synced>>
      /\ loop.at = "write" /\ loop'.at # "write"
  BY DEF Write, IInv, TypeOK, LoopType, In, To
<1>2. Len(primary') = Len(primary) + 1
  BY DEF Write, IInv, TypeOK
<1> QED  BY <1>1, <1>2 DEF FlushInv, Flushing, EmptyAt, Range

LEMMA RenameFlush == ASSUME IInv, FlushInv, Rename PROVE FlushInv'
<1>1. UNCHANGED <<main, due, head, tail, put>> /\ loop'.at # "write"
  BY DEF Rename, IInv, TypeOK, LoopType, In, To
<1>2. UNCHANGED <<primary, synced>> \/ (primary' = <<>> /\ synced' = 0)
  BY DEF Rename
<1>3. Len(<<>>) = 0
  OBVIOUS
<1> QED  BY <1>1, <1>2, <1>3, FlushFrame

LEMMA MainFlush == ASSUME IInv, FileInv, FlushInv, Main PROVE FlushInv'
<1>1. UNCHANGED <<head, tail, put, primary>> /\ Range(put') = Range(put)
  BY DEF Range, Main, Flush, FlushHead, FlushTail, FlushFile, FlushSync, FlushReturn,
     CloseLog, CloseJoin, CloseFree
<1>2. \A h : EmptyAt(h)' = EmptyAt(h)
  BY <1>1 DEF EmptyAt
<1>3. main \in MainType
  BY DEF IInv, TypeOK
<1>4. CASE Flush
  <2>1. main'.at = "head" /\ due' = Range(put)
    BY <1>3, <1>4 DEF Flush, MainType, MainTo
  <2> QED  BY <1>1, <2>1 DEF FlushInv
<1>5. CASE FlushHead
  <2>1. ~done /\ Flushing /\ due' = due /\ main'.at = "tail" /\ main'.head = head
    BY <1>3, <1>5 DEF FlushHead, IInv, CloseInv, Closing, MainAt, Flushing
  <2> QED  BY <1>1, <2>1 DEF FlushInv
<1>6. CASE FlushTail
  <2>1. \/ ~Flushing'
        \/ due' = due /\ main'.at = "head"
        \/ due' = due /\ main'.at = "file" /\ EmptyAt(main.head)
    BY <1>6 DEF FlushTail, FlushLate, NoCall, Flushing
  <2>2. Flushing /\ main.at = "tail"
    BY <1>6 DEF FlushTail, MainAt, Flushing
  <2> QED  BY <1>1, <1>2, <2>1, <2>2 DEF FlushInv
<1>7. CASE FlushFile
  <2>1. /\ due' = due /\ synced' = synced /\ Flushing /\ main.at = "file"
        /\ main'.at = "fflush" \/ (main'.at = "true" /\ ~open)
    BY <1>3, <1>7 DEF FlushFile, MainType, MainAt, MainTo, Flushing
  <2> QED  BY <1>1, <1>2, <2>1 DEF FlushInv, FileInv
<1>8. CASE FlushSync
  <2>1. due' = due /\ Flushing /\ main.at = "fflush" /\ main'.at = "true"
    BY <1>3, <1>8 DEF FlushSync, MainType, MainAt, MainTo, Flushing
  <2>2. synced' = Len(primary)
    BY <1>8 DEF FlushSync, FileInv
  <2> QED  BY <1>1, <1>2, <2>1, <2>2 DEF FlushInv
<1>9. CASE FlushReturn \/ CloseLog \/ CloseJoin \/ CloseFree
  <2>1. main'.at \in {"idle", "join", "free", "closed"}
    BY <1>3, <1>9 DEF FlushReturn, CloseLog, CloseJoin, CloseFree, NoCall, MainType, MainTo
  <2> QED  BY <2>1 DEF FlushInv, Flushing
<1> QED  BY <1>4, <1>5, <1>6, <1>7, <1>8, <1>9 DEF Main

LEMMA NextFlush == ASSUME IInv, FreshInv, FileInv, FlushInv, [Next]_vars PROVE FlushInv'
<1>1. ASSUME NEW t \in Threads, Call(t) \/ Lock(t) \/ Room(t) \/ Store(t) \/ StoreNowhere(t)
                                \/ Check(t) \/ Signal(t) \/ Notified(t)
      PROVE  FlushInv'
  BY <1>1, FlushFrame DEF Call, Lock, Room, Store, StoreNowhere, Check, Signal, Notified
<1>2. ASSUME NEW t \in Threads, Advance(t) PROVE FlushInv'
  BY <1>2, AdvanceFlush
<1>3. CASE Create \/ Test \/ Pop \/ Listen \/ Poll \/ Release \/ RemoveOld \/ Reopen
  <2>1. loop'.at # "write"
    BY <1>3 DEF IInv, TypeOK, LoopType, In, To, Create, Test, Pop, Listen, Poll, Release,
       RemoveOld, Reopen
  <2> QED  BY <1>3, <2>1, FlushFrame DEF Create, Test, Pop, Listen, Poll, Release, RemoveOld, Reopen
<1>4. CASE Open \/ Close
  BY <1>4, FlushFrame DEF Open, Close
<1>5. CASE Take \/ Write \/ Rename \/ Main
  BY <1>5, TakeFlush, WriteFlush, RenameFlush, MainFlush
<1>6. CASE Crash
  BY <1>6 DEF Crash, FlushInv, Flushing, NoCall
<1>7. CASE UNCHANGED vars
  BY <1>7, FlushFrame DEF vars
<1> QED  BY <1>1, <1>2, <1>3, <1>4, <1>5, <1>6, <1>7 DEF Next, Log, Loop, Rotate

LEMMA InitFlush == Init => FreshInv /\ FileInv /\ FlushInv
<1> SUFFICES ASSUME Init PROVE FreshInv /\ FileInv /\ FlushInv
  OBVIOUS
<1>1. FreshInv
  <2>1. Range(put) = {}
    BY DEF Init, Range
  <2> QED  BY <2>1 DEF Init, FreshInv, OnCall, InRing, AllIdle, Idle
<1>2. FileInv /\ FlushInv
  BY DEF Init, FileInv, FlushInv, Flushing, NoCall, Opening
<1> QED  BY <1>1, <1>2

LEMMA FlushInvariance == Spec => [](IInv /\ FileInv /\ FlushInv)
<1> DEFINE I == IInv /\ KeptInv /\ FreshInv /\ FileInv /\ FlushInv
<1>1. Init => I
  BY InitInv, InitKept, InitFlush
<1>2. I /\ [Next]_vars => I'
  BY NextInv, NextKept, NextFresh, NextFile, NextFlush
<1>3. I => IInv /\ FileInv /\ FlushInv
  OBVIOUS
<1> QED  BY <1>1, <1>2, <1>3, PTL DEF Spec

\* When agoo_log_flush returns true and nothing was logged since it was called, all
\* that was logged before is out of the buffers, but for one entry at most.
THEOREM FlushNearlyAll == Spec => []FlushMissesOne
<1>1. IInv /\ FileInv /\ FlushInv => FlushMissesOne
  <2> SUFFICES ASSUME IInv, FlushInv, main.at = "true", Range(put) = due PROVE FlushMissesOne
    BY DEF FlushMissesOne
  <2> DEFINE buffered == Range(SubSeq(primary, synced + 1, Len(primary)))
             missing  == due \ (Range(written) \ buffered)
  <2>1. /\ EmptyAt(head)
        /\ synced = Len(primary) \/ (loop.at # "write" /\ Len(primary) = synced + 1)
    BY DEF FlushInv, Flushing
  <2>2. /\ Len(put) = Gone /\ put \in Seq(Entry) /\ written \in Seq(Entry)
        /\ loop.at = "write" => Gone = Len(written) + 1
        /\ loop.at # "write" => Gone = Len(written)
        /\ \A i \in 1 .. Len(written) : written[i] = put[i]
    BY <2>1, HeldFacts, Counts DEF IInv, RingInv
  <2>3. primary \in Seq(Entry) /\ synced \in 0 .. Len(primary)
    BY DEF IInv, TypeOK
  <2>4. \E x : missing \subseteq {x}
    <3>1. CASE synced = Len(primary)
      <4>1. DOMAIN SubSeq(primary, synced + 1, Len(primary)) = {}
        BY <2>3, <3>1
      <4>2. buffered = {}
        BY <4>1 DEF Range
      <4>3. \A i \in 1 .. Len(put) : i # Gone => put[i] \in Range(written)
        BY <2>2 DEF Range
      <4>4. Range(put) \subseteq Range(written) \cup {put[Gone]}
        BY <2>2, <4>3 DEF Range
      <4> QED  BY <4>2, <4>4
    <3>2. CASE loop.at # "write" /\ Len(primary) = synced + 1
      <4>1. Range(put) \subseteq Range(written)
        BY <2>2, <3>2 DEF Range
      <4>2. PICK p \in Seq(Entry), n \in Nat : p = primary /\ n + 1 = Len(p) /\ synced = n
        BY <2>3, <3>2
      <4>3. DOMAIN SubSeq(p, n + 1, n + 1) = {1} /\ SubSeq(p, n + 1, n + 1)[1] = p[n + 1]
        BY <4>2
      <4>4. buffered = {p[n + 1]}
        BY <4>2, <4>3 DEF Range
      <4> QED  BY <4>1, <4>4
    <3> QED  BY <2>1, <3>1, <3>2
  <2>5. Cardinality(missing) <= 1
    <3>1. PICK x : missing \subseteq {x}
      BY <2>4
    <3>2. Cardinality({x}) = 1 /\ IsFiniteSet({x})
      BY FS_Singleton
    <3> HIDE DEF missing
    <3>3. Cardinality(missing) <= Cardinality({x})
      BY <3>1, <3>2, FS_Subset
    <3> QED  BY <3>2, <3>3
  <2> QED  BY <2>5 DEF FlushMissesOne
<1> QED  BY <1>1, FlushInvariance, PTL
-----------------------------------------------------------------------------
(* What the readers of the files are promised *)

LEMMA AppendLast == \A x, y \in Seq(Entry), e \in Entry : x \o Append(y, e) = Append(x \o y, e)
<1> SUFFICES ASSUME NEW x \in Seq(Entry), NEW y \in Seq(Entry), NEW e \in Entry
             PROVE  x \o Append(y, e) = Append(x \o y, e)
  OBVIOUS
<1>1. /\ x \o Append(y, e) \in Seq(Entry) /\ Append(x \o y, e) \in Seq(Entry)
      /\ Len(x \o Append(y, e)) = Len(x) + Len(y) + 1
      /\ Len(Append(x \o y, e)) = Len(x) + Len(y) + 1
  OBVIOUS
<1>2. \A i \in 1 .. Len(x) + Len(y) + 1 : (x \o Append(y, e))[i] = Append(x \o y, e)[i]
  OBVIOUS
<1> QED  BY <1>1, <1>2, SeqEqual

LEMMA LastOrBefore == \A k \in Nat : \A i \in 1 .. k + 1 : i \in 1 .. k \/ i = k + 1
OBVIOUS

\* What comes after the first n, when one more comes
LEMMA RestGrows ==
  ASSUME NEW x \in Seq(Entry), NEW n \in 0 .. Len(x), NEW e \in Entry
  PROVE  SubSeq(Append(x, e), n + 1, Len(Append(x, e))) = Append(SubSeq(x, n + 1, Len(x)), e)
<1>1. PICK k \in Nat : n \in Nat /\ Len(x) = n + k
  <2>1. Len(x) - n \in Nat /\ n \in Nat /\ Len(x) = n + (Len(x) - n)
    OBVIOUS
  <2> QED  BY <2>1
<1>2. PICK w \in Seq(Entry) : w = Append(x, e)
  <2>1. Append(x, e) \in Seq(Entry)
    OBVIOUS
  <2> QED  BY <2>1, Zenon
<1>3. /\ Len(w) = (n + k) + 1 /\ w[(n + k) + 1] = e
      /\ \A i \in 1 .. n + k : w[i] = x[i]
  BY <1>1, <1>2
<1>4. PICK s \in Seq(Entry), t \in Seq(Entry) :
        s = SubSeq(w, n + 1, Len(w)) /\ t = SubSeq(x, n + 1, Len(x))
  <2>1. SubSeq(w, n + 1, Len(w)) \in Seq(Entry)
    BY <1>1
  <2>2. SubSeq(x, n + 1, Len(x)) \in Seq(Entry)
    BY <1>1
  <2> QED  BY <2>1, <2>2, Zenon
<1>5. Len(s) = k + 1 /\ \A i \in 1 .. k + 1 : s[i] = w[n + i]
  BY <1>1, <1>3, <1>4
<1>6. Len(t) = k /\ \A i \in 1 .. k : t[i] = x[n + i]
  BY <1>1, <1>4
<1>7. /\ Append(t, e) \in Seq(Entry) /\ Len(Append(t, e)) = k + 1
      /\ Append(t, e)[k + 1] = e /\ \A i \in 1 .. k : Append(t, e)[i] = t[i]
  BY <1>6
<1>8. \A i \in 1 .. k : i \in 1 .. k + 1 /\ n + i \in 1 .. n + k
  BY <1>1
<1>9. ASSUME NEW i \in 1 .. k PROVE s[i] = Append(t, e)[i]
  <2>1. i \in 1 .. k + 1 /\ n + i \in 1 .. n + k
    BY <1>8, Zenon
  <2>2. s[i] = w[n + i]
    BY <1>5, <2>1, Zenon
  <2>3. w[n + i] = x[n + i]
    BY <1>3, <2>1, Zenon
  <2>4. t[i] = x[n + i] /\ Append(t, e)[i] = t[i]
    BY <1>6, <1>7, Zenon
  <2> QED  BY <2>2, <2>3, <2>4, Zenon
<1>10. s[k + 1] = Append(t, e)[k + 1]
  <2>1. k + 1 \in 1 .. k + 1 /\ n + (k + 1) = (n + k) + 1
    BY <1>1
  <2> QED  BY <1>3, <1>5, <1>7, <2>1, Zenon
<1>11. \A i \in 1 .. k + 1 : i \in 1 .. k \/ i = k + 1
  BY LastOrBefore, Zenon
<1>12. \A i \in 1 .. k + 1 : s[i] = Append(t, e)[i]
  BY <1>9, <1>10, <1>11, Zenon
<1> QED  BY <1>2, <1>4, <1>5, <1>7, <1>12, SeqEqual, Zenon

\* What comes after the first n, when the next is counted with them
LEMMA RestShrinks ==
  ASSUME NEW x \in Seq(Entry), NEW n \in Nat, n < Len(x)
  PROVE  /\ SubSeq(x, n + 1, Len(x)) # <<>>
         /\ Head(SubSeq(x, n + 1, Len(x))) = x[n + 1]
         /\ Tail(SubSeq(x, n + 1, Len(x))) = SubSeq(x, (n + 1) + 1, Len(x))
<1>1. n + 1 \in 1 .. Len(x) /\ Len(x) \in n + 1 .. Len(x)
  OBVIOUS
<1>2. Len(SubSeq(x, n + 1, Len(x))) = Len(x) - n
  OBVIOUS
<1>3. SubSeq(x, n + 1, Len(x)) # <<>>
  <2>1. Len(x) - n # 0 /\ Len(<<>>) = 0
    OBVIOUS
  <2> QED  BY <1>2, <2>1, Zenon
<1> QED  BY <1>1, <1>3, HeadTailOfSubSeq

LEMMA WithoutFirst ==
  ASSUME NEW x \in Seq(Entry), NEW y \in Seq(Entry)
  PROVE  SubSeq(x \o y, Len(x) + 1, Len(x \o y)) = y
<1>1. /\ Len(x) \in Nat /\ Len(y) \in Nat /\ Len(x \o y) = Len(x) + Len(y)
      /\ \A i \in 1 .. Len(y) : (x \o y)[Len(x) + i] = y[i]
      /\ x \o y \in Seq(Entry)
  OBVIOUS
<1>2. PICK w \in Seq(Entry) : w = x \o y
  BY <1>1
<1>3. PICK s \in Seq(Entry) : s = SubSeq(w, Len(x) + 1, Len(w))
  <2>1. SubSeq(w, Len(x) + 1, Len(w)) \in Seq(Entry)
    BY <1>1, <1>2
  <2> QED  BY <2>1, Zenon
<1>4. Len(s) = Len(y) /\ \A i \in 1 .. Len(y) : s[i] = w[Len(x) + i]
  BY <1>1, <1>2, <1>3
<1> QED  BY <1>1, <1>2, <1>3, <1>4, SeqEqual

LEMMA FirstPart ==
  ASSUME NEW x \in Seq(Entry), NEW y \in Seq(Entry), NEW m \in 0 .. Len(y)
  PROVE  x \o SubSeq(y, 1, m) = SubSeq(x \o y, 1, Len(x) + m)
OBVIOUS

\* What the mapping speaks of
LEMMA MappingFacts ==
  ASSUME IInv
  PROVE  /\ Kept(primary) = Piled(archives) \o primary
         /\ Safe = Len(Piled(archives)) + synced
         /\ Len(Kept(primary)) = Len(Piled(archives)) + Len(primary)
         /\ Len(Piled(archives)) \in Nat /\ Len(primary) \in Nat
         /\ synced \in 0 .. Len(primary)
<1>1. Kept(primary) = Piled(archives) \o primary /\ Safe = Len(Piled(archives)) + synced
  BY Zenon DEF Kept, Safe, Piled
<1>2. PICK o \in Seq(Entry), p \in Seq(Entry) : o = Piled(archives) /\ p = primary
  BY ArchivesFacts
<1>3. Len(o \o p) = Len(o) + Len(p) /\ Len(o) \in Nat /\ Len(p) \in Nat
  OBVIOUS
<1>4. synced \in 0 .. Len(primary)
  BY DEF IInv, TypeOK
<1> QED  BY <1>1, <1>2, <1>3, <1>4, Zenon

LEMMA InitLog == Init => KeptFiles!Init
<1> SUFFICES ASSUME Init PROVE KeptFiles!Init
  OBVIOUS
<1>1. put = <<>> /\ written = <<>> /\ primary = <<>> /\ synced = 0 /\ crashes = 0
  BY DEF Init
<1>2. Piled(archives) = <<>> /\ <<>> \in Seq(Entry) /\ Len(<<>>) = 0
  BY InitPile
<1>3. Kept(primary) = <<>>
  BY <1>1, <1>2, NoneAdded, Zenon DEF Kept, Piled
<1>4. Safe = 0
  BY <1>1, <1>2 DEF Safe, Piled
<1>5. Unwritten = <<>>
  BY <1>1, <1>2, SubSeqEmpty DEF Unwritten
<1> QED  BY <1>1, <1>3, <1>4, <1>5 DEF KeptFiles!Init

\* Most steps change nothing of it.
LEMMA LogStays ==
  ASSUME UNCHANGED <<put, written, archives, primary, synced, crashes>>
  PROVE  UNCHANGED KeptFiles!log
BY DEF KeptFiles!log, Unwritten, Kept, Safe

LEMMA AdvanceIsPut ==
  ASSUME IInv, NEW t \in Threads, Advance(t) PROVE KeptFiles!Next
<1>1. PICK e \in Entry : e = thr[t].entry
  BY DEF Advance, At, IInv, CursorInv, InRing
<1>2. put' = Append(put, e) /\ UNCHANGED <<written, archives, primary, synced, crashes>>
  BY <1>1 DEF Advance, disk, file, bounds
<1>3. put \in Seq(Entry) /\ Len(written) \in 0 .. Len(put)
  BY Counts DEF IInv
<1>4. PICK x \in Seq(Entry), n \in 0 .. Len(put) : x = put /\ n = Len(written)
  BY <1>3
<1>5. SubSeq(Append(x, e), n + 1, Len(Append(x, e))) = Append(SubSeq(x, n + 1, Len(x)), e)
  BY <1>4, RestGrows
<1>6. Unwritten' = Append(Unwritten, e)
  BY <1>2, <1>4, <1>5, Zenon DEF Unwritten
<1>7. UNCHANGED <<Kept(primary), Safe>>
  BY <1>2 DEF Kept, Safe
<1>8. KeptFiles!Put(e)
  BY <1>2, <1>6, <1>7 DEF KeptFiles!Put
<1> QED  BY <1>8 DEF KeptFiles!Next

LEMMA WriteIsWrite == ASSUME IInv, Write PROVE KeptFiles!Next
<1>1. loop.at = "write"
  BY DEF Write, In
<1>2. PICK n \in Nat : n = Len(written)
  BY Counts DEF IInv
<1>3. put \in Seq(Entry) /\ n < Len(put) /\ slots[head] = put[n + 1] /\ put[n + 1] \in Entry
  <2>1. put \in Seq(Entry) /\ Len(put) = Gone + Held /\ Gone = n + 1 /\ Held \in Nat
    BY <1>1, <1>2, Counts DEF IInv
  <2>2. n < Len(put) /\ n + 1 \in 1 .. Len(put)
    BY <2>1
  <2> QED  BY <1>1, <2>1, <2>2 DEF IInv, RingInv
<1>4. PICK e \in Entry, x \in Seq(Entry) : e = slots[head] /\ x = put
  BY <1>3
<1>5. /\ written' = Append(written, e) /\ primary' = Append(primary, e)
      /\ UNCHANGED <<put, archives, synced, crashes>>
  BY <1>4 DEF Write, ring, bounds
<1>6. Len(written') = n + 1
  BY <1>2, <1>4, <1>5, Counts DEF IInv
<1>7. /\ SubSeq(x, n + 1, Len(x)) # <<>>
      /\ Head(SubSeq(x, n + 1, Len(x))) = x[n + 1]
      /\ Tail(SubSeq(x, n + 1, Len(x))) = SubSeq(x, (n + 1) + 1, Len(x))
  BY <1>3, <1>4, RestShrinks
<1>8. Unwritten # <<>> /\ Head(Unwritten) = e /\ Unwritten' = Tail(Unwritten)
  BY <1>2, <1>3, <1>4, <1>5, <1>6, <1>7, Zenon DEF Unwritten
<1>9. PICK o \in Seq(Entry), p \in Seq(Entry) : o = Piled(archives) /\ p = primary
  BY ArchivesFacts
<1>10. o \o Append(p, e) = Append(o \o p, e)
  BY AppendLast, Zenon
<1>11. Kept(primary)' = Append(Kept(primary), Head(Unwritten))
  BY <1>5, <1>8, <1>9, <1>10, Zenon DEF Kept, Piled
<1>12. UNCHANGED <<Safe, crashes>>
  BY <1>5 DEF Safe
<1>13. KeptFiles!Write
  BY <1>8, <1>11, <1>12 DEF KeptFiles!Write
<1> QED  BY <1>13 DEF KeptFiles!Next

\* What is closed or flushed leaves the buffer.
LEMMA SyncStep ==
  ASSUME IInv, UNCHANGED <<put, written, archives, primary, crashes>>, synced' \in {synced, Len(primary)}
  PROVE  KeptFiles!Next
<1>1. UNCHANGED <<Unwritten, Kept(primary), crashes>>
  BY DEF Unwritten, Kept
<1>2. Safe' = Len(Piled(archives)) + synced'
  BY DEF Safe, Piled
<1>3. Safe' \in Safe .. Len(Kept(primary))
  BY <1>2, MappingFacts
<1> QED  BY <1>1, <1>3 DEF KeptFiles!Sync, KeptFiles!Next

\* The oldest archive goes.
LEMMA OldestGoes ==
  ASSUME IInv, KeptInv, RetainInv', UNCHANGED <<put, written, primary, synced, crashes>>,
         NEW a \in Seq(Entry), NEW b \in Seq(Entry),
         Piled(archives) = a \o b, Piled(archives') = b
  PROVE  KeptFiles!Next \/ UNCHANGED KeptFiles!log
<1>1. PICK p \in Seq(Entry) : p = primary
  BY ArchivesFacts
<1>2. PICK y \in Seq(Entry) : y = b \o p
  BY Joint, Zenon
<1>3. Kept(primary) = a \o y
  <2>1. Kept(primary) = (a \o b) \o p
    BY <1>1, Zenon DEF Kept, Piled
  <2>2. (a \o b) \o p = a \o (b \o p)
    BY Assoc, ZenonT(30)
  <2> QED  BY <1>2, <2>1, <2>2, Zenon
<1>4. Kept(primary)' = y
  BY <1>1, <1>2, Zenon DEF Kept, Piled
<1>5. Safe = (Len(a) + Len(b)) + synced /\ Safe' = Len(b) + synced
  <2>1. Len(a \o b) = Len(a) + Len(b)
    OBVIOUS
  <2>2. Safe = Len(a \o b) + synced /\ Safe' = Len(b) + synced'
    BY Zenon DEF Safe, Piled
  <2> QED  BY <2>1, <2>2
<1>6. UNCHANGED <<Unwritten, crashes>>
  BY DEF Unwritten
<1>7. Len(a) \in Nat /\ Len(b) \in Nat /\ synced \in Nat
  BY DEF IInv, TypeOK
<1>8. CASE a = <<>>
  <2>1. Kept(primary)' = Kept(primary)
    BY <1>3, <1>4, <1>8, NoneAdded, Zenon
  <2>2. Safe' = Safe
    BY <1>5, <1>7, <1>8
  <2> QED  BY <1>6, <2>1, <2>2 DEF KeptFiles!log
<1>9. CASE a # <<>>
  <2>1. Len(a) > 0
    BY <1>7, <1>9, EmptySeq
  <2>2. Len(a) \in 1 .. Safe /\ Safe' = Safe - Len(a)
    <3>1. PICK k \in Nat, l \in Nat, m \in Nat : k = Len(a) /\ l = Len(b) /\ m = synced
      BY <1>7
    <3>2. Safe = (k + l) + m /\ Safe' = l + m /\ k > 0
      BY <1>5, <2>1, <3>1
    <3>3. k \in 1 .. Safe /\ Safe' = Safe - k
      BY <3>2
    <3> QED  BY <3>1, <3>3
  <2>3. Kept(primary)' = SubSeq(Kept(primary), Len(a) + 1, Len(Kept(primary)))
    <3>1. SubSeq(a \o y, Len(a) + 1, Len(a \o y)) = y
      BY WithoutFirst
    <3> QED  BY <1>3, <1>4, <3>1, Zenon
  <2>4. written # y
    <3>1. PICK d \in Seq(Entry) : written = d \o (a \o y)
      <4>1. PICK d \in Seq(Entry) : written = d \o (Piled(archives) \o primary)
        BY DEF KeptInv
      <4> QED  BY <1>3, <4>1, Zenon DEF Kept, Piled
    <3>2. a \o y \in Seq(Entry) /\ Len(a \o y) = Len(a) + Len(y) /\ Len(y) \in Nat
      OBVIOUS
    <3>3. Len(d \o (a \o y)) = Len(d) + Len(a \o y) /\ Len(d) \in Nat
      BY <3>2
    <3>4. Len(written) # Len(y)
      BY <1>7, <2>1, <3>1, <3>2, <3>3
    <3> QED  BY <3>4
  <2>5. Len(Kept(primary)') >= (MaxFiles - crashes) * MaxSize
    <3>1. LeftInv'
      BY DEF RetainInv
    <3>2. written' # Kept(primary)'
      BY <1>4, <2>4
    <3> QED  BY <3>1, <3>2 DEF LeftInv
  <2>6. KeptFiles!Forget(Len(a))
    BY <1>6, <2>2, <2>3, <2>5 DEF KeptFiles!Forget
  <2> QED  BY <2>2, <2>6 DEF KeptFiles!Next
<1> QED  BY <1>8, <1>9

LEMMA ArchivesNext == ASSUME IInv, [Next]_vars PROVE Archived(archives')
<1>1. IInv'
  BY NextInv
<1> QED  BY <1>1 DEF IInv, TypeOK, Archived, Files

\* An archive moves up: into a hole, or over the oldest, which goes.
LEMMA RenameForgets ==
  ASSUME IInv, KeptInv, RetainInv, Rename, loop.seq > 0
  PROVE  KeptFiles!Next \/ UNCHANGED KeptFiles!log
<1>1. PICK n \in 1 .. MaxFiles : n = loop.seq
  BY FilesFacts DEF IInv, TypeOK, LoopType
<1>2. /\ UNCHANGED <<put, primary, synced, written, crashes>> /\ loop.at = "rename"
      /\ archives' = Renamed(n)
  BY <1>1 DEF Rename, In, ring, bounds
<1>3. n \in Files /\ n + 1 \in Files /\ n # n + 1
  BY FilesFacts DEF Files
<1>4. Archived(archives) /\ archives \in [Files -> Seq(Entry)]
  BY ArchivesFacts DEF Archived
<1>5. CASE archives[n] = <<>>
  BY <1>2, <1>5, LogStays DEF Renamed
<1>6. CASE archives[n] # <<>>
  <2>1. archives' = [archives EXCEPT ![n + 1] = archives[n], ![n] = <<>>]
    BY <1>2, <1>6 DEF Renamed
  <2>2. /\ archives'[n + 1] = archives[n] /\ archives'[n] = <<>>
        /\ \A i \in Files : i # n /\ i # n + 1 => archives[i] = archives'[i]
    BY <1>3, <1>4, <2>1
  <2>3. archives[n + 1] = <<>> \/ n = MaxFiles
    <3>1. n < MaxFiles \/ n = MaxFiles
      BY FilesFacts
    <3> QED  BY <1>1, <1>2, <3>1 DEF KeptInv
  <2>4. Archived(archives')
    BY ArchivesNext DEF Next, Loop, Rotate
  <2>5. Piled(archives) = archives[n + 1] \o Piled(archives')
    BY <1>4, <2>2, <2>3, <2>4, PileRenamed
  <2>6. PICK a \in Seq(Entry), b \in Seq(Entry) : a = archives[n + 1] /\ b = Piled(archives')
    BY <1>3, <1>4, <2>4, PiledTyped
  <2>7. RetainInv'
    BY ArchiveRetain
  <2> QED  BY <1>2, <2>5, <2>6, <2>7, OldestGoes
<1> QED  BY <1>5, <1>6

\* The log file becomes the first archive: the same entries, all of them safe.
LEMMA RenameSyncs ==
  ASSUME IInv, KeptInv, Rename, ~(loop.seq > 0) PROVE KeptFiles!Next
<1>1. loop.seq = 0 /\ 0 < MaxFiles /\ 0 + 1 = 1
  BY FilesFacts DEF IInv, TypeOK, LoopType
<1>2. /\ UNCHANGED <<put, written, crashes>> /\ loop.at = "rename" /\ synced' = 0
      /\ archives' = [archives EXCEPT ![1] = primary] /\ primary' = <<>>
  BY <1>1 DEF Rename, In, ring, bounds
<1>3. 1 \in Files /\ archives[1] = <<>>
  BY <1>1, <1>2, FilesFacts DEF KeptInv, Files
<1>4. Archived(archives) /\ archives \in [Files -> Seq(Entry)] /\ primary \in Seq(Entry)
  BY ArchivesFacts DEF Archived
<1>5. archives'[1] = primary /\ \A i \in Files : i # 1 => archives[i] = archives'[i]
  BY <1>2, <1>3, <1>4
<1>6. Archived(archives')
  BY ArchivesNext DEF Next, Loop, Rotate
<1>7. Piled(archives') = Piled(archives) \o primary
  BY <1>3, <1>4, <1>5, <1>6, PileFirst
<1>8. PICK b \in Seq(Entry) : b = Piled(archives')
  BY <1>6, PiledTyped
<1>9. b \o <<>> = b
  BY NoneAdded, Zenon
<1>10. Kept(primary)' = Kept(primary)
  BY <1>2, <1>7, <1>8, <1>9, Zenon DEF Kept, Piled
<1>11. Safe' = Len(Kept(primary))
  <2>1. Safe' = Len(b) + 0 /\ Len(b) \in Nat
    BY <1>2, <1>8 DEF Safe, Piled
  <2>2. Kept(primary) = b
    BY <1>7, <1>8, Zenon DEF Kept, Piled
  <2> QED  BY <2>1, <2>2
<1>12. Safe' \in Safe .. Len(Kept(primary))
  BY <1>11, MappingFacts
<1>13. UNCHANGED <<Unwritten, crashes>>
  BY <1>2 DEF Unwritten
<1> QED  BY <1>10, <1>12, <1>13 DEF KeptFiles!Sync, KeptFiles!Next

LEMMA RemoveOldForgets ==
  ASSUME IInv, KeptInv, RetainInv, RemoveOld
  PROVE  KeptFiles!Next \/ UNCHANGED KeptFiles!log
<1>1. /\ UNCHANGED <<put, primary, synced, written, crashes>>
      /\ archives' = [n \in DOMAIN archives |-> IF MaxFiles < n THEN <<>> ELSE archives[n]]
  BY DEF RemoveOld, ring, file, bounds
<1>2. Archived(archives) /\ archives \in [Files -> Seq(Entry)]
  BY ArchivesFacts DEF Archived
<1>3. MaxFiles + 1 \in Files /\ \A i \in Files : i <= MaxFiles => ~(MaxFiles < i)
  BY FilesFacts DEF Files
<1>4. /\ archives'[MaxFiles + 1] = <<>>
      /\ \A i \in Files : i <= MaxFiles => archives[i] = archives'[i]
  BY <1>1, <1>2, <1>3, FilesFacts
<1>5. Archived(archives')
  BY ArchivesNext DEF Next, Loop, Rotate
<1>6. Piled(archives) = archives[MaxFiles + 1] \o Piled(archives')
  BY <1>2, <1>4, <1>5, PileCut
<1>7. PICK a \in Seq(Entry), b \in Seq(Entry) : a = archives[MaxFiles + 1] /\ b = Piled(archives')
  BY <1>2, <1>3, <1>5, PiledTyped
<1>8. RetainInv'
  BY RemoveOldRetain
<1> QED  BY <1>1, <1>6, <1>7, <1>8, OldestGoes

LEMMA CrashIsDie == ASSUME IInv, Crash PROVE KeptFiles!Next
<1>1. PICK m \in synced .. Len(primary) : primary' = SubSeq(primary, 1, m)
  BY DEF Crash
<1>2. /\ synced' = Len(primary') /\ put' = Kept(primary') /\ written' = put'
      /\ archives' = archives /\ crashes' = crashes + 1
  BY DEF Crash
<1>3. PICK o \in Seq(Entry), p \in Seq(Entry) : o = Piled(archives) /\ p = primary
  BY ArchivesFacts
<1>4. m \in 0 .. Len(p) /\ m \in Nat
  BY <1>1, <1>3, MappingFacts
<1>5. o \o SubSeq(p, 1, m) = SubSeq(o \o p, 1, Len(o) + m)
  BY <1>4, FirstPart
<1>6. Len(SubSeq(p, 1, m)) = m
  BY <1>4
<1>7. Kept(primary)' = SubSeq(Kept(primary), 1, Len(o) + m)
  BY <1>1, <1>2, <1>3, <1>5, Zenon DEF Kept, Piled
<1>8. Safe' = Len(o) + m
  BY <1>1, <1>2, <1>3, <1>6 DEF Safe, Piled
<1>9. Unwritten' = <<>>
  <2>1. Len(put') \in Nat
    BY CrashStep DEF IInv, TypeOK
  <2>2. SubSeq(put', Len(put') + 1, Len(put')) = <<>>
    BY <2>1, SubSeqEmpty
  <2> QED  BY <1>2, <2>2, Zenon DEF Unwritten
<1>10. Len(o) + m \in Safe .. Len(Kept(primary))
  BY <1>1, <1>3, MappingFacts
<1>11. KeptFiles!Die(Len(o) + m)
  BY <1>2, <1>7, <1>8, <1>9 DEF KeptFiles!Die
<1> QED  BY <1>10, <1>11 DEF KeptFiles!Next

\* One step for each action, or none
LEMMA NextLog ==
  ASSUME IInv, KeptInv, RetainInv, [Next]_vars
  PROVE  KeptFiles!Next \/ UNCHANGED KeptFiles!log
<1>1. ASSUME NEW t \in Threads, Call(t) \/ Log(t)
      PROVE  KeptFiles!Next \/ UNCHANGED KeptFiles!log
  <2>1. CASE Advance(t)
    BY <2>1, AdvanceIsPut
  <2>2. CASE ~Advance(t)
    BY <1>1, <2>2, LogStays DEF Call, Log, Lock, Room, Store, StoreNowhere, Check, Signal, Notified,
       ring, disk, file, bounds
  <2> QED  BY <2>1, <2>2
<1>2. CASE Create \/ Test \/ Pop \/ Listen \/ Poll \/ Release \/ Take \/ Reopen
  BY <1>2, LogStays DEF Create, Test, Pop, Listen, Poll, Release, Take, Reopen,
     ring, disk, file, bounds
<1>3. CASE Open \/ Close \/ FlushSync \/ CloseFree
  BY <1>3, SyncStep DEF Open, Close, FlushSync, CloseFree, ring, bounds
<1>4. CASE Write
  BY <1>4, WriteIsWrite
<1>5. CASE Rename
  BY <1>5, RenameForgets, RenameSyncs
<1>6. CASE RemoveOld
  BY <1>6, RemoveOldForgets
<1>7. CASE Flush \/ FlushHead \/ FlushTail \/ FlushFile \/ FlushReturn \/ CloseLog \/ CloseJoin
  BY <1>7, LogStays DEF Flush, FlushHead, FlushTail, FlushFile, FlushReturn, CloseLog, CloseJoin,
     ring, disk, file, bounds
<1>8. CASE Crash
  BY <1>8, CrashIsDie
<1>9. CASE UNCHANGED vars
  BY <1>9, LogStays DEF vars, ring, disk, file, bounds
<1> QED  BY <1>1, <1>2, <1>3, <1>4, <1>5, <1>6, <1>7, <1>8, <1>9 DEF Next, Loop, Rotate, Main

\* The threads, the ring, the buffers and the rotation together are one sequence of
\* entries that grows at its end: whatever is done, and in whatever order, the files
\* lose nothing but their oldest entries, and none that was to be kept, and what
\* was safe is there after the process died.
THEOREM LogKeepsFiles == Spec => ImplementsKeptLog
<1>1. Init => KeptFiles!Init
  BY InitLog
<1>2. IInv /\ KeptInv /\ RetainInv /\ [Next]_vars => [KeptFiles!Next]_(KeptFiles!log)
  BY NextLog
<1> QED  BY <1>1, <1>2, RetainInvariance, PTL DEF Spec, ImplementsKeptLog, KeptFiles!Spec
=============================================================================
