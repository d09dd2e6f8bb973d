------------------------------ MODULE AgooQueue ------------------------------
(***************************************************************************)
(* The ring buffer of src/agoo/queue.c that carries connections from the   *)
(* listen thread to the connection loops, requests to the evaluation       *)
(* threads and publications to every connection loop.                      *)
(*                                                                         *)
(* A thread executes agoo_queue_push or agoo_queue_pop one shared access   *)
(* at a time; the two tables pstep and cstep are the program counters.     *)
(* An evaluation thread waits inside agoo_queue_pop, under pop_lock.  A    *)
(* connection loop (con.c) never waits there: it calls agoo_queue_listen   *)
(* once as it starts, pops with the time-out 0.0 until it gets NULL, polls *)
(* what listen returned together with its sockets, and calls               *)
(* agoo_queue_release itself when there is something to read, all of it    *)
(* without pop_lock.  The poppers of a queue are of one kind or the other, *)
(* which Init chooses.                                                     *)
(*                                                                         *)
(* Slots are indexed from 0, so q->end is QSize.  head is the slot of the  *)
(* item popped last (already emptied), tail the next open slot, and        *)
(* head = tail means full: at most QSize - 1 items are in the ring.        *)
(*                                                                         *)
(* The sleeping retry loops (dsleep(RETRY_SECS)) are guards: a thread that *)
(* cannot go on takes no step.  A pipe used to wake a waiting thread is a  *)
(* counter of unread bytes; a write to a full pipe is dropped, since both  *)
(* ends are O_NONBLOCK and the result of write is ignored.  pipe() does    *)
(* not fail.                                                               *)
(***************************************************************************)
EXTENDS Integers

CONSTANTS
  Pushers,      \* threads that call agoo_queue_push
  Poppers,      \* threads that call agoo_queue_pop
  Items,        \* the pointers that are pushed
  NULL,         \* the empty slot, and what pop returns on a timeout
  QSizeArg,     \* the qsize argument of agoo_queue_multi_init
  MultiPush,    \* the multi_push argument
  MultiPop,     \* the multi_pop argument
  WaitCnts,     \* timeouts an evaluation thread gives to pop, in units of WAIT_MSECS
  PipeMax,      \* bytes a pipe holds
  MaxPipes      \* pipes the process may open

\* agoo_queue_multi_init raises a size below 4 to 4.
QSize == IF QSizeArg < 4 THEN 4 ELSE QSizeArg

ASSUME QSizeAssumption == QSizeArg \in Nat
ASSUME NullAssumption  == NULL \notin Items
\* A queue made without the push (pop) lock is used by one pusher (popper).
ASSUME PushAssumption  == /\ MultiPush \in BOOLEAN
                          /\ ~MultiPush => \A p, r \in Pushers : p = r
ASSUME PopAssumption   == /\ MultiPop \in BOOLEAN
                          /\ ~MultiPop => \A c, d \in Poppers : c = d
ASSUME WaitAssumption  == WaitCnts \subseteq Nat
ASSUME PipeAssumption  == PipeMax \in Nat \ {0} /\ MaxPipes \in Nat \ {0}

Index       == 0 .. QSize - 1
MaybeItem   == Items \cup {NULL}
WaitState   == {"NOT_WAITING", "WAITING", "NOTIFIED"}
Pipes       == 1 .. MaxPipes

VARIABLES
  slots,        \* q->q
  head,         \* q->head
  tail,         \* q->tail
  push_lock,    \* q->push_lock
  pop_lock,     \* q->pop_lock
  wait_state,   \* q->wait_state
  rsock,        \* q->rsock, the read end of a pipe, or 0
  wsock,        \* q->wsock, the write end of a pipe, or 0
  opened,       \* the number of pipes opened so far
  bytes,        \* unread bytes in each pipe
  pstep,        \* where each pusher is in agoo_queue_push
  arg,          \* the item each pusher is pushing
  cstep,        \* where each popper is in agoo_queue_pop
  nxt,          \* the local variable next of each popper
  cnt,          \* the local variable cnt of each popper
  fd,           \* the pipe each popper opened, then the one it polls
  got,          \* the local variable item of each popper, then the item it owns
  loops         \* the poppers that are connection loops: a choice that stays

ring  == <<slots, head, tail>>
pipe  == <<wait_state, rsock, wsock, opened, bytes>>
pushv == <<pstep, arg, push_lock>>
popv  == <<cstep, nxt, cnt, fd, got, pop_lock, loops>>
vars  == <<ring, pipe, pushv, popv>>

\* Mutant: the wrap comes one slot late.
SuccLate(i) == IF QSize < i + 1 THEN 0 ELSE i + 1

\* "++" on a slot pointer with the wrap at q->end.
Succ(i) == IF QSize <= i + 1 THEN 0 ELSE i + 1

\* A pointer the program holds somewhere: it is not pushed again before the
\* popper that received it is done with it.
InUse == {i \in Items : \/ \E s \in Index : slots[s] = i
                        \/ \E p \in Pushers : arg[p] = i
                        \/ \E c \in Poppers : got[c] = i}

Init ==
  /\ slots = [s \in Index |-> NULL]
  /\ head = 0 /\ tail = 1
  /\ push_lock = FALSE /\ pop_lock = FALSE
  /\ wait_state = "NOT_WAITING"
  /\ rsock = 0 /\ wsock = 0 /\ opened = 0
  /\ bytes = [d \in Pipes |-> 0]
  /\ pstep = [p \in Pushers |-> "idle"]
  /\ arg = [p \in Pushers |-> NULL]
  /\ loops \in {{}, Poppers}
  /\ cstep = [c \in Poppers |-> IF c \in loops THEN "listen" ELSE "idle"]
  /\ nxt = [c \in Poppers |-> 0]
  /\ cnt = [c \in Poppers |-> 0]
  /\ fd = [c \in Poppers |-> 0]
  /\ got = [c \in Poppers |-> NULL]

-----------------------------------------------------------------------------
(* agoo_queue_push *)

PushFrom(p, from, to) == pstep[p] = from /\ pstep' = [pstep EXCEPT ![p] = to]

\* Mutant: push_lock is set without a test.
PushLockNoTest(p) ==
  /\ PushFrom(p, "idle", "room")
  /\ push_lock' = MultiPush
  /\ \E i \in Items \ InUse : arg' = [arg EXCEPT ![p] = i]
  /\ UNCHANGED <<ring, pipe, popv>>

\* The call, up to the acquisition of push_lock.
PushLock(p) ==
  /\ PushFrom(p, "idle", "room")
  /\ MultiPush => ~push_lock
  /\ push_lock' = MultiPush
  /\ \E i \in Items \ InUse : arg' = [arg EXCEPT ![p] = i]
  /\ UNCHANGED <<ring, pipe, popv>>

\* Mutant: a push does not wait for room.
PushRoomAlways(p) ==
  /\ PushFrom(p, "room", "store")
  /\ UNCHANGED <<ring, pipe, popv, arg, push_lock>>

\* "Wait for head to move on."
PushRoom(p) ==
  /\ PushFrom(p, "room", "store")
  /\ head # tail
  /\ UNCHANGED <<ring, pipe, popv, arg, push_lock>>

PushStore(p) ==
  /\ PushFrom(p, "store", "advance")
  /\ slots' = [slots EXCEPT ![tail] = arg[p]]
  /\ UNCHANGED <<head, tail, pipe, popv, arg, push_lock>>

PushAdvance(p) ==
  /\ PushFrom(p, "advance", IF MultiPush THEN "unlock" ELSE "check")
  /\ tail' = Succ(tail)
  /\ arg' = [arg EXCEPT ![p] = NULL]
  /\ UNCHANGED <<slots, head, pipe, popv, push_lock>>

PushUnlock(p) ==
  /\ PushFrom(p, "unlock", "check")
  /\ push_lock' = FALSE
  /\ UNCHANGED <<ring, pipe, popv, arg>>

\* The test of wsock and wait_state.
PushCheck(p) ==
  /\ PushFrom(p, "check", IF wsock # 0 /\ wait_state = "WAITING" THEN "signal" ELSE "idle")
  /\ UNCHANGED <<ring, pipe, popv, arg, push_lock>>

WriteByte == bytes' = [bytes EXCEPT ![wsock] = IF @ < PipeMax THEN @ + 1 ELSE @]

PushSignal(p) ==
  /\ PushFrom(p, "signal", "notified")
  /\ WriteByte
  /\ UNCHANGED <<ring, wait_state, rsock, wsock, opened, popv, arg, push_lock>>

PushNotified(p) ==
  /\ PushFrom(p, "notified", "idle")
  /\ wait_state' = "NOTIFIED"
  /\ UNCHANGED <<ring, rsock, wsock, opened, bytes, popv, arg, push_lock>>

\* agoo_queue_wakeup, called by any thread.
Wakeup ==
  /\ wsock # 0
  /\ WriteByte
  /\ UNCHANGED <<ring, wait_state, rsock, wsock, opened, pushv, popv>>

-----------------------------------------------------------------------------
(* agoo_queue_pop *)

PopFrom(c, from, to) == /\ cstep[c] = from
                        /\ cstep' = [cstep EXCEPT ![c] = to]
                        /\ UNCHANGED loops

\* The timeout argument: a loop gives 0.0.
Timeouts(c) == IF c \in loops THEN {0} ELSE WaitCnts

\* The call, up to the acquisition of pop_lock.
PopLock(c, timeout) ==
  /\ PopFrom(c, "idle", "look")
  /\ got[c] = NULL
  /\ MultiPop => ~pop_lock
  /\ pop_lock' = MultiPop
  /\ cnt' = [cnt EXCEPT ![c] = timeout]
  /\ UNCHANGED <<ring, pipe, pushv, nxt, fd, got>>

\* item = *head; an item there is returned at once.
PopLook(c) ==
  IF slots[head] # NULL
  THEN /\ PopFrom(c, "look", "unlock")
       /\ slots' = [slots EXCEPT ![head] = NULL]
       /\ got' = [got EXCEPT ![c] = slots[head]]
       /\ UNCHANGED <<head, tail, pipe, pushv, nxt, cnt, fd, pop_lock>>
  ELSE /\ PopFrom(c, "look", "wait")
       /\ nxt' = [nxt EXCEPT ![c] = Succ(head)]
       /\ UNCHANGED <<ring, pipe, pushv, cnt, fd, got, pop_lock>>

\* Mutants: a timeout still pops; the last item of the ring is waited on.
PopWaitTimeout(c) ==
  /\ PopFrom(c, "wait", IF tail = nxt[c] /\ cnt[c] > 0 THEN "listen" ELSE "advance")
  /\ UNCHANGED <<ring, pipe, pushv, nxt, cnt, fd, got, pop_lock>>
PopWaitTwo(c) ==
  /\ PopFrom(c, "wait", CASE tail \notin {nxt[c], Succ(nxt[c])} -> "advance"
                          [] tail \in {nxt[c], Succ(nxt[c])} /\ cnt[c] <= 0 -> "unlock"
                          [] OTHER -> "listen")
  /\ UNCHANGED <<ring, pipe, pushv, nxt, cnt, fd, got, pop_lock>>

\* The condition of the waiting loop and the test of cnt.
PopWait(c) ==
  /\ PopFrom(c, "wait", CASE tail # nxt[c] -> "advance"
                          [] tail = nxt[c] /\ cnt[c] <= 0 -> "unlock"
                          [] OTHER -> "listen")
  /\ UNCHANGED <<ring, pipe, pushv, nxt, cnt, fd, got, pop_lock>>

PopAdvance(c) ==
  /\ PopFrom(c, "advance", "take")
  /\ head' = nxt[c]
  /\ UNCHANGED <<slots, tail, pipe, pushv, nxt, cnt, fd, got, pop_lock>>

\* Mutant: the slot keeps the item.
PopTakeKeep(c) ==
  /\ PopFrom(c, "take", "unlock")
  /\ got' = [got EXCEPT ![c] = slots[nxt[c]]]
  /\ UNCHANGED <<ring, pipe, pushv, nxt, cnt, fd, pop_lock>>

PopTake(c) ==
  /\ PopFrom(c, "take", "unlock")
  /\ got' = [got EXCEPT ![c] = slots[nxt[c]]]
  /\ slots' = [slots EXCEPT ![nxt[c]] = NULL]
  /\ UNCHANGED <<head, tail, pipe, pushv, nxt, cnt, fd, pop_lock>>

\* Where pop returns to.  A loop that got NULL goes on to poll in con_loop, and
\* pops once more if it was in con_queue_ready_read or pub_queue_ready_read.
Return(c) == IF c \in loops /\ got[c] = NULL THEN {"idle", "poll"} ELSE {"idle"}

\* The other local variables end with the call; a loop keeps its descriptor.
PopUnlock(c) ==
  /\ \E to \in Return(c) : PopFrom(c, "unlock", to)
  /\ pop_lock' = FALSE
  /\ nxt' = [nxt EXCEPT ![c] = 0]
  /\ cnt' = [cnt EXCEPT ![c] = 0]
  /\ fd' = [fd EXCEPT ![c] = IF c \in loops THEN @ ELSE 0]
  /\ UNCHANGED <<ring, pipe, pushv, got>>

\* The caller is done with the item: it handled and freed it (as eval_loop does).
Consume(c) ==
  /\ cstep[c] = "idle"
  /\ got[c] # NULL
  /\ got' = [got EXCEPT ![c] = NULL]
  /\ UNCHANGED <<ring, pipe, pushv, cstep, nxt, cnt, fd, pop_lock, loops>>

(* agoo_queue_listen: called inside pop, or by a loop as it starts *)

\* Mutant: every call opens a pipe.
ListenTestNot(c) ==
  /\ PopFrom(c, "listen", "pipe")
  /\ UNCHANGED <<ring, pipe, pushv, nxt, cnt, fd, got, pop_lock>>

\* The test of rsock.
ListenTest(c) ==
  /\ PopFrom(c, "listen", IF rsock = 0 THEN "pipe" ELSE "waiting")
  /\ UNCHANGED <<ring, pipe, pushv, nxt, cnt, fd, got, pop_lock>>

ListenPipe(c) ==
  /\ PopFrom(c, "pipe", "wsock")
  /\ opened < MaxPipes
  /\ opened' = opened + 1
  /\ fd' = [fd EXCEPT ![c] = opened + 1]
  /\ rsock' = opened + 1
  /\ UNCHANGED <<ring, wait_state, wsock, bytes, pushv, nxt, cnt, got, pop_lock>>

ListenWsock(c) ==
  /\ PopFrom(c, "wsock", "waiting")
  /\ wsock' = fd[c]
  /\ UNCHANGED <<ring, wait_state, rsock, opened, bytes, pushv, nxt, cnt, fd, got, pop_lock>>

ListenWaiting(c) ==
  /\ PopFrom(c, "waiting", "return")
  /\ wait_state' = "WAITING"
  /\ UNCHANGED <<ring, rsock, wsock, opened, bytes, pushv, nxt, cnt, fd, got, pop_lock>>

\* return q->rsock, to poll or to the loop's ready table
ListenReturn(c) ==
  /\ PopFrom(c, "return", IF c \in loops THEN "idle" ELSE "poll")
  /\ fd' = [fd EXCEPT ![c] = rsock]
  /\ UNCHANGED <<ring, pipe, pushv, nxt, cnt, got, pop_lock>>

\* After poll pop tests again whether there is an item, a loop calls pop.
AfterPoll(c, from) ==
  /\ PopFrom(c, from, IF c \in loops THEN "idle" ELSE "wait")
  /\ cnt' = [cnt EXCEPT ![c] = IF c \in loops THEN 0 ELSE @ - 1]

\* Mutant: poll() has no timeout.
PollForever(c) == FALSE /\ UNCHANGED vars

\* poll() returns after WAIT_MSECS, or agoo_ready_go after MAX_WAIT or for
\* another socket, with nothing to read here.
PollTimeout(c) ==
  /\ AfterPoll(c, "poll")
  /\ bytes[fd[c]] = 0
  /\ UNCHANGED <<ring, pipe, pushv, nxt, fd, got, pop_lock>>

\* poll() returns as the pipe is readable: agoo_queue_release empties the pipe of
\* the queue, which is the one polled unless another loop opened its own
PollReadable(c) ==
  /\ PopFrom(c, "poll", "release")
  /\ bytes[fd[c]] > 0
  /\ bytes' = [bytes EXCEPT ![rsock] = 0]
  /\ UNCHANGED <<ring, wait_state, rsock, wsock, opened, pushv, nxt, cnt, fd, got, pop_lock>>

\* and then says that nobody waits.
Release(c) ==
  /\ AfterPoll(c, "release")
  /\ wait_state' = "NOT_WAITING"
  /\ UNCHANGED <<ring, rsock, wsock, opened, bytes, pushv, nxt, fd, got, pop_lock>>

-----------------------------------------------------------------------------
PushStep(p) == \/ PushRoom(p) \/ PushStore(p) \/ PushAdvance(p) \/ PushUnlock(p)
               \/ PushCheck(p) \/ PushSignal(p) \/ PushNotified(p)

ListenStep(c) == \/ ListenTest(c) \/ ListenPipe(c) \/ ListenWsock(c) \/ ListenWaiting(c)
                 \/ ListenReturn(c)

PopStep(c) == \/ PopLook(c) \/ PopWait(c) \/ PopAdvance(c) \/ PopTake(c) \/ PopUnlock(c)
              \/ ListenStep(c)
              \/ PollTimeout(c) \/ PollReadable(c) \/ Release(c)

Next == \/ \E p \in Pushers : PushLock(p) \/ PushStep(p)
        \/ \E c \in Poppers : (\E t \in Timeouts(c) : PopLock(c, t)) \/ PopStep(c) \/ Consume(c)
        \/ Wakeup

\* Threads are scheduled: one that is inside push or pop goes on when it can,
\* and a popper handles what it got and calls pop again and again, as every
\* loop of the program does.  The spin locks are not fair.
Fairness == /\ \A p \in Pushers : WF_vars(PushStep(p))
            /\ \A c \in Poppers : WF_vars(PopStep(c)) /\ WF_vars(Consume(c))
            /\ \A c \in Poppers : WF_vars(\E t \in Timeouts(c) : PopLock(c, t))

Spec     == Init /\ [][Next]_vars
FairSpec == Spec /\ Fairness

-----------------------------------------------------------------------------
(* Properties *)

\* Every variable has its type.
TypeOK ==
  /\ slots \in [Index -> MaybeItem]
  /\ head \in Index /\ tail \in Index
  /\ push_lock \in BOOLEAN /\ pop_lock \in BOOLEAN
  /\ wait_state \in WaitState
  /\ opened \in Pipes \cup {0}
  /\ rsock \in 0 .. opened /\ wsock \in 0 .. opened
  /\ bytes \in [Pipes -> 0 .. PipeMax]
  /\ pstep \in [Pushers -> {"idle", "room", "store", "advance", "unlock",
                            "check", "signal", "notified"}]
  /\ arg \in [Pushers -> MaybeItem]
  /\ cstep \in [Poppers -> {"idle", "look", "wait", "advance", "take", "unlock", "listen",
                            "pipe", "wsock", "waiting", "return", "poll", "release"}]
  /\ nxt \in [Poppers -> Index]
  /\ cnt \in [Poppers -> Nat]
  /\ fd \in [Poppers -> 0 .. opened]
  /\ got \in [Poppers -> MaybeItem]
  /\ loops \in {{}, Poppers}

\* In agoo_queue_listen, or on the way to the next test in pop.
Listening == {"listen", "pipe", "wsock", "waiting", "return"}
Waiting   == Listening \cup {"poll", "release"}

InPush(p) == pstep[p] \in {"room", "store", "advance", "unlock"}
Waits(c)  == c \notin loops /\ cstep[c] \in Waiting
InPop(c)  == cstep[c] \in {"look", "wait", "advance", "take", "unlock"} \/ Waits(c)

\* The thread has the descriptor listen returned and polls it, or will.
Polling(c) == \/ cstep[c] \in {"poll", "release"}
              \/ c \in loops /\ cstep[c] \notin Listening

\* The lock flags are set exactly while some thread is between acquiring and
\* clearing them, and that thread is the only one there (queue.c:75-93 and
\* 113-154; without the flag the queue has one pusher, or one popper).
LockInv ==
  /\ \A p, r \in Pushers : InPush(p) /\ InPush(r) => p = r
  /\ \A c, d \in Poppers : InPop(c) /\ InPop(d) => c = d
  /\ MultiPush => (push_lock <=> \E p \in Pushers : InPush(p))
  /\ MultiPop  => (pop_lock <=> \E c \in Poppers : InPop(c))

\* Strictly between head and tail, going round the ring; all slots but the
\* head when the two meet.
Between(s) == IF head < tail THEN head < s /\ s < tail ELSE s > head \/ s < tail

\* A slot holds an item exactly when it is between head and tail, or is the
\* tail a push has written and not yet moved, or the head a pop has reached and
\* not yet emptied: "tail points to next open space" (queue.c:25).
SlotInv ==
  \A s \in Index :
    slots[s] # NULL <=> \/ Between(s)
                        \/ s = tail /\ \E p \in Pushers : pstep[p] = "advance"
                        \/ s = head /\ \E c \in Poppers : cstep[c] = "take"

\* What a thread has read of head or tail still tells it where it may go, though
\* the other side moves meanwhile: a push past the wait for room is not at a full
\* ring, a pop past the wait for an item has one (queue.c:81-90, 127-149).
CursorInv ==
  /\ \A p \in Pushers : pstep[p] \in {"store", "advance"} => head # tail
  /\ \A c \in Poppers :
       /\ cstep[c] \in {"wait", "advance"} \/ Waits(c) => nxt[c] = Succ(head)
       /\ cstep[c] = "take" => nxt[c] = head
       /\ cstep[c] = "advance" => tail # nxt[c]
       /\ Waits(c) => cnt[c] > 0
       /\ c \in loops => cnt[c] = 0

\* A pushed item is not NULL until its push is over.
ArgInv == \A p \in Pushers : pstep[p] \in {"room", "store", "advance"} => arg[p] # NULL

\* One pipe is opened, and every thread polls the end of it that a pusher or
\* agoo_queue_wakeup writes to.
OnePipe ==
  /\ rsock = opened /\ opened <= 1
  /\ \A c \in Poppers :
       /\ cstep[c] = "pipe" => rsock = 0
       /\ cstep[c] \in {"waiting", "return"} \/ Polling(c) => wsock = 1
  /\ rsock # wsock => \E c \in Poppers : cstep[c] = "wsock"

\* A thread never polls descriptor 0: the pipe is open before listen returns.
\* There is one pipe when the threads that listen are evaluation threads, which do
\* it under pop_lock, or one loop, as for every pub_queue.  Several loops share
\* con_queue and listen without a lock: each may find rsock = 0 and open a pipe of
\* its own (queue.c:174-188, con.c:1322-1323).
PipeInv ==
  /\ \A c \in Poppers :
       /\ cstep[c] \in {"wsock", "waiting", "return"} \/ Polling(c) => rsock # 0
       /\ cstep[c] = "wsock" \/ Polling(c) => fd[c] # 0
  /\ (\A c, d \in loops : c = d) => OnePipe

\* The inductive invariant: each part needs the others.
IInv == TypeOK /\ LockInv /\ SlotInv /\ CursorInv /\ ArgInv /\ PipeInv

\* A push never stores over an item that was not popped (queue.c:84).
NoOverwrite == \A p \in Pushers : pstep[p] = "store" => slots[tail] = NULL

\* A pop that has moved head finds the item there: the NULL pop returns means a
\* timeout and nothing else (queue.c:149-155).
PopFindsItem == \A c \in Poppers : cstep[c] = "take" => slots[nxt[c]] # NULL

\* The slot at head is always empty when pop looks at it, so the early return of
\* queue.c:120-126 is never taken and no item is popped twice.
HeadEmpty == \A c \in Poppers : cstep[c] = "look" => slots[head] = NULL

\* Every pointer is in one place, the ring, the hands of one pusher or of one
\* popper: between two steps no thread holds an item another one may free.
OnePlace ==
  /\ \A s, t \in Index : slots[s] # NULL /\ slots[s] = slots[t] => s = t
  /\ \A p \in Pushers : arg[p] # NULL =>
       /\ pstep[p] \in {"room", "store", "advance"}
       /\ \A s \in Index : slots[s] = arg[p] <=> pstep[p] = "advance" /\ s = tail
       /\ \A c \in Poppers : got[c] # arg[p]
  /\ \A c \in Poppers : got[c] # NULL =>
       /\ cstep[c] \in {"unlock", "idle"}
       /\ \A s \in Index : slots[s] # got[c]
       /\ \A d \in Poppers : got[d] = got[c] => d = c

\* agoo_queue_empty
Empty == slots[head] = NULL /\ tail = Succ(head)

\* The number of items in the ring, and the items from the oldest on.
Count == IF head < tail THEN tail - head - 1 ELSE tail - head - 1 + QSize

At(k) == IF head + k < QSize THEN head + k ELSE head + k - QSize

Contents == [k \in 1 .. Count |-> slots[At(k)]]

\* Between two pops agoo_queue_empty says that the ring is empty exactly when it
\* is; "When head == tail the queue is full" (queue.c:26).
EmptyIffEmpty ==
  (\A c \in Poppers : cstep[c] # "take") => /\ Empty <=> Contents = <<>>
                                            /\ head = tail <=> Count = QSize - 1

\* The queue is a bounded fifo: put when tail moves, taken when head moves.
Hand == [c \in Poppers |-> IF cstep[c] = "take" THEN slots[head] ELSE got[c]]

Fifo == INSTANCE BoundedFifo
          WITH Holders <- Poppers, Capacity <- QSize - 1, queue <- Contents, hand <- Hand

\* Every behaviour of the ring is one of the bounded fifo: nothing lost,
\* duplicated or reordered by any interleaving of pushes and pops.
ImplementsFifo == Fifo!Spec

\* As long as threads run, what is in the ring is taken.
ImplementsFairFifo == Fifo!FairSpec

\* An item whose push is past the lock reaches a popper, with the ring full, the
\* wait times over and wake-ups lost.
Delivered ==
  \A i \in Items :
    (\E p \in Pushers : pstep[p] = "room" /\ arg[p] = i) ~> (\E c \in Poppers : got[c] = i)
=============================================================================
