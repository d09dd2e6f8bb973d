--------------------------- MODULE AgooQueueProofs ---------------------------
(***************************************************************************)
(* Type correctness and the safety invariants of the ring buffer, for any  *)
(* number of threads, any size and any items.  IInv is inductive: one      *)
(* lemma for each action, and under it one step for each part of IInv that *)
(* the action can disturb.                                                 *)
(***************************************************************************)
EXTENDS AgooQueue, TLAPS

LEMMA QSizeFacts == QSize \in Nat /\ QSize >= 4
BY QSizeAssumption DEF QSize

LEMMA SuccFacts == ASSUME NEW i \in Index PROVE Succ(i) \in Index /\ Succ(i) # i
BY QSizeFacts DEF Index, Succ

LEMMA InitInv == Init => IInv
<1> SUFFICES ASSUME Init PROVE IInv
  OBVIOUS
<1>1. TypeOK
  <2>1. 0 \in Index /\ 1 \in Index
    BY QSizeFacts DEF Index
  <2>2. bytes \in [Pipes -> 0 .. PipeMax] /\ nxt \in [Poppers -> Index]
    BY <2>1, PipeAssumption DEF Init
  <2>3. slots \in [Index -> MaybeItem] /\ head \in Index /\ tail \in Index
    BY <2>1 DEF Init, MaybeItem
  <2>4. opened = 0 /\ rsock = 0 /\ wsock = 0 /\ 0 \in 0 .. 0
    BY DEF Init
  <2>5. /\ arg \in [Pushers -> MaybeItem] /\ got \in [Poppers -> MaybeItem]
        /\ cnt \in [Poppers -> Nat] /\ fd \in [Poppers -> 0 .. opened]
    BY <2>4 DEF Init, MaybeItem
  <2> QED  BY <2>2, <2>3, <2>4, <2>5 DEF Init, TypeOK, WaitState
<1>2. LockInv /\ ArgInv /\ PipeInv
  BY DEF Init, LockInv, InPush, InPop, Waits, Waiting, Listening, ArgInv, PipeInv,
      OnePipe, Polling
<1>3. SlotInv /\ CursorInv
  BY QSizeFacts DEF Init, SlotInv, Between, CursorInv, Waits, Waiting, Listening, Index
<1> QED  BY <1>1, <1>2, <1>3 DEF IInv

-----------------------------------------------------------------------------
(* agoo_queue_push *)

LEMMA PushLockStep == ASSUME IInv, NEW p \in Pushers, PushLock(p) PROVE IInv'
<1> USE DEF IInv
<1>1. TypeOK'
  BY PushAssumption DEF TypeOK, MaybeItem, PushLock, PushFrom, ring, pipe, popv
<1>2. LockInv'
  BY PushAssumption DEF TypeOK, LockInv, InPush, InPop, Waits, Waiting, Listening,
      PushLock, PushFrom, ring, pipe, popv
<1>3. SlotInv' /\ CursorInv'
  BY DEF TypeOK, SlotInv, Between, CursorInv, Waits, Waiting, Listening, PushLock,
      PushFrom, ring, pipe, popv
<1>4. ArgInv'
  BY NullAssumption DEF TypeOK, ArgInv, PushLock, PushFrom, ring, pipe, popv
<1>5. PipeInv'
  BY DEF TypeOK, PipeInv, OnePipe, Polling, Listening, PushLock, PushFrom, ring, pipe,
      popv
<1> QED  BY <1>1, <1>2, <1>3, <1>4, <1>5

LEMMA PushRoomStep == ASSUME IInv, NEW p \in Pushers, PushRoom(p) PROVE IInv'
<1> USE DEF IInv
<1>1. TypeOK'
  BY DEF TypeOK, MaybeItem, PushRoom, PushFrom, ring, pipe, popv
<1>2. LockInv'
  BY PushAssumption DEF TypeOK, LockInv, InPush, InPop, Waits, Waiting, Listening,
      PushRoom, PushFrom, ring, pipe, popv
<1>3. SlotInv' /\ CursorInv'
  BY DEF TypeOK, SlotInv, Between, CursorInv, Waits, Waiting, Listening, PushRoom,
      PushFrom, ring, pipe, popv
<1>4. ArgInv' /\ PipeInv'
  BY DEF TypeOK, ArgInv, PipeInv, OnePipe, Polling, Listening, PushRoom, PushFrom, ring,
      pipe, popv
<1> QED  BY <1>1, <1>2, <1>3, <1>4

LEMMA PushStoreStep == ASSUME IInv, NEW p \in Pushers, PushStore(p) PROVE IInv'
<1> USE DEF IInv
<1>1. TypeOK'
  BY DEF TypeOK, MaybeItem, PushStore, PushFrom, pipe, popv
<1>2. LockInv'
  BY PushAssumption DEF TypeOK, LockInv, InPush, InPop, Waits, Waiting, Listening,
      PushStore, PushFrom, pipe, popv
<1>3. SlotInv'
  BY QSizeFacts DEF TypeOK, SlotInv, Between, LockInv, InPush, CursorInv, ArgInv, Index,
      PushStore, PushFrom, pipe, popv
<1>4. CursorInv'
  BY DEF TypeOK, CursorInv, Waits, Waiting, Listening, PushStore, PushFrom, pipe, popv
<1>5. ArgInv' /\ PipeInv'
  BY DEF TypeOK, ArgInv, PipeInv, OnePipe, Polling, Listening, PushStore, PushFrom, pipe,
      popv
<1> QED  BY <1>1, <1>2, <1>3, <1>4, <1>5

LEMMA PushAdvanceStep == ASSUME IInv, NEW p \in Pushers, PushAdvance(p) PROVE IInv'
<1> USE DEF IInv
<1>1. TypeOK'
  BY SuccFacts DEF TypeOK, MaybeItem, PushAdvance, PushFrom, pipe, popv
<1>2. LockInv'
  BY PushAssumption DEF TypeOK, LockInv, InPush, InPop, Waits, Waiting, Listening,
      PushAdvance, PushFrom, pipe, popv
<1>3. SlotInv'
  BY QSizeFacts DEF TypeOK, SlotInv, Between, LockInv, InPush, CursorInv, Index, Succ,
      PushAdvance, PushFrom, pipe, popv
<1>4. CursorInv'
  BY QSizeFacts DEF TypeOK, CursorInv, Waits, Waiting, Listening, LockInv, InPush, Index,
      Succ, PushAdvance, PushFrom, pipe, popv
<1>5. ArgInv' /\ PipeInv'
  BY DEF TypeOK, ArgInv, PipeInv, OnePipe, Polling, Listening, PushAdvance, PushFrom,
      pipe, popv
<1> QED  BY <1>1, <1>2, <1>3, <1>4, <1>5

LEMMA PushUnlockStep == ASSUME IInv, NEW p \in Pushers, PushUnlock(p) PROVE IInv'
<1> USE DEF IInv
<1>1. TypeOK'
  BY DEF TypeOK, MaybeItem, PushUnlock, PushFrom, ring, pipe, popv
<1>2. LockInv'
  BY DEF TypeOK, LockInv, InPush, InPop, Waits, Waiting, Listening, PushUnlock, PushFrom,
      ring, pipe, popv
<1>3. SlotInv' /\ CursorInv' /\ ArgInv' /\ PipeInv'
  BY DEF TypeOK, SlotInv, Between, CursorInv, Waits, Waiting, Listening, ArgInv, PipeInv,
      OnePipe, Polling, PushUnlock, PushFrom, ring, pipe, popv
<1> QED  BY <1>1, <1>2, <1>3

LEMMA PushCheckStep == ASSUME IInv, NEW p \in Pushers, PushCheck(p) PROVE IInv'
<1> USE DEF IInv
<1>1. TypeOK'
  BY DEF TypeOK, MaybeItem, PushCheck, PushFrom, ring, pipe, popv
<1>2. LockInv'
  BY DEF TypeOK, LockInv, InPush, InPop, Waits, Waiting, Listening, PushCheck, PushFrom,
      ring, pipe, popv
<1>3. SlotInv' /\ CursorInv' /\ ArgInv' /\ PipeInv'
  BY DEF TypeOK, SlotInv, Between, CursorInv, Waits, Waiting, Listening, ArgInv, PipeInv,
      OnePipe, Polling, PushCheck, PushFrom, ring, pipe, popv
<1> QED  BY <1>1, <1>2, <1>3

LEMMA PushSignalStep == ASSUME IInv, NEW p \in Pushers, PushSignal(p) PROVE IInv'
<1> USE DEF IInv
<1>1. TypeOK'
  <2>1. wsock \in Pipes \cup {0}
    BY PipeAssumption DEF TypeOK, Pipes
  <2>2. bytes' \in [Pipes -> 0 .. PipeMax]
    <3>1. CASE wsock \in Pipes
      <4>1. bytes[wsock] \in 0 .. PipeMax
         BY <3>1 DEF TypeOK
      <4>2. (IF bytes[wsock] < PipeMax THEN bytes[wsock] + 1 ELSE bytes[wsock]) \in 0 .. PipeMax
         BY <4>1, PipeAssumption
      <4> QED BY <4>2 DEF TypeOK, PushSignal, WriteByte
    <3>2. CASE wsock \notin Pipes
      BY <3>2 DEF TypeOK, PushSignal, WriteByte
    <3> QED BY <3>1, <3>2
  <2> QED  BY <2>2 DEF TypeOK, PushSignal, PushFrom, ring, popv
<1>2. LockInv'
  BY DEF TypeOK, LockInv, InPush, InPop, Waits, Waiting, Listening, PushSignal, PushFrom,
      ring, popv
<1>3. SlotInv' /\ CursorInv' /\ ArgInv' /\ PipeInv'
  BY DEF TypeOK, SlotInv, Between, CursorInv, Waits, Waiting, Listening, ArgInv, PipeInv,
      OnePipe, Polling, PushSignal, PushFrom, ring, popv
<1> QED  BY <1>1, <1>2, <1>3

LEMMA PushNotifiedStep == ASSUME IInv, NEW p \in Pushers, PushNotified(p) PROVE IInv'
<1> USE DEF IInv
<1>1. TypeOK'
  BY DEF TypeOK, MaybeItem, WaitState, PushNotified, PushFrom, ring, popv
<1>2. LockInv'
  BY DEF TypeOK, LockInv, InPush, InPop, Waits, Waiting, Listening, PushNotified,
      PushFrom, ring, popv
<1>3. SlotInv' /\ CursorInv' /\ ArgInv' /\ PipeInv'
  BY DEF TypeOK, SlotInv, Between, CursorInv, Waits, Waiting, Listening, ArgInv, PipeInv,
      OnePipe, Polling, PushNotified, PushFrom, ring, popv
<1> QED  BY <1>1, <1>2, <1>3

-----------------------------------------------------------------------------
(* agoo_queue_pop *)

LEMMA TimeoutFacts ==
  ASSUME NEW c, NEW t \in Timeouts(c) PROVE t \in Nat /\ (c \in loops => t = 0)
BY WaitAssumption DEF Timeouts

LEMMA PopLockStep ==
  ASSUME IInv, NEW c \in Poppers, NEW t \in Timeouts(c), PopLock(c, t) PROVE IInv'
<1> USE DEF IInv
<1>1. TypeOK'
  BY TimeoutFacts, PopAssumption DEF TypeOK, PopLock, PopFrom, ring, pipe, pushv
<1>2. LockInv'
  BY PopAssumption DEF TypeOK, LockInv, InPush, InPop, Waits, Waiting, Listening, PopLock,
      PopFrom, ring, pipe, pushv
<1>3. SlotInv' /\ CursorInv'
  BY TimeoutFacts DEF TypeOK, SlotInv, Between, CursorInv, Waits, Waiting, Listening,
      PopLock, PopFrom, ring, pipe, pushv
<1>4. ArgInv' /\ PipeInv'
  BY DEF TypeOK, ArgInv, PipeInv, OnePipe, Polling, Listening, PopLock, PopFrom, ring,
      pipe, pushv
<1> QED  BY <1>1, <1>2, <1>3, <1>4

LEMMA PopLookStep == ASSUME IInv, NEW c \in Poppers, PopLook(c) PROVE IInv'
<1> USE DEF IInv
<1>1. slots[head] = NULL
  <2>1. cstep[c] = "look"
    BY DEF PopLook, PopFrom
  <2>2. \A d \in Poppers : cstep[d] # "take"
    BY <2>1 DEF TypeOK, LockInv, InPop, Waits, Waiting, Listening
  <2>3. \A p \in Pushers : pstep[p] = "advance" => head # tail
    BY DEF CursorInv
  <2> QED BY <2>2, <2>3, QSizeFacts DEF TypeOK, SlotInv, Between, Index
<1>2. /\ PopFrom(c, "look", "wait")
      /\ nxt' = [nxt EXCEPT ![c] = Succ(head)]
      /\ UNCHANGED <<ring, pipe, pushv, cnt, fd, got, pop_lock>>
  BY <1>1 DEF PopLook
<1>3. TypeOK'
  BY <1>2, SuccFacts DEF TypeOK, PopFrom, ring, pipe, pushv
<1>4. LockInv'
  BY <1>2 DEF TypeOK, LockInv, InPop, Waits, Waiting, Listening, InPush, PopFrom, pushv
<1>5. SlotInv'
  BY <1>2 DEF TypeOK, SlotInv, Between, PopFrom, ring, pushv
<1>6. CursorInv'
  BY <1>2 DEF TypeOK, CursorInv, Waits, Waiting, Listening, PopFrom, ring, pushv
<1>7. ArgInv' /\ PipeInv'
  BY <1>2 DEF TypeOK, ArgInv, PipeInv, OnePipe, Polling, Listening, PopFrom, pipe, pushv
<1> QED  BY <1>3, <1>4, <1>5, <1>6, <1>7

LEMMA PopWaitStep == ASSUME IInv, NEW c \in Poppers, PopWait(c) PROVE IInv'
<1> USE DEF IInv
<1>1. /\ cstep[c] = "wait"
      /\ \E to \in {"advance", "unlock", "listen"} :
           /\ cstep' = [cstep EXCEPT ![c] = to]
           /\ to = "advance" => tail # nxt[c]
           /\ to = "listen" => cnt[c] > 0
      /\ UNCHANGED <<ring, pipe, pushv, nxt, cnt, fd, got, pop_lock, loops>>
  <2>1. tail = nxt[c] /\ ~(cnt[c] <= 0) => cnt[c] > 0
    BY DEF TypeOK
  <2> QED  BY <2>1 DEF PopWait, PopFrom
<1>2. c \in loops => cstep'[c] # "listen"
  BY <1>1 DEF TypeOK, CursorInv
<1>3. TypeOK'
  BY <1>1 DEF TypeOK, ring, pipe, pushv
<1>4. LockInv'
  BY <1>1, <1>2 DEF TypeOK, LockInv, InPush, InPop, Waits, Waiting, Listening, pushv
<1>5. SlotInv' /\ CursorInv' /\ ArgInv'
  BY <1>1 DEF TypeOK, SlotInv, Between, CursorInv, Waits, Waiting, Listening, ArgInv,
      ring, pushv
<1>6. PipeInv'
  BY <1>1, <1>2 DEF TypeOK, PipeInv, OnePipe, Polling, Listening, pipe
<1> QED  BY <1>3, <1>4, <1>5, <1>6

LEMMA PopAdvanceStep == ASSUME IInv, NEW c \in Poppers, PopAdvance(c) PROVE IInv'
<1> USE DEF IInv
<1>1. TypeOK'
  BY DEF TypeOK, MaybeItem, PopAdvance, PopFrom, pipe, pushv
<1>2. LockInv'
  BY DEF TypeOK, LockInv, InPush, InPop, Waits, Waiting, Listening, PopAdvance, PopFrom,
      pipe, pushv
<1>3. SlotInv'
  <2>1. \A d \in Poppers : cstep[d] # "take"
    BY DEF TypeOK, LockInv, InPop, Waits, Waiting, Listening, PopAdvance, PopFrom
  <2>2. head' = Succ(head) /\ head' # tail /\ slots' = slots /\ pstep' = pstep /\ tail' = tail
    BY DEF TypeOK, CursorInv, PopAdvance, PopFrom, pushv
  <2>3. cstep'[c] = "take"
    BY DEF TypeOK, PopAdvance, PopFrom
  <2>4. \A s \in Index : Between(s) <=> s = head' \/ Between(s)'
    BY <2>2, QSizeFacts DEF TypeOK, Between, Index, Succ
  <2> QED BY <2>1, <2>2, <2>3, <2>4 DEF SlotInv
<1>4. CursorInv'
  BY QSizeFacts DEF TypeOK, CursorInv, Waits, Waiting, Listening, LockInv, InPop, Index,
      Succ, PopAdvance, PopFrom, pipe, pushv
<1>5. ArgInv' /\ PipeInv'
  BY DEF TypeOK, ArgInv, PipeInv, OnePipe, Polling, Listening, PopAdvance, PopFrom, pipe,
      pushv
<1> QED  BY <1>1, <1>2, <1>3, <1>4, <1>5

LEMMA PopTakeStep == ASSUME IInv, NEW c \in Poppers, PopTake(c) PROVE IInv'
<1> USE DEF IInv
<1>1. TypeOK'
  BY DEF TypeOK, MaybeItem, PopTake, PopFrom, pipe, pushv
<1>2. LockInv'
  BY DEF TypeOK, LockInv, InPush, InPop, Waits, Waiting, Listening, PopTake, PopFrom,
      pipe, pushv
<1>3. SlotInv'
  <2>1. \A d \in Poppers : cstep'[d] # "take"
    BY DEF TypeOK, LockInv, InPop, Waits, Waiting, Listening, PopTake, PopFrom
  <2>2. nxt[c] = head /\ head \in Index
    BY DEF TypeOK, CursorInv, PopTake, PopFrom
  <2>3. slots' = [slots EXCEPT ![head] = NULL] /\ head' = head /\ tail' = tail /\ pstep' = pstep
    BY <2>2 DEF PopTake, pushv
  <2> QED BY <2>1, <2>2, <2>3, QSizeFacts DEF TypeOK, SlotInv, CursorInv, Between, Index
<1>4. CursorInv'
  BY DEF TypeOK, CursorInv, Waits, Waiting, Listening, PopTake, PopFrom, pipe, pushv
<1>5. ArgInv' /\ PipeInv'
  BY DEF TypeOK, ArgInv, PipeInv, OnePipe, Polling, Listening, PopTake, PopFrom, pipe,
      pushv
<1> QED  BY <1>1, <1>2, <1>3, <1>4, <1>5

LEMMA PopUnlockStep == ASSUME IInv, NEW c \in Poppers, PopUnlock(c) PROVE IInv'
<1> USE DEF IInv
<1>1. TypeOK'
  <2>1. 0 \in Index
    BY QSizeFacts DEF Index
  <2>2. nxt' \in [Poppers -> Index]
    BY <2>1 DEF TypeOK, PopUnlock
  <2>3. cnt' \in [Poppers -> Nat] /\ fd' \in [Poppers -> 0 .. opened]
    BY PipeAssumption DEF TypeOK, Pipes, PopUnlock
  <2>4. \E to \in {"idle", "poll"} : PopFrom(c, "unlock", to)
    BY DEF PopUnlock, Return
  <2> QED  BY <2>2, <2>3, <2>4 DEF TypeOK, PopUnlock, PopFrom, ring, pipe, pushv
<1>2. LockInv'
  BY DEF TypeOK, LockInv, InPush, InPop, Waits, Waiting, Listening, PopUnlock, Return,
      PopFrom, ring, pipe, pushv
<1>3. SlotInv' /\ CursorInv' /\ ArgInv' /\ PipeInv'
  BY DEF TypeOK, SlotInv, Between, CursorInv, Waits, Waiting, Listening, ArgInv, PipeInv,
      OnePipe, Polling, PopUnlock, Return, PopFrom, ring, pipe, pushv
<1> QED  BY <1>1, <1>2, <1>3

LEMMA ConsumeStep == ASSUME IInv, NEW c \in Poppers, Consume(c) PROVE IInv'
<1> USE DEF IInv
<1>1. TypeOK'
  BY DEF TypeOK, MaybeItem, Consume, PopFrom, ring, pipe, pushv
<1>2. LockInv'
  BY DEF TypeOK, LockInv, InPush, InPop, Waits, Waiting, Listening, Consume, PopFrom,
      ring, pipe, pushv
<1>3. SlotInv' /\ CursorInv' /\ ArgInv' /\ PipeInv'
  BY DEF TypeOK, SlotInv, Between, CursorInv, Waits, Waiting, Listening, ArgInv, PipeInv,
      OnePipe, Polling, Consume, PopFrom, ring, pipe, pushv
<1> QED  BY <1>1, <1>2, <1>3

-----------------------------------------------------------------------------
(* agoo_queue_listen, poll and agoo_queue_release *)

LEMMA ListenTestStep == ASSUME IInv, NEW c \in Poppers, ListenTest(c) PROVE IInv'
<1> USE DEF IInv
<1>1. TypeOK'
  BY DEF TypeOK, MaybeItem, ListenTest, PopFrom, ring, pipe, pushv
<1>2. LockInv' /\ SlotInv' /\ CursorInv' /\ ArgInv'
  BY DEF TypeOK, LockInv, InPush, InPop, Waits, Waiting, Listening, SlotInv, Between,
      CursorInv, ArgInv, ListenTest, PopFrom, ring, pipe, pushv
<1>3. PipeInv'
  <2>1. ASSUME OnePipe, \A a, b \in loops : a = b PROVE OnePipe'
    <3>1. \A d \in Poppers : d # c => cstep[d] \notin Listening
      BY <2>1 DEF TypeOK, LockInv, InPop, Waits, Waiting, Listening, ListenTest, PopFrom
    <3>2. rsock = wsock
      BY <2>1, <3>1 DEF OnePipe, Listening, ListenTest, PopFrom
    <3> QED BY <2>1, <3>1, <3>2 DEF OnePipe, Polling, Listening, TypeOK, ListenTest, PopFrom, pipe
  <2> QED BY <2>1 DEF PipeInv, Polling, Listening, TypeOK, ListenTest, PopFrom, pipe
<1> QED  BY <1>1, <1>2, <1>3

LEMMA ListenPipeStep == ASSUME IInv, NEW c \in Poppers, ListenPipe(c) PROVE IInv'
<1> USE DEF IInv
<1>1. TypeOK'
  BY PipeAssumption DEF TypeOK, MaybeItem, Pipes, ListenPipe, PopFrom, ring, pushv
<1>2. LockInv' /\ SlotInv' /\ CursorInv' /\ ArgInv'
  BY DEF TypeOK, LockInv, InPush, InPop, Waits, Waiting, Listening, SlotInv, Between,
      CursorInv, ArgInv, ListenPipe, PopFrom, ring, pushv
<1>3. PipeInv'
  <2>1. ASSUME OnePipe, \A a, b \in loops : a = b PROVE OnePipe'
    <3>1. \A d \in Poppers : d # c => cstep[d] \notin Listening /\ ~Polling(d)
      BY <2>1 DEF TypeOK, LockInv, InPop, Waits, Waiting, Listening, PipeInv, Polling, OnePipe,
          ListenPipe, PopFrom
    <3>2. opened = 0 /\ wsock = 0 /\ opened' = 1 /\ rsock' = 1 /\ wsock' = 0
      <4>1. rsock = 0 /\ opened = 0
        BY <2>1 DEF OnePipe, ListenPipe, PopFrom
      <4> QED BY <4>1 DEF TypeOK, ListenPipe, pushv
    <3>3. cstep' = [cstep EXCEPT ![c] = "wsock"] /\ loops' = loops
      BY DEF ListenPipe, PopFrom
    <3> QED BY <3>1, <3>2, <3>3 DEF TypeOK, OnePipe, Polling, Listening
  <2>2. /\ cstep' = [cstep EXCEPT ![c] = "wsock"] /\ UNCHANGED loops
        /\ fd' = [fd EXCEPT ![c] = rsock'] /\ rsock' # 0
    BY DEF TypeOK, Pipes, ListenPipe, PopFrom
  <2> QED BY <2>1, <2>2 DEF PipeInv, TypeOK, Polling, Listening
<1> QED  BY <1>1, <1>2, <1>3

LEMMA ListenWsockStep == ASSUME IInv, NEW c \in Poppers, ListenWsock(c) PROVE IInv'
<1> USE DEF IInv
<1>1. TypeOK'
  BY DEF TypeOK, MaybeItem, ListenWsock, PopFrom, ring, pushv
<1>2. LockInv' /\ SlotInv' /\ CursorInv' /\ ArgInv'
  BY DEF TypeOK, LockInv, InPush, InPop, Waits, Waiting, Listening, SlotInv, Between,
      CursorInv, ArgInv, ListenWsock, PopFrom, ring, pushv
<1>3. PipeInv'
  <2>1. ASSUME OnePipe PROVE OnePipe'
    <3>1. fd[c] = 1 /\ rsock = 1
      BY <2>1 DEF TypeOK, PipeInv, OnePipe, ListenWsock, PopFrom
    <3> QED BY <2>1, <3>1 DEF TypeOK, OnePipe, Polling, Listening, ListenWsock, PopFrom
  <2> QED BY <2>1 DEF TypeOK, PipeInv, Polling, Listening, ListenWsock, PopFrom
<1> QED  BY <1>1, <1>2, <1>3

LEMMA ListenWaitingStep == ASSUME IInv, NEW c \in Poppers, ListenWaiting(c) PROVE IInv'
<1> USE DEF IInv
<1>1. TypeOK'
  BY DEF TypeOK, MaybeItem, WaitState, ListenWaiting, PopFrom, ring, pushv
<1>2. LockInv' /\ SlotInv' /\ CursorInv' /\ ArgInv'
  BY DEF TypeOK, LockInv, InPush, InPop, Waits, Waiting, Listening, SlotInv, Between,
      CursorInv, ArgInv, ListenWaiting, PopFrom, ring, pushv
<1>3. PipeInv'
  BY DEF TypeOK, PipeInv, OnePipe, Polling, Listening, ListenWaiting, PopFrom, ring, pushv
<1> QED  BY <1>1, <1>2, <1>3

LEMMA ListenReturnStep == ASSUME IInv, NEW c \in Poppers, ListenReturn(c) PROVE IInv'
<1> USE DEF IInv
<1>1. TypeOK'
  BY DEF TypeOK, MaybeItem, ListenReturn, PopFrom, ring, pipe, pushv
<1>2. LockInv' /\ SlotInv' /\ CursorInv' /\ ArgInv'
  BY DEF TypeOK, LockInv, InPush, InPop, Waits, Waiting, Listening, SlotInv, Between,
      CursorInv, ArgInv, ListenReturn, PopFrom, ring, pipe, pushv
<1>3. PipeInv'
  BY DEF TypeOK, PipeInv, OnePipe, Polling, Listening, ListenReturn, PopFrom, ring, pipe, pushv
<1> QED  BY <1>1, <1>2, <1>3

LEMMA PollTimeoutStep == ASSUME IInv, NEW c \in Poppers, PollTimeout(c) PROVE IInv'
<1> USE DEF IInv
<1>1. TypeOK'
  BY DEF TypeOK, MaybeItem, CursorInv, Waits, Waiting, Listening, PollTimeout, AfterPoll,
      PopFrom, ring, pipe, pushv
<1>2. LockInv' /\ SlotInv' /\ CursorInv' /\ ArgInv'
  BY DEF TypeOK, LockInv, InPush, InPop, Waits, Listening, SlotInv, Between, CursorInv,
      Waiting, ArgInv, PollTimeout, AfterPoll, PopFrom, ring, pipe, pushv
<1>3. PipeInv'
  BY DEF TypeOK, PipeInv, OnePipe, Polling, Listening, PollTimeout, AfterPoll, PopFrom,
      ring, pipe, pushv
<1> QED  BY <1>1, <1>2, <1>3

LEMMA PollReadableStep == ASSUME IInv, NEW c \in Poppers, PollReadable(c) PROVE IInv'
<1> USE DEF IInv
<1>1. TypeOK'
  <2>1. bytes' \in [Pipes -> 0 .. PipeMax]
    <3>1. 0 \in 0 .. PipeMax
      BY PipeAssumption
    <3>2. bytes' = [bytes EXCEPT ![rsock] = 0]
      BY DEF PollReadable
    <3> QED  BY <3>1, <3>2 DEF TypeOK
  <2> QED  BY <2>1 DEF TypeOK, PollReadable, PopFrom, ring, pushv
<1>2. LockInv' /\ SlotInv' /\ CursorInv' /\ ArgInv'
  BY DEF TypeOK, LockInv, InPush, InPop, Waits, Listening, SlotInv, Between, CursorInv,
      Waiting, ArgInv, PollReadable, PopFrom, ring, pushv
<1>3. PipeInv'
  BY DEF TypeOK, PipeInv, OnePipe, Polling, Listening, PollReadable, PopFrom, ring, pushv
<1> QED  BY <1>1, <1>2, <1>3

LEMMA ReleaseStep == ASSUME IInv, NEW c \in Poppers, Release(c) PROVE IInv'
<1> USE DEF IInv
<1>1. TypeOK'
  BY DEF TypeOK, MaybeItem, CursorInv, Waits, Waiting, Listening, WaitState, Release,
      AfterPoll, PopFrom, ring, pushv
<1>2. LockInv' /\ SlotInv' /\ CursorInv' /\ ArgInv'
  BY DEF TypeOK, LockInv, InPush, InPop, Waits, Listening, SlotInv, Between, CursorInv,
      Waiting, ArgInv, Release, AfterPoll, PopFrom, ring, pushv
<1>3. PipeInv'
  BY DEF TypeOK, PipeInv, OnePipe, Polling, Listening, Release, AfterPoll, PopFrom, ring,
      pushv
<1> QED  BY <1>1, <1>2, <1>3

LEMMA WakeupStep == ASSUME IInv, Wakeup PROVE IInv'
<1> USE DEF IInv
<1>1. TypeOK'
  <2>1. wsock \in Pipes \cup {0}
    BY PipeAssumption DEF TypeOK, Pipes
  <2>2. bytes' \in [Pipes -> 0 .. PipeMax]
    <3>1. CASE wsock \in Pipes
      <4>1. bytes[wsock] \in 0 .. PipeMax
         BY <3>1 DEF TypeOK
      <4>2. (IF bytes[wsock] < PipeMax THEN bytes[wsock] + 1 ELSE bytes[wsock]) \in 0 .. PipeMax
         BY <4>1, PipeAssumption
      <4> QED BY <4>2 DEF TypeOK, Wakeup, WriteByte
    <3>2. CASE wsock \notin Pipes
      BY <3>2 DEF TypeOK, Wakeup, WriteByte
    <3> QED BY <3>1, <3>2
  <2> QED  BY <2>2 DEF TypeOK, Wakeup, ring, pushv, popv
<1>2. LockInv' /\ SlotInv' /\ CursorInv' /\ ArgInv' /\ PipeInv'
  BY DEF TypeOK, LockInv, InPush, InPop, Waits, Listening, SlotInv, Between, CursorInv,
      Waiting, ArgInv, PipeInv, OnePipe, Polling, Wakeup, ring, pushv, popv
<1> QED  BY <1>1, <1>2

-----------------------------------------------------------------------------
LEMMA NextInv == IInv /\ [Next]_vars => IInv'
<1> SUFFICES ASSUME IInv, [Next]_vars PROVE IInv'
  OBVIOUS
<1>1. ASSUME NEW p \in Pushers, PushLock(p) \/ PushStep(p) PROVE IInv'
  BY <1>1, PushLockStep, PushRoomStep, PushStoreStep, PushAdvanceStep,
    PushUnlockStep, PushCheckStep, PushSignalStep, PushNotifiedStep DEF PushStep
<1>2. ASSUME NEW c \in Poppers, NEW t \in Timeouts(c), PopLock(c, t) PROVE IInv'
  BY <1>2, PopLockStep
<1>3. ASSUME NEW c \in Poppers, PopStep(c) \/ Consume(c) PROVE IInv'
  BY <1>3, PopLookStep, PopWaitStep, PopAdvanceStep, PopTakeStep,
    PopUnlockStep, ConsumeStep, ListenTestStep, ListenPipeStep,
    ListenWsockStep, ListenWaitingStep, ListenReturnStep, PollTimeoutStep, PollReadableStep,
    ReleaseStep DEF PopStep, ListenStep
<1>4. CASE UNCHANGED vars
  BY <1>4 DEF IInv, vars, ring, pipe, pushv, popv, TypeOK, LockInv, InPush, InPop, Waits,
      Waiting, Listening, SlotInv, Between, CursorInv, ArgInv, PipeInv, OnePipe, Polling
<1> QED  BY <1>1, <1>2, <1>3, <1>4, WakeupStep DEF Next

\* The inductive invariant holds in every reachable state.
THEOREM Inductive == Spec => []IInv
  BY InitInv, NextInv, PTL DEF Spec

\* Every variable keeps its type.
THEOREM TypeCorrect == Spec => []TypeOK
<1>1. IInv => TypeOK
  BY DEF IInv
<1> QED  BY Inductive, <1>1, PTL

\* The locks exclude, for any number of pushers and poppers.
THEOREM MutualExclusion == Spec => []LockInv
<1>1. IInv => LockInv
  BY DEF IInv
<1> QED  BY Inductive, <1>1, PTL

\* The slots that hold items are the ones between head and tail.
THEOREM SlotsBetween == Spec => []SlotInv
<1>1. IInv => SlotInv
  BY DEF IInv
<1> QED  BY Inductive, <1>1, PTL

\* No push stores over an item: the pusher that writes is not at a full ring, so
\* its slot is outside head .. tail and empty.
THEOREM PushesDoNotOverwrite == Spec => []NoOverwrite
<1>1. IInv => NoOverwrite
  <2> SUFFICES ASSUME IInv, NEW p \in Pushers, pstep[p] = "store"
               PROVE  slots[tail] = NULL
    BY DEF NoOverwrite
  <2>1. head # tail
    BY DEF IInv, CursorInv
  <2>2. \A r \in Pushers : pstep[r] # "advance"
    BY DEF IInv, LockInv, InPush
  <2>3. ~Between(tail)
    BY <2>1 DEF IInv, TypeOK, Between, Index
  <2> QED  BY <2>1, <2>2, <2>3 DEF IInv, TypeOK, SlotInv
<1> QED  BY Inductive, <1>1, PTL

\* A pop that moved head always finds an item.
THEOREM PopsFindItems == Spec => []PopFindsItem
<1>1. IInv => PopFindsItem
  BY DEF IInv, TypeOK, SlotInv, CursorInv, PopFindsItem
<1> QED  BY Inductive, <1>1, PTL

LEMMA LookFindsNothing ==
  ASSUME IInv, NEW c \in Poppers, cstep[c] = "look" PROVE slots[head] = NULL
<1>1. \A d \in Poppers : cstep[d] # "take"
  BY DEF IInv, LockInv, InPop, Waits, Waiting, Listening
<1>2. \A p \in Pushers : pstep[p] = "advance" => head # tail
  BY DEF IInv, CursorInv
<1>3. ~Between(head)
  BY DEF IInv, TypeOK, Between, Index
<1> QED  BY <1>1, <1>2, <1>3 DEF IInv, TypeOK, SlotInv

\* The early return of pop is never taken.
THEOREM HeadIsEmpty == Spec => []HeadEmpty
<1>1. IInv => HeadEmpty
  BY LookFindsNothing DEF HeadEmpty
<1> QED  BY Inductive, <1>1, PTL

\* A thread that polls has a pipe, and with one loop or with evaluation threads
\* the only one there is.
THEOREM PipeOpen == Spec => []PipeInv
<1>1. IInv => PipeInv
  BY DEF IInv
<1> QED  BY Inductive, <1>1, PTL
=============================================================================
