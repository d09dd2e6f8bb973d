-------------------------- MODULE AgooQueueRefines ---------------------------
(***************************************************************************)
(* The ring buffer implements the bounded fifo, for any number of threads, *)
(* any size and any items: the first part shows that every pointer is in   *)
(* one place, the second that a step of the ring is a step of the fifo     *)
(* under the mapping (Contents, Hand) or leaves both unchanged.            *)
(***************************************************************************)
EXTENDS AgooQueueProofs, SequenceTheorems

-----------------------------------------------------------------------------
(* Every pointer is in one place *)

LEMMA InitOnePlace == Init => OnePlace
BY DEF Init, OnePlace

LEMMA PushLockOnePlace == ASSUME IInv, OnePlace, NEW p \in Pushers, PushLock(p) PROVE OnePlace'
<1>1. PICK i \in Items \ InUse : arg' = [arg EXCEPT ![p] = i]
  BY DEF PushLock
<1>2. /\ \A s \in Index : slots[s] # i
      /\ \A c \in Poppers : got[c] # i
  BY <1>1 DEF InUse
<1>3. i # NULL /\ pstep' = [pstep EXCEPT ![p] = "room"] /\ UNCHANGED <<ring, popv>>
  BY <1>1, NullAssumption DEF PushLock, PushFrom
<1> QED  BY <1>1, <1>2, <1>3 DEF IInv, TypeOK, OnePlace, ring, popv

LEMMA PushStoreOnePlace == ASSUME IInv, OnePlace, NEW p \in Pushers, PushStore(p) PROVE OnePlace'
<1>1. /\ pstep[p] = "store" /\ pstep' = [pstep EXCEPT ![p] = "advance"]
      /\ slots' = [slots EXCEPT ![tail] = arg[p]]
      /\ UNCHANGED <<head, tail, popv, arg>>
  BY DEF PushStore, PushFrom
<1>2. \A r \in Pushers : arg[r] # NULL => r = p
  BY <1>1 DEF IInv, LockInv, InPush, OnePlace
<1>3. arg[p] # NULL /\ \A s \in Index : slots[s] # arg[p]
  BY <1>1 DEF IInv, ArgInv, OnePlace
<1> QED  BY <1>1, <1>2, <1>3 DEF IInv, TypeOK, OnePlace, popv

LEMMA PushAdvanceOnePlace ==
  ASSUME IInv, OnePlace, NEW p \in Pushers, PushAdvance(p) PROVE OnePlace'
<1>1. /\ pstep[p] = "advance" /\ arg' = [arg EXCEPT ![p] = NULL]
      /\ UNCHANGED <<slots, popv>>
      /\ pstep' = [pstep EXCEPT ![p] = IF MultiPush THEN "unlock" ELSE "check"]
  BY DEF PushAdvance, PushFrom
<1>2. \A r \in Pushers : arg[r] # NULL => r = p
  BY <1>1 DEF IInv, LockInv, InPush, OnePlace
<1> QED  BY <1>1, <1>2 DEF IInv, TypeOK, OnePlace, popv

LEMMA PopTakeOnePlace == ASSUME IInv, OnePlace, NEW c \in Poppers, PopTake(c) PROVE OnePlace'
<1>1. /\ cstep[c] = "take" /\ cstep' = [cstep EXCEPT ![c] = "unlock"]
      /\ got' = [got EXCEPT ![c] = slots[head]]
      /\ slots' = [slots EXCEPT ![head] = NULL]
      /\ UNCHANGED <<tail, pstep, arg>>
  BY DEF PopTake, PopFrom, IInv, CursorInv, pushv
<1>2. \A p \in Pushers : pstep[p] = "advance" => head # tail
  BY DEF IInv, CursorInv
<1>3. \A d \in Poppers : got[d] # NULL => got[d] # slots[head]
  BY DEF IInv, TypeOK, OnePlace
<1>4. \A p \in Pushers : arg[p] # NULL => arg[p] # slots[head]
  BY <1>2 DEF IInv, TypeOK, OnePlace
<1> QED  BY <1>1, <1>2, <1>3, <1>4 DEF IInv, TypeOK, OnePlace

\* The actions that move no item
LEMMA NextOnePlace == ASSUME IInv, OnePlace, [Next]_vars PROVE OnePlace'
<1>1. ASSUME NEW p \in Pushers, PushLock(p) \/ PushStep(p) PROVE OnePlace'
  <2>1. CASE PushLock(p)  BY <2>1, PushLockOnePlace
  <2>2. CASE PushStore(p)  BY <2>2, PushStoreOnePlace
  <2>3. CASE PushAdvance(p)  BY <2>3, PushAdvanceOnePlace
  <2>4. CASE PushRoom(p)
    BY <2>4 DEF PushRoom, PushFrom, IInv, TypeOK, OnePlace, ring, popv
  <2>5. CASE PushUnlock(p)
    BY <2>5 DEF PushUnlock, PushFrom, IInv, TypeOK, OnePlace, ring, popv
  <2>6. CASE PushCheck(p)
    BY <2>6 DEF PushCheck, PushFrom, IInv, TypeOK, OnePlace, ring, popv
  <2>7. CASE PushSignal(p)
    BY <2>7 DEF PushSignal, PushFrom, IInv, TypeOK, OnePlace, ring, popv
  <2>8. CASE PushNotified(p)
    BY <2>8 DEF PushNotified, PushFrom, IInv, TypeOK, OnePlace, ring, popv
  <2> QED  BY <1>1, <2>1, <2>2, <2>3, <2>4, <2>5, <2>6, <2>7, <2>8 DEF PushStep
<1>2. ASSUME NEW c \in Poppers, NEW t \in Timeouts(c), PopLock(c, t) PROVE OnePlace'
  BY <1>2 DEF PopLock, PopFrom, IInv, TypeOK, OnePlace, ring, pushv
<1>3. ASSUME NEW c \in Poppers, PopStep(c) \/ Consume(c) PROVE OnePlace'
  <2>1. CASE PopLook(c)
    <3>1. slots[head] = NULL
      BY <2>1, LookFindsNothing DEF PopLook, PopFrom
    <3> QED  BY <2>1, <3>1 DEF PopLook, PopFrom, IInv, TypeOK, OnePlace, ring, pushv
  <2>2. CASE PopWait(c)
    BY <2>2 DEF PopWait, PopFrom, IInv, TypeOK, OnePlace, ring, pushv
  <2>3. CASE PopAdvance(c)
    BY <2>3 DEF PopAdvance, PopFrom, IInv, TypeOK, OnePlace, pushv
  <2>4. CASE PopTake(c)  BY <2>4, PopTakeOnePlace
  <2>5. CASE PopUnlock(c)
    BY <2>5 DEF PopUnlock, Return, PopFrom, IInv, TypeOK, OnePlace, ring, pushv
  <2>6. CASE ListenStep(c)
    BY <2>6 DEF ListenStep, ListenTest, ListenPipe, ListenWsock, ListenWaiting,
        ListenReturn, PopFrom,
        IInv, TypeOK, OnePlace, ring, pushv
  <2>7. CASE PollTimeout(c)
    BY <2>7 DEF PollTimeout, AfterPoll, PopFrom, IInv, TypeOK, OnePlace, ring, pushv
  <2>8. CASE PollReadable(c)
    BY <2>8 DEF PollReadable, PopFrom, IInv, TypeOK, OnePlace, ring, pushv
  <2>9. CASE Release(c)
    BY <2>9 DEF Release, AfterPoll, PopFrom, IInv, TypeOK, OnePlace, ring, pushv
  <2>10. CASE Consume(c)
    BY <2>10 DEF Consume, IInv, TypeOK, OnePlace, ring, pushv
  <2> QED  BY <1>3, <2>1, <2>2, <2>3, <2>4, <2>5, <2>6, <2>7, <2>8, <2>9, <2>10 DEF
      PopStep
<1>4. CASE Wakeup
  BY <1>4 DEF Wakeup, OnePlace, ring, pushv, popv
<1>5. CASE UNCHANGED vars
  BY <1>5 DEF OnePlace, vars, ring, pushv, popv
<1> QED  BY <1>1, <1>2, <1>3, <1>4, <1>5 DEF Next

\* No pointer is ever in two places: not pushed twice, not popped twice, and not in
\* the ring while a popper that may free it holds it.
THEOREM PointersInOnePlace == Spec => []OnePlace
<1>1. Init => OnePlace
  BY InitOnePlace
<1>2. IInv /\ OnePlace /\ [Next]_vars => OnePlace'
  BY NextOnePlace
<1> QED  BY Inductive, <1>1, <1>2, PTL DEF Spec

-----------------------------------------------------------------------------
(* The sequence of the items in the ring *)

LEMMA CountFacts ==
  ASSUME TypeOK
  PROVE  /\ Count \in 0 .. QSize - 1
         /\ Count = QSize - 1 <=> head = tail
         /\ \A k \in 1 .. Count : At(k) \in Index /\ Between(At(k))
BY QSizeFacts DEF TypeOK, Count, At, Between, Index

LEMMA ContentsFacts ==
  ASSUME IInv
  PROVE  /\ Contents \in Seq(Items)
         /\ Len(Contents) = Count /\ DOMAIN Contents = 1 .. Count
         /\ \A k \in 1 .. Count : Contents[k] = slots[At(k)] /\ slots[At(k)] \in Items
<1>1. Count \in Nat
  BY CountFacts DEF IInv
<1>2. ASSUME NEW k \in 1 .. Count PROVE slots[At(k)] \in Items
  <2>1. At(k) \in Index /\ Between(At(k))
    BY CountFacts DEF IInv
  <2>2. slots[At(k)] # NULL
    BY <2>1 DEF IInv, SlotInv
  <2> QED  BY <2>1, <2>2 DEF IInv, TypeOK, MaybeItem
<1> QED  BY <1>1, <1>2 DEF Contents

\* Nothing moves when only slots outside head .. tail change.
LEMMA ContentsStay ==
  ASSUME IInv, UNCHANGED <<head, tail>>,
         \A s \in Index : Between(s) => slots'[s] = slots[s]
  PROVE  Contents' = Contents
<1>1. Count' = Count /\ \A k : At(k)' = At(k)
  BY DEF Count, At
<1>2. \A k \in 1 .. Count : slots'[At(k)] = slots[At(k)]
  BY CountFacts DEF IInv
<1> QED  BY <1>1, <1>2 DEF Contents

\* agoo_queue_empty is right between two pops, and head = tail means full.
THEOREM EmptyIsExact == Spec => []EmptyIffEmpty
<1>1. IInv => EmptyIffEmpty
  <2> SUFFICES ASSUME IInv, \A c \in Poppers : cstep[c] # "take"
               PROVE  /\ Empty <=> Contents = <<>>
                      /\ head = tail <=> Count = QSize - 1
    BY DEF EmptyIffEmpty
  <2>1. ~Between(head)
    BY DEF IInv, TypeOK, Between, Index
  <2>2. slots[head] = NULL
    BY <2>1 DEF IInv, TypeOK, SlotInv, CursorInv
  <2>3. tail = Succ(head) <=> Count = 0
    BY QSizeFacts DEF IInv, TypeOK, Succ, Count, Index
  <2>4. Contents = <<>> <=> Count = 0
    BY ContentsFacts, CountFacts, EmptySeq DEF IInv
  <2>5. head = tail <=> Count = QSize - 1
    BY CountFacts DEF IInv
  <2> QED  BY <2>2, <2>3, <2>4, <2>5 DEF Empty
<1> QED  BY Inductive, <1>1, PTL

-----------------------------------------------------------------------------
(* The steps of the ring are steps of the fifo *)

LEMMA InitRefines == Init => Fifo!Init
<1> SUFFICES ASSUME Init PROVE Fifo!Init
  OBVIOUS
<1>1. Count = 0
  BY DEF Init, Count
<1>2. Contents = <<>>
  BY <1>1 DEF Contents
<1>3. Hand = [c \in Poppers |-> NULL]
  BY DEF Init, Hand
<1> QED  BY <1>2, <1>3 DEF Fifo!Init

\* A push puts its item when it moves tail.
LEMMA PushAdvanceRefines ==
  ASSUME IInv, OnePlace, NEW p \in Pushers, PushAdvance(p) PROVE Fifo!Put(arg[p])
<1>1. /\ pstep[p] = "advance" /\ tail' = Succ(tail)
      /\ UNCHANGED <<slots, head, cstep, got>>
  BY DEF PushAdvance, PushFrom, popv
<1>2. head # tail /\ arg[p] \in Items /\ slots[tail] = arg[p] /\ arg[p] # NULL
  BY <1>1 DEF IInv, TypeOK, CursorInv, ArgInv, OnePlace, MaybeItem
<1>3. Count \in Nat /\ Count < QSize - 1 /\ Count' = Count + 1
  BY <1>1, <1>2, QSizeFacts DEF IInv, TypeOK, Count, Succ, Index
<1>4. At(Count + 1) = tail /\ \A k : At(k)' = At(k)
  BY <1>1, <1>2, QSizeFacts DEF IInv, TypeOK, Count, At, Index
<1>5. Contents' = Append(Contents, arg[p])
  <2>1. Contents' = [k \in 1 .. Count + 1 |-> slots[At(k)]]
    BY <1>1, <1>3, <1>4 DEF Contents
  <2>2. Append(Contents, arg[p]) =
          [k \in 1 .. Count + 1 |-> IF k <= Count THEN slots[At(k)] ELSE arg[p]]
    BY <1>2, <1>3, ContentsFacts
  <2> QED  BY <1>2, <1>3, <1>4, <2>1, <2>2
<1>6. Hand' = Hand
  BY <1>1 DEF Hand
<1>7. \A k \in 1 .. Count : Contents[k] # arg[p]
  <2>1. ~Between(tail)
    BY <1>2 DEF IInv, TypeOK, Between, Index
  <2>2. \A s \in Index : slots[s] = arg[p] => s = tail
    BY <1>2 DEF OnePlace
  <2>3. \A k \in 1 .. Count : At(k) \in Index /\ Between(At(k))
    BY CountFacts DEF IInv
  <2> QED  BY <2>1, <2>2, <2>3, ContentsFacts
<1>8. \A c \in Poppers : Hand[c] # arg[p]
  BY <1>1, <1>2 DEF IInv, TypeOK, OnePlace, Hand
<1> QED  BY <1>2, <1>3, <1>5, <1>6, <1>7, <1>8, ContentsFacts DEF Fifo!Put, Fifo!Owned

\* A pop takes its item when it moves head.
LEMMA PopAdvanceRefines ==
  ASSUME IInv, OnePlace, NEW c \in Poppers, PopAdvance(c) PROVE Fifo!Take(c)
<1>1. /\ cstep[c] = "advance" /\ cstep' = [cstep EXCEPT ![c] = "take"]
      /\ head' = Succ(head) /\ tail # Succ(head)
      /\ UNCHANGED <<slots, tail, got>>
  BY DEF PopAdvance, PopFrom, IInv, CursorInv
<1>2. Count \in Nat /\ Count > 0 /\ Count' = Count - 1
  BY <1>1, QSizeFacts DEF IInv, TypeOK, Count, Succ, Index
<1>3. At(1) = Succ(head) /\ \A k \in 1 .. Count - 1 : At(k)' = At(k + 1)
  BY <1>1, <1>2, QSizeFacts DEF IInv, TypeOK, Count, At, Succ, Index
<1>4. Contents # <<>> /\ Head(Contents) = slots[Succ(head)]
  BY <1>2, <1>3, ContentsFacts
<1>5. Contents' = Tail(Contents)
  <2>1. Contents' = [k \in 1 .. Count - 1 |-> slots[At(k + 1)]]
    BY <1>1, <1>2, <1>3 DEF Contents
  <2>2. Tail(Contents) = [k \in 1 .. Count - 1 |-> slots[At(k + 1)]]
    <3>1. /\ Tail(Contents) \in Seq(Items) /\ Len(Tail(Contents)) = Count - 1
          /\ \A k \in 1 .. Count - 1 : Tail(Contents)[k] = Contents[k + 1]
      BY <1>4, ContentsFacts, HeadTailProperties
    <3>2. \A k \in 1 .. Count - 1 : Contents[k + 1] = slots[At(k + 1)]
      BY <1>2, ContentsFacts
    <3>3. Tail(Contents) \in [1 .. Count - 1 -> Items]
      BY <3>1, LenProperties
    <3> QED  BY <3>1, <3>2, <3>3
  <2> QED  BY <2>1, <2>2
<1>6. \A d \in Poppers : cstep[d] = "take" => FALSE
  BY <1>1 DEF IInv, LockInv, InPop, Waits, Waiting, Listening
<1>7. Hand = got
  BY <1>6 DEF Hand, IInv, TypeOK
<1>8. Hand' = [Hand EXCEPT ![c] = Head(Contents)]
  BY <1>1, <1>4, <1>6, <1>7 DEF Hand, IInv, TypeOK
<1>9. Hand[c] = NULL
  BY <1>1, <1>7 DEF OnePlace
<1> QED  BY <1>4, <1>5, <1>8, <1>9 DEF Fifo!Take

\* The slot is emptied into the hand that has the item already.
LEMMA PopTakeRefines ==
  ASSUME IInv, NEW c \in Poppers, PopTake(c) PROVE UNCHANGED <<Contents, Hand>>
<1>1. /\ cstep[c] = "take" /\ cstep' = [cstep EXCEPT ![c] = "unlock"]
      /\ got' = [got EXCEPT ![c] = slots[head]]
      /\ slots' = [slots EXCEPT ![head] = NULL]
      /\ UNCHANGED <<head, tail>>
  BY DEF PopTake, PopFrom, IInv, CursorInv
<1>2. ~Between(head)
  BY DEF IInv, TypeOK, Between, Index
<1>3. Contents' = Contents
  BY <1>1, <1>2, ContentsStay DEF IInv, TypeOK
<1>4. \A d \in Poppers : cstep[d] = "take" => d = c
  BY <1>1 DEF IInv, LockInv, InPop, Waits, Waiting, Listening
<1>5. Hand' = Hand
  BY <1>1, <1>4 DEF Hand, IInv, TypeOK
<1> QED  BY <1>3, <1>5

LEMMA PushStoreRefines ==
  ASSUME IInv, NEW p \in Pushers, PushStore(p) PROVE UNCHANGED <<Contents, Hand>>
<1>1. /\ pstep[p] = "store" /\ slots' = [slots EXCEPT ![tail] = arg[p]]
      /\ UNCHANGED <<head, tail, cstep, got>>
  BY DEF PushStore, PushFrom, popv
<1>2. head # tail /\ ~Between(tail)
  BY <1>1 DEF IInv, TypeOK, CursorInv, Between, Index
<1>3. Contents' = Contents
  BY <1>1, <1>2, ContentsStay DEF IInv, TypeOK
<1>4. \A c \in Poppers : slots'[head] = slots[head]
  BY <1>1, <1>2 DEF IInv, TypeOK
<1> QED  BY <1>1, <1>3, <1>4 DEF Hand

\* The caller lets go of its item.
LEMMA ConsumeRefines == ASSUME IInv, NEW c \in Poppers, Consume(c) PROVE Fifo!Done(c)
<1>1. /\ cstep[c] = "idle" /\ got[c] # NULL /\ got' = [got EXCEPT ![c] = NULL]
      /\ UNCHANGED <<ring, cstep>>
  BY DEF Consume
<1>2. Contents' = Contents
  BY <1>1, ContentsStay DEF ring
<1>3. Hand[c] # NULL /\ Hand' = [Hand EXCEPT ![c] = NULL]
  BY <1>1 DEF Hand, IInv, TypeOK, ring
<1> QED  BY <1>2, <1>3 DEF Fifo!Done

\* The pops that stay at the same item
LEMMA PopStays ==
  ASSUME IInv, NEW c \in Poppers, UNCHANGED <<ring, got>>, cstep[c] # "take",
         NEW to \in {"look", "wait", "advance", "unlock", "idle", "listen", "pipe", "wsock",
                     "waiting", "return", "poll", "release"},
         cstep' = [cstep EXCEPT ![c] = to]
  PROVE  UNCHANGED <<Contents, Hand>>
<1>1. Contents' = Contents
  BY ContentsStay DEF ring
<1>2. Hand' = Hand
  BY DEF Hand, IInv, TypeOK, ring
<1> QED  BY <1>1, <1>2

LEMMA NextRefines ==
  ASSUME IInv, OnePlace, [Next]_vars PROVE Fifo!Next \/ UNCHANGED <<Contents, Hand>>
<1>1. ASSUME UNCHANGED <<ring, cstep, got>> PROVE UNCHANGED <<Contents, Hand>>
  BY <1>1, ContentsStay DEF ring, Hand
<1>2. ASSUME NEW p \in Pushers, PushLock(p) \/ PushStep(p)
      PROVE  Fifo!Next \/ UNCHANGED <<Contents, Hand>>
  <2>1. CASE PushAdvance(p)
    <3>1. arg[p] \in Items
      BY <2>1 DEF PushAdvance, PushFrom, IInv, TypeOK, ArgInv, MaybeItem
    <3> QED  BY <2>1, <3>1, PushAdvanceRefines DEF Fifo!Next
  <2>2. CASE PushStore(p)  BY <2>2, PushStoreRefines
  <2>3. CASE PushLock(p) \/ PushRoom(p) \/ PushUnlock(p) \/ PushCheck(p) \/ PushSignal(p)
             \/ PushNotified(p)
    BY <1>1, <2>3 DEF PushLock, PushRoom, PushUnlock, PushCheck, PushSignal, PushNotified,
        popv
  <2> QED  BY <1>2, <2>1, <2>2, <2>3 DEF PushStep
<1>3. ASSUME NEW c \in Poppers, NEW t \in Timeouts(c), PopLock(c, t)
      PROVE  UNCHANGED <<Contents, Hand>>
  BY <1>3, PopStays DEF PopLock, PopFrom
<1>4. ASSUME NEW c \in Poppers, PopStep(c) \/ Consume(c)
      PROVE  Fifo!Next \/ UNCHANGED <<Contents, Hand>>
  <2>1. CASE PopLook(c)
    <3>1. slots[head] = NULL
      BY <2>1, LookFindsNothing DEF PopLook, PopFrom
    <3> QED  BY <2>1, <3>1, PopStays DEF PopLook, PopFrom
  <2>2. CASE PopAdvance(c)  BY <2>2, PopAdvanceRefines DEF Fifo!Next
  <2>3. CASE PopTake(c)  BY <2>3, PopTakeRefines
  <2>4. CASE Consume(c)  BY <2>4, ConsumeRefines DEF Fifo!Next
  <2>5. CASE PopWait(c)
    <3>1. UNCHANGED <<ring, got>> /\ cstep[c] = "wait"
          /\ \E to \in {"advance", "unlock", "listen"} : cstep' = [cstep EXCEPT ![c] = to]
      BY <2>5 DEF PopWait, PopFrom
    <3> QED  BY <3>1, PopStays
  <2>6. CASE ListenStep(c)
    <3>1. UNCHANGED <<ring, got>> /\ cstep[c] # "take"
          /\ \E to \in {"pipe", "wsock", "waiting", "return", "poll", "idle"} :
               cstep' = [cstep EXCEPT ![c] = to]
      BY <2>6 DEF ListenStep, ListenTest, ListenPipe, ListenWsock, ListenWaiting,
          ListenReturn, PopFrom
    <3> QED  BY <3>1, PopStays
  <2>7. CASE PopUnlock(c) \/ PollTimeout(c) \/ PollReadable(c) \/ Release(c)
    <3>1. UNCHANGED <<ring, got>> /\ cstep[c] # "take"
          /\ \E to \in {"idle", "wait", "poll", "release"} : cstep' = [cstep EXCEPT ![c] = to]
      BY <2>7 DEF PopUnlock, Return, PollTimeout, AfterPoll, PollReadable, Release,
          PopFrom
    <3> QED  BY <3>1, PopStays
  <2> QED  BY <1>4, <2>1, <2>2, <2>3, <2>4, <2>5, <2>6, <2>7 DEF PopStep
<1>5. CASE Wakeup
  BY <1>1, <1>5 DEF Wakeup, popv
<1>6. CASE UNCHANGED vars
  BY <1>1, <1>6 DEF vars, popv
<1> QED  BY <1>2, <1>3, <1>4, <1>5, <1>6 DEF Next

\* Every behaviour of the ring is one of the bounded fifo: whatever the threads do,
\* the items come out in the order they went in, each once, to one popper.
THEOREM RingIsFifo == Spec => ImplementsFifo
<1>1. Init => Fifo!Init
  BY InitRefines
<1>2. IInv /\ OnePlace /\ [Next]_vars => [Fifo!Next]_<<Contents, Hand>>
  BY NextRefines
<1> QED  BY Inductive, PointersInOnePlace, <1>1, <1>2, PTL
         DEF Spec, ImplementsFifo, Fifo!Spec, Fifo!fifo
=============================================================================
