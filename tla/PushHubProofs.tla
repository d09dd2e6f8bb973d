---------------------------- MODULE PushHubProofs ----------------------------
(***************************************************************************)
(* The counts of the Upgraded objects and the order of what is sent, for   *)
(* any number of loops, threads, connections and calls, and any limit.     *)
(* Core says where a thread is in its call, and what is pending; it is     *)
(* inductive.  On it rest the invariants of the limit (WritesInv), of the  *)
(* order (OrderInv) and of the references (RefInv).  The last one is about *)
(* callers that do not write in a callback, or have no limit: the finding  *)
(* of upgraded.c:121 is about the others.                                  *)
(***************************************************************************)
EXTENDS PushHub, TLAPS, FiniteSetTheorems, SequenceTheorems

-----------------------------------------------------------------------------
(* Sets that change by one element *)

Bit(b) == IF b THEN 1 ELSE 0

\* A counter that one of many owners changes by one
LEMMA CountUp ==
  ASSUME NEW S, NEW f \in [S -> Int], NEW u, NEW v \in S
  PROVE  [f EXCEPT ![u] = @ + 1][v] = f[v] + Bit(v = u)
BY DEF Bit

LEMMA CountDown ==
  ASSUME NEW S, NEW f \in [S -> Int], NEW u, NEW v \in S
  PROVE  [f EXCEPT ![u] = @ - 1][v] = f[v] + (-Bit(v = u))
BY DEF Bit

LEMMA SetOne ==
  ASSUME NEW S, IsFiniteSet(S), NEW T, NEW x, \A y : y # x => (y \in T <=> y \in S)
  PROVE  /\ IsFiniteSet(T) /\ Cardinality(S) \in Nat /\ Cardinality(T) \in Nat
         /\ Cardinality(T) = Cardinality(S) + Bit(x \in T) - Bit(x \in S)
         /\ x \in S => Cardinality(S) > 0
<1>1. /\ IsFiniteSet(S \ {x})
      /\ Cardinality(S \ {x}) = IF x \in S THEN Cardinality(S) - 1 ELSE Cardinality(S)
  BY FS_RemoveElement
<1>2. Cardinality(S) \in Nat /\ Cardinality(S \ {x}) \in Nat
  BY <1>1, FS_CardinalityType
<1>3. CASE x \in T
  <2>1. T = (S \ {x}) \cup {x} /\ x \notin S \ {x}
    BY <1>3
  <2>2. IsFiniteSet(T) /\ Cardinality(T) = Cardinality(S \ {x}) + 1
    BY <1>1, <2>1, FS_AddElement
  <2> QED  BY <1>1, <1>2, <1>3, <2>2 DEF Bit
<1>4. CASE x \notin T
  <2>1. T = S \ {x}
    BY <1>4
  <2> QED  BY <1>1, <1>2, <1>4, <2>1 DEF Bit
<1> QED  BY <1>3, <1>4

\* An index that every element moves down by does not change how many there are.
LEMMA ShiftCard ==
  ASSUME NEW S, IsFiniteSet(S), NEW T, NEW f, f \in Bijection(S, T)
  PROVE  IsFiniteSet(T) /\ Cardinality(T) = Cardinality(S)
BY FS_Bijection DEF ExistsBijection

-----------------------------------------------------------------------------
(* The counts *)

Admitting(u) == {t \in Threads : thr[t].at = "admit" /\ thr[t].up = u}

LEMMA WaitingFinite ==
  ASSUME TypeOK, NEW l \in Loops, NEW u
  PROVE  IsFiniteSet(Waiting(l, u)) /\ Waiting(l, u) \subseteq Nat
<1>1. queue[l] \in Seq(PubSet) /\ Len(queue[l]) \in Nat
  BY LenProperties DEF TypeOK
<1>2. Waiting(l, u) \subseteq 0 .. Len(queue[l])
  BY <1>1 DEF Waiting
<1>3. IsFiniteSet(0 .. Len(queue[l]))
  BY <1>1, FS_Interval
<1> HIDE DEF Waiting
<1>4. IsFiniteSet(Waiting(l, u))
  BY <1>2, <1>3, FS_Subset
<1> QED  BY <1>1, <1>2, <1>4

LEMMA CopiesFinite == ASSUME TypeOK, NEW u PROVE IsFiniteSet(Copies(u))
<1> DEFINE Of(l) == {l} \X Waiting(l, u)
           f == [l \in Loops |-> Of(l)]
           All == {Of(l) : l \in Loops}
<1>1. IsFiniteSet(Loops)
  BY LoopAssumption, FS_Interval DEF Loops
<1>2. \A l \in Loops : IsFiniteSet(Of(l))
  <2> TAKE l \in Loops
  <2>1. IsFiniteSet(Waiting(l, u)) /\ IsFiniteSet({l})
    BY WaitingFinite, FS_Singleton
  <2> QED  BY <2>1, FS_Product
<1>3. f \in Surjection(Loops, All)
  BY DEF Surjection
<1>4. IsFiniteSet(All)
  BY <1>1, <1>3, FS_Surjection
<1>5. Copies(u) = UNION All
  BY DEF Copies
<1> HIDE DEF All, Of
<1>6. \A T \in All : IsFiniteSet(T)
  BY <1>2 DEF All
<1> QED  BY <1>4, <1>5, <1>6, FS_UNION

\* What waits on a loop is in the counts as long as the loop has it.
LEMMA CopiesAre ==
  ASSUME NEW u, NEW l, NEW i
  PROVE  <<l, i>> \in Copies(u) <=> l \in Loops /\ i \in Waiting(l, u)
BY DEF Copies

LEMMA CopiesPairs ==
  ASSUME NEW u, NEW x \in Copies(u)
  PROVE  \E l \in Loops : \E i \in Waiting(l, u) : x = <<l, i>>
BY DEF Copies

LEMMA ThreadsFinite ==
  ASSUME NEW u
  PROVE  /\ IsFiniteSet(Pushers(u)) /\ IsFiniteSet(Callers(u)) /\ IsFiniteSet(ToPush(u))
         /\ IsFiniteSet(WritesToPush(u)) /\ IsFiniteSet(Admitting(u))
         /\ Cardinality(WritesToPush(u)) <= Cardinality(ToPush(u))
         /\ Cardinality(Admitting(u)) <= Cardinality(Threads)
<1>1. /\ Pushers(u) \subseteq Threads /\ Callers(u) \subseteq Threads /\ ToPush(u) \subseteq Threads
      /\ WritesToPush(u) \subseteq ToPush(u) /\ Admitting(u) \subseteq Threads
  BY DEF Pushers, Callers, ToPush, WritesToPush, Admitting
<1>2. IsFiniteSet(ToPush(u))
  BY <1>1, ThreadAssumption, FS_Subset
<1> QED  BY <1>1, <1>2, ThreadAssumption, FS_Subset

\* One thread moves.
LEMMA ThreadStep ==
  ASSUME NEW t \in Threads, \A s \in Threads \ {t} : thr'[s] = thr[s], NEW u
  PROVE  /\ Cardinality(Pushers(u)') =
              Cardinality(Pushers(u)) + Bit(t \in Pushers(u)') - Bit(t \in Pushers(u))
         /\ Cardinality(Callers(u)') =
              Cardinality(Callers(u)) + Bit(t \in Callers(u)') - Bit(t \in Callers(u))
         /\ Cardinality(ToPush(u)') =
              Cardinality(ToPush(u)) + Bit(t \in ToPush(u)') - Bit(t \in ToPush(u))
         /\ Cardinality(WritesToPush(u)') =
              Cardinality(WritesToPush(u)) + Bit(t \in WritesToPush(u)') - Bit(t \in WritesToPush(u))
         /\ Cardinality(Admitting(u)') =
              Cardinality(Admitting(u)) + Bit(t \in Admitting(u)') - Bit(t \in Admitting(u))
<1>1. \A s : s # t => (s \in Pushers(u)' <=> s \in Pushers(u))
  BY DEF Pushers
<1>2. \A s : s # t => (s \in Callers(u)' <=> s \in Callers(u))
  BY DEF Callers
<1>3. \A s : s # t => (s \in ToPush(u)' <=> s \in ToPush(u))
  BY <1>1 DEF ToPush, Pushers
<1>4. \A s : s # t => (s \in WritesToPush(u)' <=> s \in WritesToPush(u))
  BY <1>3 DEF WritesToPush, ToPush, Pushers
<1>5. \A s : s # t => (s \in Admitting(u)' <=> s \in Admitting(u))
  BY DEF Admitting
<1> QED  BY <1>1, <1>2, <1>3, <1>4, <1>5, ThreadsFinite, SetOne

\* Nothing moves on the loops.
LEMMA LoopsStay ==
  ASSUME UNCHANGED <<queue, cur>>, NEW u
  PROVE  /\ Copies(u)' = Copies(u) /\ WaitingWrites(u)' = WaitingWrites(u)
         /\ \A l : Waiting(l, u)' = Waiting(l, u)
BY DEF Copies, Waiting, WaitingWrites

LEMMA ThreadsStay ==
  ASSUME UNCHANGED thr, NEW u
  PROVE  /\ Pushers(u)' = Pushers(u) /\ Callers(u)' = Callers(u) /\ ToPush(u)' = ToPush(u)
         /\ WritesToPush(u)' = WritesToPush(u) /\ Admitting(u)' = Admitting(u)
BY DEF Pushers, Callers, ToPush, WritesToPush, Admitting

\* All counts are natural numbers.
LEMMA CountsNat ==
  ASSUME TypeOK, NEW u \in Ups
  PROVE  /\ Cardinality(Copies(u)) \in Nat /\ Cardinality(Pushers(u)) \in Nat
         /\ Cardinality(Callers(u)) \in Nat /\ Cardinality(ToPush(u)) \in Nat
         /\ Cardinality(Waiting(Home[u], u)) \in Nat /\ Undone(u) \in Nat
         /\ Cardinality(WaitingWrites(u)) \in Nat /\ Cardinality(WritesToPush(u)) \in Nat
         /\ Cardinality(Admitting(u)) \in Nat /\ Cardinality(Threads) \in Nat
         /\ UndoneWrites(u) \in Nat /\ UndoneWrites(u) <= Undone(u)
         /\ Holders(u) \in Nat
<1>1. Home[u] \in Loops
  BY LoopAssumption DEF Loops
<1>2. IsFiniteSet(Waiting(Home[u], u)) /\ WaitingWrites(u) \subseteq Waiting(Home[u], u)
  BY <1>1, WaitingFinite DEF WaitingWrites
<1>3. IsFiniteSet(WaitingWrites(u)) /\ Cardinality(WaitingWrites(u)) <= Cardinality(Waiting(Home[u], u))
  BY <1>2, FS_Subset
<1>4. /\ Cardinality(Copies(u)) \in Nat /\ Cardinality(Pushers(u)) \in Nat
      /\ Cardinality(Callers(u)) \in Nat /\ Cardinality(ToPush(u)) \in Nat
      /\ Cardinality(Waiting(Home[u], u)) \in Nat
      /\ Cardinality(WaitingWrites(u)) \in Nat /\ Cardinality(WritesToPush(u)) \in Nat
      /\ Cardinality(Admitting(u)) \in Nat /\ Cardinality(Threads) \in Nat
  BY <1>2, <1>3, CopiesFinite, ThreadsFinite, ThreadAssumption, FS_CardinalityType
<1>5. Cardinality(WritesToPush(u)) <= Cardinality(ToPush(u))
  BY ThreadsFinite
<1>6. evals[u] \in Nat
  BY DEF TypeOK
<1> QED  BY <1>3, <1>4, <1>5, <1>6 DEF Undone, UndoneWrites, Holders


-----------------------------------------------------------------------------
(* Where a thread is, and what is pending *)

Calling(t) == thr[t].at \in {"limit", "admit", "push"}
Writing(t) == thr[t].at \in {"limit", "admit"}

\* A thread in a call has the publication it makes, about its Upgraded.
InCall(t) ==
  /\ thr[t].at = "idle" => thr[t].up = NULL
  /\ thr[t].at = "callback" => thr[t].up # NULL
  /\ Writing(t) => /\ thr[t].up # NULL /\ thr[t].next = 1 /\ thr[t].pub.kind = "WRITE"
                   /\ thr[t].inc => CallbackWrites
  /\ Calling(t) => /\ thr[t].pub # NULL /\ thr[t].next # 0
                   /\ thr[t].pub.up = thr[t].up
                   /\ thr[t].pub.by # NULL => thr[t].pub.by[1] = t
                   /\ thr[t].inc => thr[t].up # NULL

ThreadInv == \A t \in Threads : InCall(t)

\* Once the connection is gone nothing is counted as done any more.
PendInv ==
  \A u \in Ups : pending[u] >= Undone(u) /\ (Attached(u) => pending[u] = Undone(u))

Core == TypeOK /\ ThreadInv /\ PendInv

LEMMA PubRecord ==
  ASSUME NEW p \in PubSet
  PROVE  /\ p.kind \in Kinds /\ p.up \in Ups \cup {NULL} /\ p.by \in MaybeMsg
         /\ p # NULL
BY NullAssumption DEF PubSet

LEMMA CallRecord ==
  ASSUME TypeOK, NEW t \in Threads
  PROVE  /\ thr[t] \in CallType
         /\ thr[t].at \in {"idle", "callback", "limit", "admit", "push"}
         /\ thr[t].up \in Ups \cup {NULL} /\ thr[t].pub \in PubSet \cup {NULL}
         /\ thr[t].inc \in BOOLEAN /\ thr[t].next \in 0 .. LoopCnt
BY DEF TypeOK, CallType

\* A thread that pushes has a publication and a loop to put it on.
LEMMA PushRecord ==
  ASSUME TypeOK, ThreadInv, NEW t \in Threads, thr[t].at = "push"
  PROVE  /\ thr[t].pub \in PubSet /\ thr[t].next \in Loops
         /\ thr[t].pub.up = thr[t].up
<1>1. InCall(t)
  BY DEF ThreadInv
<1>2. thr[t].pub \in PubSet \cup {NULL} /\ thr[t].next \in 0 .. LoopCnt
  BY CallRecord
<1> QED  BY <1>1, <1>2, LoopAssumption DEF InCall, Calling, Loops

\* What an action makes of the record of a thread has the type of a call.
LEMMA CallEdits ==
  ASSUME TypeOK, NEW t \in Threads
  PROVE  /\ Idle \in CallType
         /\ \A s \in {"callback", "limit", "admit", "push"} : [thr[t] EXCEPT !.at = s] \in CallType
         /\ \A u \in Ups : [thr[t] EXCEPT !.at = "callback", !.up = u] \in CallType
         /\ [Idle EXCEPT !.at = "callback", !.up = thr[t].up] \in CallType
         /\ \A l \in 0 .. LoopCnt : [thr[t] EXCEPT !.next = l] \in CallType
         /\ \A k \in Kinds, u \in Ups \cup {NULL}, inc \in BOOLEAN,
               s \in {"limit", "push"}, m \in MaybeMsg :
              [at |-> s, up |-> u, inc |-> inc, next |-> 1,
               pub |-> [kind |-> k, up |-> u, by |-> m]] \in CallType
<1>1. thr[t] \in CallType
  BY CallRecord
<1>2. Idle \in CallType
  BY LoopAssumption DEF Idle, CallType
<1>3. thr[t].up \in Ups \cup {NULL}
  BY CallRecord
<1>4. 1 \in 0 .. LoopCnt
  BY LoopAssumption
<1>5. \A k \in Kinds, u \in Ups \cup {NULL}, m \in MaybeMsg :
        [kind |-> k, up |-> u, by |-> m] \in PubSet
  BY DEF PubSet
<1>6. \A p \in PubSet, u \in Ups \cup {NULL}, inc \in BOOLEAN, s \in {"limit", "push"} :
        [at |-> s, up |-> u, inc |-> inc, next |-> 1, pub |-> p] \in CallType
  BY <1>4 DEF CallType
<1>7. \A s \in {"callback", "limit", "admit", "push"} : [thr[t] EXCEPT !.at = s] \in CallType
  BY <1>1 DEF CallType
<1>8. \A u \in Ups : [thr[t] EXCEPT !.at = "callback", !.up = u] \in CallType
  BY <1>1 DEF CallType
<1>9. [Idle EXCEPT !.at = "callback", !.up = thr[t].up] \in CallType
  BY <1>2, <1>3 DEF CallType
<1>10. \A l \in 0 .. LoopCnt : [thr[t] EXCEPT !.next = l] \in CallType
  BY <1>1 DEF CallType
<1> QED  BY <1>2, <1>5, <1>6, <1>7, <1>8, <1>9, <1>10

\* A call is named by its thread and its number.
LEMMA StartType ==
  ASSUME TypeOK, NEW t \in Threads, NEW k \in Kinds, NEW u \in Ups \cup {NULL},
         NEW inc \in BOOLEAN, NEW s \in {"limit", "push"}, Start(t, s, k, u, inc)
  PROVE  /\ thr' \in [Threads -> CallType] /\ calls' \in 0 .. MaxCalls
         /\ calls' = calls + 1
         /\ thr' = [thr EXCEPT ![t] =
              [at |-> s, up |-> u, inc |-> inc, next |-> 1,
               pub |-> [kind |-> k, up |-> u,
                        by |-> IF k \in {"WRITE", "MSG"} THEN <<t, calls + 1>> ELSE NULL]]]
         /\ (IF k \in {"WRITE", "MSG"} THEN <<t, calls + 1>> ELSE NULL) \in MaybeMsg
<1>1. calls + 1 \in 1 .. MaxCalls
  BY LimitAssumption DEF TypeOK, Start
<1>2. (IF k \in {"WRITE", "MSG"} THEN <<t, calls + 1>> ELSE NULL) \in MaybeMsg
  BY <1>1 DEF MaybeMsg
<1>3. [at |-> s, up |-> u, inc |-> inc, next |-> 1,
        pub |-> [kind |-> k, up |-> u,
                 by |-> IF k \in {"WRITE", "MSG"} THEN <<t, calls + 1>> ELSE NULL]] \in CallType
  BY <1>2, CallEdits
<1>4. calls' = calls + 1 /\ calls' \in 0 .. MaxCalls
  BY <1>1, LimitAssumption DEF Start
<1>5. thr' = [thr EXCEPT ![t] =
              [at |-> s, up |-> u, inc |-> inc, next |-> 1,
               pub |-> [kind |-> k, up |-> u,
                        by |-> IF k \in {"WRITE", "MSG"} THEN <<t, calls + 1>> ELSE NULL]]]
  BY DEF Start
<1>6. thr \in [Threads -> CallType]
  BY DEF TypeOK
<1>7. thr' \in [Threads -> CallType]
  BY <1>3, <1>5, <1>6
<1> QED  BY <1>2, <1>4, <1>5, <1>7

LEMMA ReturnType ==
  ASSUME TypeOK, NEW t \in Threads, Return(t)
  PROVE  thr' \in [Threads -> CallType]
<1>1. thr \in [Threads -> CallType]
  BY DEF TypeOK
<1>2. (IF thr[t].inc THEN [Idle EXCEPT !.at = "callback", !.up = thr[t].up] ELSE Idle) \in CallType
  BY CallEdits
<1> QED  BY <1>1, <1>2 DEF Return

LEMMA ReleaseType ==
  ASSUME TypeOK, NEW u \in Ups, NEW r \in Int, Release(u, r)
  PROVE  ref' \in [Ups -> Int] /\ freed' \subseteq Ups
BY DEF TypeOK, Release

\* The publication a loop works on is among those that are pending.
LEMMA OneToDo ==
  ASSUME Core, NEW u \in Ups, cur[Home[u]] # NULL, cur[Home[u]].up = u
  PROVE  pending[u] >= 1 /\ pending[u] \in Nat
<1>1. Home[u] \in Loops /\ pending[u] \in Nat
  BY LoopAssumption DEF Loops, Core, TypeOK
<1>2. 0 \in Waiting(Home[u], u) /\ IsFiniteSet(Waiting(Home[u], u))
  BY <1>1, WaitingFinite DEF Waiting, Core
<1>3. Cardinality(Waiting(Home[u], u)) > 0 /\ Cardinality(Waiting(Home[u], u)) \in Nat
  BY <1>2, SetOne
<1>4. Cardinality(ToPush(u)) \in Nat
  BY CountsNat DEF Core
<1>5. pending[u] >= Undone(u)
  BY DEF Core, PendInv
<1> QED  BY <1>1, <1>3, <1>4, <1>5 DEF Undone

\* Only the loop that owns a connection acts on what is about it.
LEMMA DoneByIs ==
  ASSUME Core, NEW l \in Loops, cur[l] # NULL, NEW u \in Ups
  PROVE  u \in DoneBy(l, cur[l]) <=> cur[l].up = u /\ Attached(u) /\ Home[u] = l
BY NullAssumption DEF DoneBy, Mine

LEMMA ProcessType ==
  ASSUME Core, NEW l \in Loops, Process(l)
  PROVE  TypeOK'
<1> DEFINE p == cur[l]
<1>1. TypeOK /\ p # NULL /\ p \in PubSet
  BY DEF Core, TypeOK, Process
<1>2. p.up \in Ups \cup {NULL} /\ p.by \in MaybeMsg /\ p.kind \in Kinds
  BY <1>1, PubRecord
<1>3. Emptied(l, p) \subseteq {p.up}
  BY DEF Emptied, DoneBy
<1>4. Cardinality(Emptied(l, p)) \in Nat
  <2>1. IsFiniteSet({p.up})
    BY FS_Singleton
  <2> QED  BY <1>3, <2>1, FS_Subset, FS_CardinalityType
<1>5. ref' \in [Ups -> Int] /\ freed' \subseteq Ups
  <2>1. CASE p.up = NULL
    BY <1>1, <2>1 DEF Process, Destroyed, TypeOK
  <2>2. CASE p.up # NULL
    <3>1. p.up \in Ups /\ Release(p.up, ref[p.up] + Cardinality(Emptied(l, p)))
      BY <1>2, <2>2 DEF Process, Destroyed
    <3>2. ref[p.up] + Cardinality(Emptied(l, p)) \in Int
      BY <1>1, <1>4, <3>1 DEF TypeOK
    <3> QED  BY <1>1, <3>1, <3>2, ReleaseType
  <2> QED  BY <2>1, <2>2
<1>6. pending' \in [Ups -> Nat]
  <2>1. \A u \in Ups : pending'[u] \in Nat
    <3> TAKE u \in Ups
    <3>1. pending[u] \in Nat
      BY <1>1 DEF TypeOK
    <3>2. u \in DoneBy(l, p) => pending[u] >= 1
      BY <1>1, DoneByIs, OneToDo
    <3> QED  BY <3>1, <3>2 DEF Process
  <2> QED  BY <2>1 DEF Process
<1>7. evals' \in [Ups -> Nat]
  BY <1>1 DEF Process, TypeOK
<1>8. out' \in [Ups -> Seq(MaybeMsg)]
  <2>1. \A u \in Ups : out[u] \in Seq(MaybeMsg) /\ Append(out[u], p.by) \in Seq(MaybeMsg)
    BY <1>1, <1>2, AppendProperties DEF TypeOK
  <2> QED  BY <2>1 DEF Process, Queued
<1>9. subbed' \in [Ups -> BOOLEAN]
  BY <1>1 DEF Process, TypeOK
<1>10. cur' \in [Loops -> PubSet \cup {NULL}] /\ saw' \in [Loops -> SUBSET Ups]
  BY <1>1 DEF Process, TypeOK
<1>11. UNCHANGED <<con, queue, thr, calls, crashed>>
  BY DEF Process, thrv
<1> QED  BY <1>1, <1>5, <1>6, <1>7, <1>8, <1>9, <1>10, <1>11 DEF TypeOK

LEMMA PushType ==
  ASSUME Core, NEW t \in Threads, PushNext(t)
  PROVE  TypeOK'
<1>1. TypeOK /\ thr[t].at = "push"
  BY DEF Core, PushNext, At
<1>2. thr[t].pub \in PubSet /\ thr[t].next \in Loops
  BY <1>1, PushRecord DEF Core
<1>3. thr' \in [Threads -> CallType]
  <2>1. CASE thr[t].next = LoopCnt
    BY <1>1, <2>1, ReturnType DEF PushNext
  <2>2. CASE thr[t].next # LoopCnt
    <3>1. thr' = [thr EXCEPT ![t] = [thr[t] EXCEPT !.next = thr[t].next + 1]]
      BY <2>2 DEF PushNext
    <3>2. thr[t].next + 1 \in 0 .. LoopCnt
      BY <1>2, <2>2, LoopAssumption DEF Loops
    <3>3. [thr[t] EXCEPT !.next = thr[t].next + 1] \in CallType
      BY <1>1, <3>2, CallEdits
    <3> QED  BY <1>1, <3>1, <3>3 DEF TypeOK
  <2> QED  BY <2>1, <2>2
<1>4. queue' \in [Loops -> Seq(PubSet)]
  <2>1. Append(queue[thr[t].next], thr[t].pub) \in Seq(PubSet)
    BY <1>1, <1>2, AppendProperties DEF TypeOK
  <2> QED  BY <1>1, <2>1 DEF PushNext, TypeOK
<1>5. ref' \in [Ups -> Int]
  BY <1>1 DEF PushNext, CopyRef, TypeOK
<1>6. UNCHANGED <<freed, pending, evals, con, subbed, out, cur, saw, calls, crashed>>
  BY DEF PushNext, conv
<1> QED  BY <1>1, <1>3, <1>4, <1>5, <1>6 DEF TypeOK

LEMMA TypeStep == Core /\ [Next]_vars => TypeOK'
<1> SUFFICES ASSUME Core, [Next]_vars PROVE TypeOK'
  OBVIOUS
<1> USE NullAssumption
<1>t. TypeOK
  BY DEF Core
<1>1. ASSUME NEW t \in Threads, NEW u \in Ups, NEW inc \in BOOLEAN, Write(t, u, inc) PROVE TypeOK'
  <2>1. "WRITE" \in Kinds /\ Start(t, "limit", "WRITE", u, inc)
    BY <1>1 DEF Kinds, Write
  <2>2. thr' \in [Threads -> CallType] /\ calls' \in 0 .. MaxCalls
    BY <1>t, <2>1, StartType
  <2> QED  BY <1>1, <1>t, <2>2 DEF Write, TypeOK, conv, loopv
<1>2. ASSUME NEW t \in Threads, NEW u \in Ups, NEW inc \in BOOLEAN,
             NEW k \in CallKinds \cap {"SUB", "UN", "CLOSE"}, Ask(t, k, u, inc) PROVE TypeOK'
  <2>1. k \in Kinds /\ Start(t, "push", k, u, inc) /\ u \in Ups \cup {NULL}
    BY <1>2 DEF Kinds, Ask
  <2>2. thr' \in [Threads -> CallType] /\ calls' \in 0 .. MaxCalls
    <3>1. /\ k \in Kinds /\ u \in Ups \cup {NULL} /\ "push" \in {"limit", "push"}
          /\ Start(t, "push", k, u, inc)
      BY <2>1
    <3> QED  BY ONLY <1>t, <3>1, StartType, inc \in BOOLEAN, t \in Threads
  <2> QED  BY <1>2, <1>t, <2>2 DEF Ask, TypeOK, conv, loopv
<1>3. ASSUME NEW t \in Threads, Publish(t) PROVE TypeOK'
  <2>1. "MSG" \in Kinds /\ Start(t, "push", "MSG", NULL, FALSE) /\ NULL \in Ups \cup {NULL}
    BY <1>3 DEF Kinds, Publish
  <2>2. thr' \in [Threads -> CallType] /\ calls' \in 0 .. MaxCalls
    BY <1>t, <2>1, StartType
  <2> QED  BY <1>3, <1>t, <2>2 DEF Publish, TypeOK, upv, conv, loopv
<1>4. ASSUME NEW t \in Threads, TakeEvent(t) PROVE TypeOK'
  <2>1. PICK u \in Ups : /\ evals[u] > 0 /\ evals' = [evals EXCEPT ![u] = @ - 1]
                         /\ thr' = [thr EXCEPT ![t] = [thr[t] EXCEPT !.at = "callback", !.up = u]]
    BY <1>4 DEF TakeEvent
  <2>2. thr' \in [Threads -> CallType]
    BY <1>t, <2>1, CallEdits DEF TypeOK
  <2>3. evals' \in [Ups -> Nat]
    BY <1>t, <2>1 DEF TypeOK
  <2> QED  BY <1>4, <1>t, <2>2, <2>3 DEF TakeEvent, TypeOK, conv, loopv
<1>5. ASSUME NEW t \in Threads, EndCallback(t) PROVE TypeOK'
  <2>1. thr[t].up \in Ups
    BY <1>5, <1>t, CallRecord DEF EndCallback, At, Core, ThreadInv, InCall
  <2>2. ref' \in [Ups -> Int] /\ freed' \subseteq Ups
    BY <1>5, <1>t, <2>1, ReleaseType DEF EndCallback, TypeOK
  <2>3. thr' \in [Threads -> CallType]
    BY <1>5, <1>t, CallEdits DEF EndCallback, TypeOK
  <2> QED  BY <1>5, <1>t, <2>2, <2>3 DEF EndCallback, TypeOK, conv, loopv
<1>6. ASSUME NEW t \in Threads, Refuse(t) PROVE TypeOK'
  <2>1. thr' \in [Threads -> CallType]
    BY <1>6, <1>t, ReturnType DEF Refuse
  <2>u. thr[t].up \in Ups
    BY <1>6, <1>t, CallRecord DEF Refuse, At, Core, ThreadInv, InCall, Writing
  <2>2. ref' \in [Ups -> Int]
    BY <1>6, <1>t, <2>u DEF Refuse, TypeOK
  <2>3. UNCHANGED <<freed, pending, evals, con, subbed, out, queue, cur, saw, calls, crashed>>
    BY <1>6 DEF Refuse, conv, loopv
  <2> QED  BY <1>t, <2>1, <2>2, <2>3 DEF TypeOK
<1>7. ASSUME NEW t \in Threads, Accept(t) PROVE TypeOK'
  <2>1. thr' = [thr EXCEPT ![t] = [thr[t] EXCEPT !.at = "admit"]]
    BY <1>7 DEF Accept, GoTo
  <2>2. thr' \in [Threads -> CallType]
    BY <1>t, <2>1, CallEdits DEF TypeOK
  <2> QED  BY <1>7, <1>t, <2>2 DEF Accept, TypeOK, upv, conv, loopv
<1>8. ASSUME NEW t \in Threads, Admit(t) PROVE TypeOK'
  <2>1. thr' = [thr EXCEPT ![t] = [thr[t] EXCEPT !.at = "push"]]
    BY <1>8 DEF Admit, GoTo
  <2>2. thr' \in [Threads -> CallType]
    BY <1>t, <2>1, CallEdits DEF TypeOK
  <2>u. thr[t].up \in Ups
    BY <1>8, <1>t, CallRecord DEF Admit, At, Core, ThreadInv, InCall, Writing
  <2>3. ref' \in [Ups -> Int] /\ pending' \in [Ups -> Nat]
    BY <1>8, <1>t, <2>u DEF Admit, TypeOK
  <2>4. UNCHANGED <<freed, evals, con, subbed, out, queue, cur, saw, calls, crashed>>
    BY <1>8 DEF Admit, conv, loopv
  <2> QED  BY <1>t, <2>2, <2>3, <2>4 DEF TypeOK
<1>9. ASSUME NEW t \in Threads, PushNext(t) PROVE TypeOK'
  BY <1>9, PushType
<1>10. ASSUME NEW l \in Loops, Read(l) PROVE TypeOK'
  <2>1. queue[l] \in Seq(PubSet) /\ queue[l] # <<>>
    BY <1>10, <1>t DEF Read, TypeOK
  <2>2. Head(queue[l]) \in PubSet /\ Tail(queue[l]) \in Seq(PubSet)
    BY <2>1, HeadTailProperties
  <2> QED  BY <1>10, <1>t, <2>2 DEF Read, TypeOK, upv, conv, thrv
<1>11. ASSUME NEW l \in Loops, Process(l) PROVE TypeOK'
  BY <1>11, ProcessType
<1>12. ASSUME NEW l \in Loops, Crash(l) PROVE TypeOK'
  BY <1>12, <1>t DEF Crash, TypeOK, upv, conv, loopv, thrv
<1>13. ASSUME NEW u \in Ups, Leave(u) PROVE TypeOK'
  BY <1>13, <1>t DEF Leave, TypeOK, upv, loopv, thrv
<1>14. ASSUME NEW u \in Ups, WsWrite(u) PROVE TypeOK'
  <2>1. out[u] \in Seq(MaybeMsg) /\ out[u] # <<>> /\ Closing(u) \in Nat
    BY <1>14, <1>t DEF WsWrite, TypeOK, Closing
  <2>2. Tail(out[u]) \in Seq(MaybeMsg)
    BY <2>1, HeadTailProperties
  <2> HIDE DEF Closing
  <2>3. out' \in [Ups -> Seq(MaybeMsg)]
    BY <1>14, <1>t, <2>2 DEF WsWrite, TypeOK
  <2>4. /\ ref' \in [Ups -> Int] /\ evals' \in [Ups -> Nat]
        /\ con' \in [Ups -> {"open", "dead", "gone"}]
    <3>1. CASE UNCHANGED <<ref, evals, con>>
      BY <1>t, <3>1 DEF TypeOK
    <3>2. CASE /\ con' = [con EXCEPT ![u] = "dead"]
               /\ evals' = [evals EXCEPT ![u] = @ + Closing(u)]
               /\ ref' = [ref EXCEPT ![u] = @ + Closing(u)]
      BY <1>t, <2>1, <3>2 DEF TypeOK
    <3> QED  BY <1>14, <3>1, <3>2 DEF WsWrite
  <2> QED  BY <1>14, <1>t, <2>3, <2>4 DEF WsWrite, TypeOK, loopv, thrv
<1>15. ASSUME NEW u \in Ups, ConDestroy(u) PROVE TypeOK'
  <2>1. Closing(u) \in Nat /\ ref[u] \in Int
    BY <1>t DEF TypeOK, Closing
  <2> HIDE DEF Closing
  <2>2. ref' \in [Ups -> Int] /\ freed' \subseteq Ups
    BY <1>15, <1>t, <2>1, ReleaseType DEF ConDestroy
  <2>3. <<>> \in Seq(MaybeMsg)
    BY EmptySeq
  <2>4. /\ out' \in [Ups -> Seq(MaybeMsg)] /\ evals' \in [Ups -> Nat]
        /\ con' \in [Ups -> {"open", "dead", "gone"}]
    BY <1>15, <1>t, <2>1, <2>3 DEF ConDestroy, TypeOK
  <2> QED  BY <1>15, <1>t, <2>2, <2>4 DEF ConDestroy, TypeOK, loopv, thrv
<1>16. CASE UNCHANGED vars
  BY <1>16, <1>t DEF TypeOK, vars, upv, conv, loopv, thrv
<1>17. ASSUME NEW t \in Threads, BadRequest(t) PROVE TypeOK'
  BY <1>17, <1>t DEF BadRequest, TypeOK, upv, conv, loopv, thrv
<1> QED  BY <1>1, <1>2, <1>3, <1>4, <1>5, <1>6, <1>7, <1>8, <1>9, <1>10, <1>11, <1>12,
            <1>13, <1>14, <1>15, <1>16, <1>17 DEF Next

\* A step of thread t leaves the calls of the others alone.
LEMMA OneThread ==
  ASSUME Core, NEW t \in Threads, NEW v, thr' = [thr EXCEPT ![t] = v]
  PROVE  thr'[t] = v /\ \A s \in Threads \ {t} : thr'[s] = thr[s]
BY DEF Core, TypeOK

LEMMA OthersInCall ==
  ASSUME ThreadInv, NEW t \in Threads, \A s \in Threads \ {t} : thr'[s] = thr[s], InCall(t)'
  PROVE  ThreadInv'
BY DEF ThreadInv, InCall, Calling, Writing

LEMMA StartInCall ==
  ASSUME Core, NEW t \in Threads, NEW k \in Kinds, NEW u \in Ups \cup {NULL},
         NEW inc \in BOOLEAN, NEW s \in {"limit", "push"}, Start(t, s, k, u, inc),
         s = "limit" => u # NULL /\ k = "WRITE" /\ (inc => CallbackWrites),
         inc => u # NULL
  PROVE  ThreadInv'
<1> DEFINE m == IF k \in {"WRITE", "MSG"} THEN <<t, calls + 1>> ELSE NULL
           v == [at |-> s, up |-> u, inc |-> inc, next |-> 1,
                 pub |-> [kind |-> k, up |-> u, by |-> m]]
<1>1. thr' = [thr EXCEPT ![t] = v] /\ m \in MaybeMsg
  BY StartType DEF Core
<1>2. m # NULL => m[1] = t
  OBVIOUS
<1>3. v.pub \in PubSet
  BY <1>1 DEF PubSet
<1>4. v.pub # NULL /\ v.pub.by = m /\ v.pub.up = u /\ v.pub.kind = k
  BY <1>3, PubRecord
<1>5. v.at = s /\ v.up = u /\ v.inc = inc /\ v.next = 1
  OBVIOUS
<1> HIDE DEF m, v
<1>6. thr'[t] = v /\ \A q \in Threads \ {t} : thr'[q] = thr[q]
  BY <1>1, OneThread
<1>7. InCall(t)'
  BY <1>2, <1>4, <1>5, <1>6 DEF InCall, Calling, Writing
<1> QED  BY <1>6, <1>7, OthersInCall DEF Core

\* After its call a thread is idle or back in its callback.
LEMMA ReturnIs ==
  ASSUME Core, NEW t \in Threads, Calling(t), Return(t)
  PROVE  /\ \A s \in Threads \ {t} : thr'[s] = thr[s]
         /\ thr'[t].up = (IF thr[t].inc THEN thr[t].up ELSE NULL)
         /\ thr'[t].at = (IF thr[t].inc THEN "callback" ELSE "idle")
         /\ ThreadInv'
<1>1. /\ \A s \in Threads \ {t} : thr'[s] = thr[s]
      /\ thr'[t] = IF thr[t].inc THEN [Idle EXCEPT !.at = "callback", !.up = thr[t].up] ELSE Idle
  BY OneThread DEF Return
<1>2. /\ thr'[t].up = (IF thr[t].inc THEN thr[t].up ELSE NULL)
      /\ thr'[t].at = (IF thr[t].inc THEN "callback" ELSE "idle")
  BY <1>1 DEF Idle
<1>3. thr[t].inc => thr[t].up # NULL
  BY DEF Core, ThreadInv, InCall
<1>4. InCall(t)'
  BY <1>2, <1>3 DEF InCall, Calling, Writing
<1> QED  BY <1>1, <1>2, <1>4, OthersInCall DEF Core

LEMMA ThreadInvStep == Core /\ [Next]_vars => ThreadInv'
<1> SUFFICES ASSUME Core, [Next]_vars PROVE ThreadInv'
  OBVIOUS
<1> USE NullAssumption
<1>t. TypeOK /\ ThreadInv
  BY DEF Core
<1>1. ASSUME NEW t \in Threads, NEW u \in Ups, NEW inc \in BOOLEAN, Write(t, u, inc) PROVE ThreadInv'
  <2>1. "WRITE" \in Kinds /\ Start(t, "limit", "WRITE", u, inc) /\ (inc => CallbackWrites)
    BY <1>1 DEF Kinds, Write
  <2> QED  BY <2>1, StartInCall
<1>2. ASSUME NEW t \in Threads, NEW u \in Ups, NEW inc \in BOOLEAN,
             NEW k \in CallKinds \cap {"SUB", "UN", "CLOSE"}, Ask(t, k, u, inc) PROVE ThreadInv'
  <2>1. k \in Kinds /\ Start(t, "push", k, u, inc)
    BY <1>2 DEF Kinds, Ask
  <2> QED  BY <2>1, StartInCall
<1>3. ASSUME NEW t \in Threads, Publish(t) PROVE ThreadInv'
  <2>1. "MSG" \in Kinds /\ Start(t, "push", "MSG", NULL, FALSE) /\ NULL \in Ups \cup {NULL}
    BY <1>3 DEF Kinds, Publish
  <2> QED  BY <2>1, StartInCall
<1>4. ASSUME NEW t \in Threads, TakeEvent(t) PROVE ThreadInv'
  <2>1. PICK u \in Ups : thr' = [thr EXCEPT ![t] = [thr[t] EXCEPT !.at = "callback", !.up = u]]
    BY <1>4 DEF TakeEvent
  <2>2. /\ thr'[t] = [thr[t] EXCEPT !.at = "callback", !.up = u]
        /\ \A s \in Threads \ {t} : thr'[s] = thr[s]
    BY <2>1, OneThread
  <2>3. thr'[t].at = "callback" /\ thr'[t].up = u
    BY <2>2, <1>t, CallRecord DEF CallType
  <2>4. InCall(t)'
    BY <2>3 DEF InCall, Calling, Writing
  <2> QED  BY <2>2, <2>4, <1>t, OthersInCall
<1>5. ASSUME NEW t \in Threads, EndCallback(t) PROVE ThreadInv'
  <2>1. thr'[t] = Idle /\ \A s \in Threads \ {t} : thr'[s] = thr[s]
    BY <1>5, OneThread DEF EndCallback
  <2>2. InCall(t)'
    BY <2>1 DEF InCall, Calling, Writing, Idle
  <2> QED  BY <2>1, <2>2, <1>t, OthersInCall
<1>6. ASSUME NEW t \in Threads, Refuse(t) PROVE ThreadInv'
  BY <1>6, ReturnIs DEF Refuse, At, Calling
<1>7. ASSUME NEW t \in Threads, Accept(t) PROVE ThreadInv'
  <2>1. thr' = [thr EXCEPT ![t] = [thr[t] EXCEPT !.at = "admit"]] /\ thr[t].at = "limit"
    BY <1>7 DEF Accept, GoTo, At
  <2>2. thr'[t] = [thr[t] EXCEPT !.at = "admit"] /\ \A s \in Threads \ {t} : thr'[s] = thr[s]
    BY <2>1, OneThread
  <2>3. /\ thr'[t].at = "admit" /\ thr'[t].up = thr[t].up /\ thr'[t].pub = thr[t].pub
        /\ thr'[t].inc = thr[t].inc /\ thr'[t].next = thr[t].next
    BY <2>2, <1>t, CallRecord DEF CallType
  <2>4. InCall(t)'
    BY <2>1, <2>3, <1>t DEF ThreadInv, InCall, Calling, Writing
  <2> QED  BY <2>2, <2>4, <1>t, OthersInCall
<1>8. ASSUME NEW t \in Threads, Admit(t) PROVE ThreadInv'
  <2>1. thr' = [thr EXCEPT ![t] = [thr[t] EXCEPT !.at = "push"]] /\ thr[t].at = "admit"
    BY <1>8 DEF Admit, GoTo, At
  <2>2. thr'[t] = [thr[t] EXCEPT !.at = "push"] /\ \A s \in Threads \ {t} : thr'[s] = thr[s]
    BY <2>1, OneThread
  <2>3. /\ thr'[t].at = "push" /\ thr'[t].up = thr[t].up /\ thr'[t].pub = thr[t].pub
        /\ thr'[t].inc = thr[t].inc /\ thr'[t].next = thr[t].next
    BY <2>2, <1>t, CallRecord DEF CallType
  <2>4. InCall(t)'
    BY <2>1, <2>3, <1>t DEF ThreadInv, InCall, Calling, Writing
  <2> QED  BY <2>2, <2>4, <1>t, OthersInCall
<1>9. ASSUME NEW t \in Threads, PushNext(t) PROVE ThreadInv'
  <2>1. thr[t].at = "push" /\ Calling(t)
    BY <1>9 DEF PushNext, At, Calling
  <2>2. CASE thr[t].next = LoopCnt
    BY <1>9, <2>1, <2>2, ReturnIs DEF PushNext
  <2>3. CASE thr[t].next # LoopCnt
    <3>1. thr' = [thr EXCEPT ![t] = [thr[t] EXCEPT !.next = thr[t].next + 1]]
      BY <1>9, <2>3 DEF PushNext
    <3>2. /\ thr'[t] = [thr[t] EXCEPT !.next = thr[t].next + 1]
          /\ \A s \in Threads \ {t} : thr'[s] = thr[s]
      BY <3>1, OneThread
    <3>3. /\ thr'[t].at = "push" /\ thr'[t].up = thr[t].up /\ thr'[t].pub = thr[t].pub
          /\ thr'[t].inc = thr[t].inc /\ thr'[t].next = thr[t].next + 1
      BY <2>1, <3>2, <1>t, CallRecord DEF CallType
    <3>4. thr[t].next \in Nat
      BY <1>t, CallRecord, LoopAssumption
    <3>5. InCall(t)'
      BY <2>1, <3>3, <3>4, <1>t DEF ThreadInv, InCall, Calling, Writing
    <3> QED  BY <3>2, <3>5, <1>t, OthersInCall
  <2> QED  BY <2>2, <2>3
<1>10. CASE UNCHANGED thr
  BY <1>10, <1>t DEF ThreadInv, InCall, Calling, Writing
<1> QED  BY <1>1, <1>2, <1>3, <1>4, <1>5, <1>6, <1>7, <1>8, <1>9, <1>10
         DEF Next, Read, Process, Crash, BadRequest, Leave, WsWrite, ConDestroy, vars, thrv

-----------------------------------------------------------------------------
(* What each action does to the counts *)

\* What holds a reference other than the connection and push requests.
Held(u) == Cardinality(Copies(u)) + Cardinality(Pushers(u)) + Cardinality(Callers(u))

LEMMA HeldNat ==
  ASSUME TypeOK, NEW u \in Ups
  PROVE  /\ Held(u) \in Nat /\ evals[u] \in Nat
         /\ Holders(u) = Bit(Attached(u)) + evals[u] + Held(u)
<1>1. /\ Cardinality(Copies(u)) \in Nat /\ Cardinality(Pushers(u)) \in Nat
      /\ Cardinality(Callers(u)) \in Nat /\ evals[u] \in Nat
  BY CountsNat DEF TypeOK
<1> QED  BY <1>1 DEF Held, Holders, Bit

\* The counts of u change by these numbers, of the writes by at most w.
Change(u, held, undone, w, admitting) ==
  /\ Held(u)' = Held(u) + held
  /\ Undone(u)' = Undone(u) + undone
  /\ UndoneWrites(u)' <= UndoneWrites(u) + w
  /\ Cardinality(Admitting(u)') = Cardinality(Admitting(u)) + admitting

LEMMA BitInt == ASSUME NEW b PROVE Bit(b) \in {0, 1}
BY DEF Bit

\* When the loops stand still, the thread that moves makes the difference.
LEMMA MoveCounts ==
  ASSUME Core, TypeOK', NEW t \in Threads, \A s \in Threads \ {t} : thr'[s] = thr[s],
         UNCHANGED <<queue, cur>>, NEW u \in Ups
  PROVE  Change(u,
           Bit(t \in Pushers(u)') - Bit(t \in Pushers(u))
             + Bit(t \in Callers(u)') - Bit(t \in Callers(u)),
           Bit(t \in ToPush(u)') - Bit(t \in ToPush(u)),
           Bit(t \in WritesToPush(u)') - Bit(t \in WritesToPush(u)),
           Bit(t \in Admitting(u)') - Bit(t \in Admitting(u)))
<1>1. /\ Cardinality(Copies(u)) \in Nat /\ Cardinality(Pushers(u)) \in Nat
      /\ Cardinality(Callers(u)) \in Nat /\ Cardinality(ToPush(u)) \in Nat
      /\ Cardinality(Waiting(Home[u], u)) \in Nat
      /\ Cardinality(WaitingWrites(u)) \in Nat /\ Cardinality(WritesToPush(u)) \in Nat
      /\ Cardinality(Admitting(u)) \in Nat
  BY CountsNat DEF Core
<1>2. /\ Cardinality(Copies(u)') = Cardinality(Copies(u))
      /\ Cardinality(Waiting(Home[u], u)') = Cardinality(Waiting(Home[u], u))
      /\ Cardinality(WaitingWrites(u)') = Cardinality(WaitingWrites(u))
  BY LoopsStay
<1>3. /\ Cardinality(Pushers(u)') =
           Cardinality(Pushers(u)) + Bit(t \in Pushers(u)') - Bit(t \in Pushers(u))
      /\ Cardinality(Callers(u)') =
           Cardinality(Callers(u)) + Bit(t \in Callers(u)') - Bit(t \in Callers(u))
      /\ Cardinality(ToPush(u)') =
           Cardinality(ToPush(u)) + Bit(t \in ToPush(u)') - Bit(t \in ToPush(u))
      /\ Cardinality(WritesToPush(u)') =
           Cardinality(WritesToPush(u)) + Bit(t \in WritesToPush(u)') - Bit(t \in WritesToPush(u))
      /\ Cardinality(Admitting(u)') =
           Cardinality(Admitting(u)) + Bit(t \in Admitting(u)') - Bit(t \in Admitting(u))
  BY ThreadStep
<1>4. /\ Bit(t \in Pushers(u)') \in {0, 1} /\ Bit(t \in Pushers(u)) \in {0, 1}
      /\ Bit(t \in Callers(u)') \in {0, 1} /\ Bit(t \in Callers(u)) \in {0, 1}
      /\ Bit(t \in ToPush(u)') \in {0, 1} /\ Bit(t \in ToPush(u)) \in {0, 1}
      /\ Bit(t \in WritesToPush(u)') \in {0, 1} /\ Bit(t \in WritesToPush(u)) \in {0, 1}
      /\ Bit(t \in Admitting(u)') \in {0, 1} /\ Bit(t \in Admitting(u)) \in {0, 1}
  BY BitInt
<1> HIDE DEF Bit, Copies, Waiting, WaitingWrites, Pushers, Callers, ToPush, WritesToPush, Admitting
<1>5. Held(u)' = Held(u) + (Bit(t \in Pushers(u)') - Bit(t \in Pushers(u))
                              + Bit(t \in Callers(u)') - Bit(t \in Callers(u)))
  BY <1>1, <1>2, <1>3, <1>4 DEF Held
<1>6. Undone(u)' = Undone(u) + (Bit(t \in ToPush(u)') - Bit(t \in ToPush(u)))
  BY <1>1, <1>2, <1>3, <1>4 DEF Undone
<1>7. UndoneWrites(u)' <= UndoneWrites(u)
                            + (Bit(t \in WritesToPush(u)') - Bit(t \in WritesToPush(u)))
  BY <1>1, <1>2, <1>3, <1>4 DEF UndoneWrites
<1> QED  BY <1>1, <1>3, <1>4, <1>5, <1>6, <1>7 DEF Change

LEMMA StayCounts ==
  ASSUME Core, UNCHANGED <<queue, cur, thr>>, NEW u \in Ups
  PROVE  Change(u, 0, 0, 0, 0)
<1>1. /\ Held(u) \in Nat /\ Undone(u) \in Nat /\ UndoneWrites(u) \in Nat
      /\ Cardinality(Admitting(u)) \in Nat
  BY CountsNat, HeldNat DEF Core
<1>2. /\ Held(u)' = Held(u) /\ Undone(u)' = Undone(u) /\ UndoneWrites(u)' = UndoneWrites(u)
      /\ Admitting(u)' = Admitting(u)
  BY LoopsStay, ThreadsStay DEF Held, Undone, UndoneWrites
<1> QED  BY <1>1, <1>2 DEF Change

\* Where a thread counts.
LEMMA ThreadBits ==
  ASSUME NEW t \in Threads, NEW u \in Ups
  PROVE  /\ t \in Pushers(u) <=> thr[t].up = u /\ thr[t].at = "push"
         /\ t \in Callers(u) <=> thr[t].up = u /\ (thr[t].at = "push" => thr[t].inc)
         /\ t \in ToPush(u) <=> thr[t].up = u /\ thr[t].at = "push" /\ thr[t].next <= Home[u]
         /\ t \in WritesToPush(u) <=> /\ thr[t].up = u /\ thr[t].at = "push" /\ thr[t].next <= Home[u]
                                      /\ thr[t].pub.kind = "WRITE"
         /\ t \in Admitting(u) <=> thr[t].at = "admit" /\ thr[t].up = u
BY DEF Pushers, Callers, ToPush, WritesToPush, Admitting

LEMMA ThreadBitsNext ==
  ASSUME NEW t \in Threads, NEW u \in Ups
  PROVE  /\ t \in Pushers(u)' <=> thr'[t].up = u /\ thr'[t].at = "push"
         /\ t \in Callers(u)' <=> thr'[t].up = u /\ (thr'[t].at = "push" => thr'[t].inc)
         /\ t \in ToPush(u)' <=> thr'[t].up = u /\ thr'[t].at = "push" /\ thr'[t].next <= Home[u]
         /\ t \in WritesToPush(u)' <=> /\ thr'[t].up = u /\ thr'[t].at = "push" /\ thr'[t].next <= Home[u]
                                       /\ thr'[t].pub.kind = "WRITE"
         /\ t \in Admitting(u)' <=> thr'[t].at = "admit" /\ thr'[t].up = u
BY DEF Pushers, Callers, ToPush, WritesToPush, Admitting

\* The record a call starts with, and where thread t was before.
LEMMA StartRecord ==
  ASSUME Core, NEW t \in Threads
  PROVE  \A k, u, inc, s : Start(t, s, k, u, inc) =>
         /\ \A q \in Threads \ {t} : thr'[q] = thr[q]
         /\ thr'[t].at = s /\ thr'[t].up = u /\ (thr'[t].inc <=> inc) /\ thr'[t].next = 1
         /\ thr'[t].pub.kind = k /\ thr'[t].pub.up = u
         /\ thr'[t].pub.by = (IF k \in {"WRITE", "MSG"} THEN <<t, calls + 1>> ELSE NULL)
<1> TAKE k, u, inc, s
<1> HAVE Start(t, s, k, u, inc)
<1> DEFINE v == [at |-> s, up |-> u, inc |-> inc, next |-> 1,
                 pub |-> [kind |-> k, up |-> u,
                          by |-> IF k \in {"WRITE", "MSG"} THEN <<t, calls + 1>> ELSE NULL]]
<1>1. thr' = [thr EXCEPT ![t] = v]
  BY DEF Start
<1>2. /\ v.at = s /\ v.up = u /\ v.inc = inc /\ v.next = 1 /\ v.pub.kind = k /\ v.pub.up = u
      /\ v.pub.by = (IF k \in {"WRITE", "MSG"} THEN <<t, calls + 1>> ELSE NULL)
  OBVIOUS
<1> HIDE DEF v
<1>3. thr'[t] = v /\ \A q \in Threads \ {t} : thr'[q] = thr[q]
  BY <1>1, OneThread
<1> QED  BY <1>2, <1>3

LEMMA WriteCounts ==
  ASSUME Core, TypeOK', NEW t \in Threads, NEW u \in Ups, NEW inc \in BOOLEAN,
         Write(t, u, inc), NEW v \in Ups
  PROVE  Change(v, Bit(v = u /\ ~inc), 0, 0, 0)
<1> USE NullAssumption
<1>s. Start(t, "limit", "WRITE", u, inc)
  BY DEF Write
<1>1. /\ UNCHANGED <<queue, cur>>
      /\ IF inc THEN thr[t].at = "callback" /\ thr[t].up = u ELSE thr[t].at = "idle"
  BY DEF Kinds, Write, MayCall, At, loopv
<1>2. thr[t].at = "idle" => thr[t].up = NULL
  BY DEF Core, ThreadInv, InCall
<1>3. /\ \A q \in Threads \ {t} : thr'[q] = thr[q]
      /\ thr'[t].at = "limit" /\ thr'[t].up = u
  <2>1. thr'[t].at = "limit"
    BY <1>s, StartRecord
  <2>2. thr'[t].up = u
    BY <1>s, StartRecord
  <2>3. \A q \in Threads \ {t} : thr'[q] = thr[q]
    BY <1>s, StartRecord
  <2> QED  BY <2>1, <2>2, <2>3
<1>4. Change(v, Bit(t \in Pushers(v)') - Bit(t \in Pushers(v))
                  + Bit(t \in Callers(v)') - Bit(t \in Callers(v)),
             Bit(t \in ToPush(v)') - Bit(t \in ToPush(v)),
             Bit(t \in WritesToPush(v)') - Bit(t \in WritesToPush(v)),
             Bit(t \in Admitting(v)') - Bit(t \in Admitting(v)))
  BY <1>1, <1>3, MoveCounts
<1>5. /\ t \notin Pushers(v)' /\ t \notin Pushers(v) /\ t \notin ToPush(v)' /\ t \notin ToPush(v)
      /\ t \notin WritesToPush(v)' /\ t \notin WritesToPush(v)
      /\ t \notin Admitting(v)' /\ t \notin Admitting(v)
      /\ t \in Callers(v)' <=> v = u
      /\ t \in Callers(v) <=> v = u /\ inc
  BY <1>1, <1>2, <1>3, ThreadBits, ThreadBitsNext
<1> QED  BY <1>4, <1>5 DEF Bit

LEMMA AskCounts ==
  ASSUME Core, TypeOK', NEW t \in Threads, NEW u \in Ups, NEW inc \in BOOLEAN,
         NEW k \in CallKinds \cap {"SUB", "UN", "CLOSE"}, Ask(t, k, u, inc), NEW v \in Ups
  PROVE  Change(v, Bit(v = u), Bit(v = u), 0, 0)
<1> USE NullAssumption
<1>s. Start(t, "push", k, u, inc)
  BY DEF Ask
<1>1. /\ UNCHANGED <<queue, cur>> /\ k # "WRITE"
      /\ IF inc THEN thr[t].at = "callback" /\ thr[t].up = u ELSE thr[t].at = "idle"
  BY DEF Kinds, Ask, MayCall, At, loopv
<1>2. thr[t].at = "idle" => thr[t].up = NULL
  BY DEF Core, ThreadInv, InCall
<1>3. /\ \A q \in Threads \ {t} : thr'[q] = thr[q]
      /\ thr'[t].at = "push" /\ thr'[t].up = u /\ thr'[t].next = 1 /\ (thr'[t].inc <=> inc)
      /\ thr'[t].pub.kind = k
  <2>1. thr'[t].at = "push" /\ thr'[t].next = 1
    BY <1>s, StartRecord
  <2>2. thr'[t].up = u
    BY <1>s, StartRecord
  <2>3. thr'[t].inc <=> inc
    BY <1>s, StartRecord
  <2>4. thr'[t].pub.kind = k
    BY <1>s, StartRecord
  <2>5. \A q \in Threads \ {t} : thr'[q] = thr[q]
    BY <1>s, StartRecord
  <2> QED  BY <2>1, <2>2, <2>3, <2>4, <2>5
<1>4. Change(v, Bit(t \in Pushers(v)') - Bit(t \in Pushers(v))
                  + Bit(t \in Callers(v)') - Bit(t \in Callers(v)),
             Bit(t \in ToPush(v)') - Bit(t \in ToPush(v)),
             Bit(t \in WritesToPush(v)') - Bit(t \in WritesToPush(v)),
             Bit(t \in Admitting(v)') - Bit(t \in Admitting(v)))
  BY <1>1, <1>3, MoveCounts
<1>5. 1 <= Home[v]
  BY LoopAssumption
<1>6. /\ t \in Pushers(v)' <=> v = u
      /\ t \in ToPush(v)' <=> v = u
      /\ t \notin Pushers(v) /\ t \notin ToPush(v)
      /\ t \notin WritesToPush(v)' /\ t \notin WritesToPush(v)
      /\ t \notin Admitting(v)' /\ t \notin Admitting(v)
      /\ t \in Callers(v)' <=> v = u /\ inc
      /\ t \in Callers(v) <=> v = u /\ inc
  BY <1>1, <1>2, <1>3, <1>5, ThreadBits, ThreadBitsNext
<1> QED  BY <1>4, <1>6 DEF Bit

LEMMA PublishCounts ==
  ASSUME Core, TypeOK', NEW t \in Threads, Publish(t), NEW v \in Ups
  PROVE  Change(v, 0, 0, 0, 0)
<1> USE NullAssumption
<1>1. /\ "MSG" \in Kinds /\ Start(t, "push", "MSG", NULL, FALSE) /\ UNCHANGED <<queue, cur>>
      /\ thr[t].at = "idle"
  BY DEF Kinds, Publish, At, loopv
<1>2. thr[t].up = NULL
  BY <1>1 DEF Core, ThreadInv, InCall
<1>3. (\A q \in Threads \ {t} : thr'[q] = thr[q]) /\ thr'[t].up = NULL
  <2>1. Start(t, "push", "MSG", NULL, FALSE)
    BY <1>1
  <2> QED  BY <2>1, StartRecord
<1>4. Change(v, Bit(t \in Pushers(v)') - Bit(t \in Pushers(v))
                  + Bit(t \in Callers(v)') - Bit(t \in Callers(v)),
             Bit(t \in ToPush(v)') - Bit(t \in ToPush(v)),
             Bit(t \in WritesToPush(v)') - Bit(t \in WritesToPush(v)),
             Bit(t \in Admitting(v)') - Bit(t \in Admitting(v)))
  BY <1>1, <1>3, MoveCounts
<1>5. v # NULL
  OBVIOUS
<1>6. /\ t \notin Pushers(v)' /\ t \notin Pushers(v) /\ t \notin ToPush(v)' /\ t \notin ToPush(v)
      /\ t \notin WritesToPush(v)' /\ t \notin WritesToPush(v)
      /\ t \notin Admitting(v)' /\ t \notin Admitting(v)
      /\ t \notin Callers(v)' /\ t \notin Callers(v)
  BY <1>2, <1>3, <1>5, ThreadBits, ThreadBitsNext
<1> QED  BY <1>4, <1>6 DEF Bit

LEMMA TakeCounts ==
  ASSUME Core, TypeOK', NEW t \in Threads, TakeEvent(t)
  PROVE  \E u \in Ups : /\ evals[u] > 0 /\ evals' = [evals EXCEPT ![u] = @ - 1]
                        /\ \A v \in Ups : Change(v, Bit(v = u), 0, 0, 0)
<1> USE NullAssumption
<1>1. PICK u \in Ups : /\ evals[u] > 0 /\ evals' = [evals EXCEPT ![u] = @ - 1]
                       /\ thr' = [thr EXCEPT ![t] = [thr[t] EXCEPT !.at = "callback", !.up = u]]
  BY DEF TakeEvent
<1>2. UNCHANGED <<queue, cur>> /\ thr[t].at = "idle" /\ thr[t].up = NULL
  BY DEF TakeEvent, At, loopv, Core, ThreadInv, InCall
<1>3. /\ thr'[t] = [thr[t] EXCEPT !.at = "callback", !.up = u]
      /\ \A s \in Threads \ {t} : thr'[s] = thr[s]
  BY <1>1, OneThread
<1>4. thr'[t].at = "callback" /\ thr'[t].up = u
  BY <1>3, CallRecord DEF CallType, Core
<1>5. SUFFICES ASSUME NEW v \in Ups PROVE Change(v, Bit(v = u), 0, 0, 0)
  BY <1>1
<1>6. Change(v, Bit(t \in Pushers(v)') - Bit(t \in Pushers(v))
                  + Bit(t \in Callers(v)') - Bit(t \in Callers(v)),
             Bit(t \in ToPush(v)') - Bit(t \in ToPush(v)),
             Bit(t \in WritesToPush(v)') - Bit(t \in WritesToPush(v)),
             Bit(t \in Admitting(v)') - Bit(t \in Admitting(v)))
  BY <1>2, <1>3, MoveCounts
<1>7. /\ t \notin Pushers(v)' /\ t \notin Pushers(v) /\ t \notin ToPush(v)' /\ t \notin ToPush(v)
      /\ t \notin WritesToPush(v)' /\ t \notin WritesToPush(v)
      /\ t \notin Admitting(v)' /\ t \notin Admitting(v)
      /\ t \in Callers(v)' <=> v = u
      /\ t \notin Callers(v)
  BY <1>2, <1>4, ThreadBits, ThreadBitsNext
<1> QED  BY <1>6, <1>7 DEF Bit

LEMMA EndCounts ==
  ASSUME Core, TypeOK', NEW t \in Threads, EndCallback(t), NEW v \in Ups
  PROVE  thr[t].up \in Ups /\ Change(v, -Bit(v = thr[t].up), 0, 0, 0)
<1> USE NullAssumption
<1>1. UNCHANGED <<queue, cur>> /\ thr[t].at = "callback" /\ thr[t].up # NULL
  BY DEF EndCallback, At, loopv, Core, ThreadInv, InCall
<1>2. /\ thr'[t] = Idle
      /\ \A s \in Threads \ {t} : thr'[s] = thr[s]
  BY OneThread DEF EndCallback
<1>3. thr'[t].up = NULL
  BY <1>2 DEF Idle
<1>4. Change(v, Bit(t \in Pushers(v)') - Bit(t \in Pushers(v))
                  + Bit(t \in Callers(v)') - Bit(t \in Callers(v)),
             Bit(t \in ToPush(v)') - Bit(t \in ToPush(v)),
             Bit(t \in WritesToPush(v)') - Bit(t \in WritesToPush(v)),
             Bit(t \in Admitting(v)') - Bit(t \in Admitting(v)))
  BY <1>1, <1>2, MoveCounts
<1>5. /\ t \notin Pushers(v)' /\ t \notin Pushers(v) /\ t \notin ToPush(v)' /\ t \notin ToPush(v)
      /\ t \notin WritesToPush(v)' /\ t \notin WritesToPush(v)
      /\ t \notin Admitting(v)' /\ t \notin Admitting(v)
      /\ t \notin Callers(v)'
      /\ t \in Callers(v) <=> v = thr[t].up
  BY <1>1, <1>3, ThreadBits, ThreadBitsNext
<1>6. thr[t].up \in Ups
  BY <1>1, CallRecord DEF Core
<1> QED  BY <1>4, <1>5, <1>6 DEF Bit

LEMMA RefuseCounts ==
  ASSUME Core, TypeOK', NEW t \in Threads, Refuse(t), NEW v \in Ups
  PROVE  thr[t].up \in Ups /\ Change(v, -Bit(v = thr[t].up /\ ~thr[t].inc), 0, 0, 0)
<1> USE NullAssumption
<1>1. UNCHANGED <<queue, cur>> /\ thr[t].at = "limit" /\ thr[t].up # NULL
  BY DEF Refuse, At, loopv, Core, ThreadInv, InCall, Writing
<1>2. /\ \A s \in Threads \ {t} : thr'[s] = thr[s]
      /\ thr'[t].up = (IF thr[t].inc THEN thr[t].up ELSE NULL)
      /\ thr'[t].at = (IF thr[t].inc THEN "callback" ELSE "idle")
  BY <1>1, ReturnIs DEF Refuse, Calling
<1>4. Change(v, Bit(t \in Pushers(v)') - Bit(t \in Pushers(v))
                  + Bit(t \in Callers(v)') - Bit(t \in Callers(v)),
             Bit(t \in ToPush(v)') - Bit(t \in ToPush(v)),
             Bit(t \in WritesToPush(v)') - Bit(t \in WritesToPush(v)),
             Bit(t \in Admitting(v)') - Bit(t \in Admitting(v)))
  BY <1>1, <1>2, MoveCounts
<1>5. /\ t \notin Pushers(v)' /\ t \notin Pushers(v) /\ t \notin ToPush(v)' /\ t \notin ToPush(v)
      /\ t \notin WritesToPush(v)' /\ t \notin WritesToPush(v)
      /\ t \notin Admitting(v)' /\ t \notin Admitting(v)
      /\ t \in Callers(v)' <=> v = thr[t].up /\ thr[t].inc
      /\ t \in Callers(v) <=> v = thr[t].up
  BY <1>1, <1>2, ThreadBits, ThreadBitsNext
<1>6. thr[t].up \in Ups
  BY <1>1, CallRecord DEF Core
<1> QED  BY <1>4, <1>5, <1>6 DEF Bit

LEMMA AcceptCounts ==
  ASSUME Core, TypeOK', NEW t \in Threads, Accept(t), NEW v \in Ups
  PROVE  thr[t].up \in Ups /\ Change(v, 0, 0, 0, Bit(v = thr[t].up))
<1> USE NullAssumption
<1>1. /\ UNCHANGED <<queue, cur>> /\ thr[t].at = "limit" /\ thr[t].up # NULL
      /\ thr' = [thr EXCEPT ![t] = [thr[t] EXCEPT !.at = "admit"]]
  BY DEF Accept, GoTo, At, loopv, Core, ThreadInv, InCall, Writing
<1>2. thr'[t] = [thr[t] EXCEPT !.at = "admit"] /\ \A s \in Threads \ {t} : thr'[s] = thr[s]
  BY <1>1, OneThread
<1>3. thr'[t].at = "admit" /\ thr'[t].up = thr[t].up
  BY <1>2, CallRecord DEF CallType, Core
<1>4. Change(v, Bit(t \in Pushers(v)') - Bit(t \in Pushers(v))
                  + Bit(t \in Callers(v)') - Bit(t \in Callers(v)),
             Bit(t \in ToPush(v)') - Bit(t \in ToPush(v)),
             Bit(t \in WritesToPush(v)') - Bit(t \in WritesToPush(v)),
             Bit(t \in Admitting(v)') - Bit(t \in Admitting(v)))
  BY <1>1, <1>2, MoveCounts
<1>5. /\ t \notin Pushers(v)' /\ t \notin Pushers(v) /\ t \notin ToPush(v)' /\ t \notin ToPush(v)
      /\ t \notin WritesToPush(v)' /\ t \notin WritesToPush(v)
      /\ t \in Admitting(v)' <=> v = thr[t].up
      /\ t \notin Admitting(v)
      /\ t \in Callers(v)' <=> v = thr[t].up
      /\ t \in Callers(v) <=> v = thr[t].up
  BY <1>1, <1>3, ThreadBits, ThreadBitsNext
<1>6. thr[t].up \in Ups
  BY <1>1, CallRecord DEF Core
<1> QED  BY <1>4, <1>5, <1>6 DEF Bit

LEMMA AdmitCounts ==
  ASSUME Core, TypeOK', NEW t \in Threads, Admit(t), NEW v \in Ups
  PROVE  /\ thr[t].up \in Ups
         /\ Change(v, Bit(v = thr[t].up /\ thr[t].inc), Bit(v = thr[t].up),
                   Bit(v = thr[t].up), -Bit(v = thr[t].up))
<1> USE NullAssumption
<1>1. /\ UNCHANGED <<queue, cur>> /\ thr[t].at = "admit" /\ thr[t].up # NULL
      /\ thr[t].next = 1 /\ thr[t].pub.kind = "WRITE"
      /\ thr' = [thr EXCEPT ![t] = [thr[t] EXCEPT !.at = "push"]]
  BY DEF Admit, GoTo, At, loopv, Core, ThreadInv, InCall, Writing
<1>2. thr'[t] = [thr[t] EXCEPT !.at = "push"] /\ \A s \in Threads \ {t} : thr'[s] = thr[s]
  BY <1>1, OneThread
<1>3. /\ thr'[t].at = "push" /\ thr'[t].up = thr[t].up /\ thr'[t].inc = thr[t].inc
      /\ thr'[t].next = thr[t].next /\ thr'[t].pub = thr[t].pub
  BY <1>2, CallRecord DEF CallType, Core
<1>4. Change(v, Bit(t \in Pushers(v)') - Bit(t \in Pushers(v))
                  + Bit(t \in Callers(v)') - Bit(t \in Callers(v)),
             Bit(t \in ToPush(v)') - Bit(t \in ToPush(v)),
             Bit(t \in WritesToPush(v)') - Bit(t \in WritesToPush(v)),
             Bit(t \in Admitting(v)') - Bit(t \in Admitting(v)))
  BY <1>1, <1>2, MoveCounts
<1>5. 1 <= Home[v]
  BY LoopAssumption
<1>6. /\ t \notin Pushers(v) /\ t \notin ToPush(v) /\ t \notin WritesToPush(v)
      /\ t \in Pushers(v)' <=> v = thr[t].up
      /\ t \in ToPush(v)' <=> v = thr[t].up
      /\ t \in WritesToPush(v)' <=> v = thr[t].up
      /\ t \in Admitting(v) <=> v = thr[t].up
      /\ t \notin Admitting(v)'
      /\ t \in Callers(v)' <=> v = thr[t].up /\ thr[t].inc
      /\ t \in Callers(v) <=> v = thr[t].up
  BY <1>1, <1>3, <1>5, ThreadBits, ThreadBitsNext
<1>7. thr[t].up \in Ups
  BY <1>1, CallRecord DEF Core
<1> QED  BY <1>4, <1>6, <1>7 DEF Bit

\* A publication is put on the queue of loop l.
LEMMA PushQueues ==
  ASSUME Core, TypeOK', NEW l \in Loops, NEW p \in PubSet,
         queue' = [queue EXCEPT ![l] = Append(@, p)], UNCHANGED cur, NEW u \in Ups
  PROVE  /\ Cardinality(Copies(u)') = Cardinality(Copies(u)) + Bit(p.up = u)
         /\ Cardinality(Waiting(Home[u], u)') =
              Cardinality(Waiting(Home[u], u)) + Bit(p.up = u /\ Home[u] = l)
         /\ Cardinality(WaitingWrites(u)') =
              Cardinality(WaitingWrites(u)) + Bit(p.up = u /\ Home[u] = l /\ p.kind = "WRITE")
<1> DEFINE n == Len(queue[l]) + 1
<1>t. TypeOK
  BY DEF Core
<1>1. queue \in [Loops -> Seq(PubSet)] /\ queue[l] \in Seq(PubSet) /\ Len(queue[l]) \in Nat
  BY <1>t, LenProperties DEF TypeOK
<1>2. /\ Len(queue'[l]) = n /\ queue'[l][n] = p
      /\ \A i \in 1 .. Len(queue[l]) : queue'[l][i] = queue[l][i]
      /\ \A k \in Loops \ {l} : queue'[k] = queue[k]
  BY <1>1, AppendProperties
<1>3. /\ \A i : i # n => (i \in Waiting(l, u)' <=> i \in Waiting(l, u))
      /\ n \in Waiting(l, u)' <=> p.up = u
      /\ n \notin Waiting(l, u)
  <2>1. \A i : i \in Waiting(l, u)' <=>
          \/ i \in 1 .. n /\ queue'[l][i].up = u
          \/ i = 0 /\ cur[l] # NULL /\ cur[l].up = u
    BY <1>2 DEF Waiting
  <2>2. \A i : i \in Waiting(l, u) <=>
          \/ i \in 1 .. Len(queue[l]) /\ queue[l][i].up = u
          \/ i = 0 /\ cur[l] # NULL /\ cur[l].up = u
    BY DEF Waiting
  <2>3. n \in Nat /\ n # 0 /\ n \notin 1 .. Len(queue[l]) /\ n \in 1 .. n
    BY <1>1
  <2>4. \A i : i # n => (i \in 1 .. n <=> i \in 1 .. Len(queue[l]))
    BY <1>1
  <2> HIDE DEF n
  <2> QED  BY <1>2, <2>1, <2>2, <2>3, <2>4
<1>4. \A k \in Loops \ {l} : Waiting(k, u)' = Waiting(k, u)
  BY <1>2 DEF Waiting
<1>5. Cardinality(Copies(u)') = Cardinality(Copies(u)) + Bit(p.up = u)
  <2>1. \A x : x \in Copies(u)' <=> \E k \in Loops : \E i \in Waiting(k, u)' : x = <<k, i>>
    BY DEF Copies
  <2>2. \A x : x \in Copies(u) <=> \E k \in Loops : \E i \in Waiting(k, u) : x = <<k, i>>
    BY DEF Copies
  <2>3. <<l, n>> \in Copies(u)' <=> p.up = u
    BY <1>3, <2>1
  <2>4. <<l, n>> \notin Copies(u)
    BY <1>3, <2>2
  <2>5. ASSUME NEW x, x # <<l, n>> PROVE x \in Copies(u)' <=> x \in Copies(u)
    <3> HIDE DEF n
    <3>1. \A k \in Loops : \A i : x = <<k, i>> => (i \in Waiting(k, u)' <=> i \in Waiting(k, u))
      BY <1>3, <1>4, <2>5
    <3> QED  BY <2>1, <2>2, <3>1
  <2>6. IsFiniteSet(Copies(u))
    BY <1>t, CopiesFinite
  <2>7. /\ Cardinality(Copies(u)) \in Nat
        /\ Cardinality(Copies(u)') = Cardinality(Copies(u)) + Bit(<<l, n>> \in Copies(u)')
                                        - Bit(<<l, n>> \in Copies(u))
    BY <2>5, <2>6, SetOne
  <2> QED  BY <2>3, <2>4, <2>7 DEF Bit
<1>6. Home[u] \in Loops
  BY LoopAssumption DEF Loops
<1>7. CASE Home[u] = l
  <2>1. IsFiniteSet(Waiting(l, u)) /\ IsFiniteSet(WaitingWrites(u))
    BY <1>t, <1>7, <1>6, WaitingFinite, FS_Subset DEF WaitingWrites
  <2>2. /\ Cardinality(Waiting(l, u)) \in Nat
        /\ Cardinality(Waiting(l, u)') = Cardinality(Waiting(l, u)) + Bit(n \in Waiting(l, u)')
                                            - Bit(n \in Waiting(l, u))
    BY <1>3, <2>1, SetOne
  <2>3. \A i : i \in WaitingWrites(u)' <=>
          i \in Waiting(l, u)' /\ i # 0 /\ queue'[l][i].kind = "WRITE"
    BY <1>7 DEF WaitingWrites
  <2>4. \A i : i \in WaitingWrites(u) <=>
          i \in Waiting(l, u) /\ i # 0 /\ queue[l][i].kind = "WRITE"
    BY <1>7 DEF WaitingWrites
  <2>5. n # 0 /\ \A i \in Waiting(l, u) : i # 0 => i \in 1 .. Len(queue[l])
    BY <1>1 DEF Waiting
  <2>6. \A i : i # n => (i \in WaitingWrites(u)' <=> i \in WaitingWrites(u))
    BY <1>2, <1>3, <2>3, <2>4, <2>5
  <2>7. n \in WaitingWrites(u)' <=> p.up = u /\ p.kind = "WRITE"
    BY <1>2, <1>3, <2>3, <2>5
  <2>8. n \notin WaitingWrites(u)
    BY <1>3, <2>4
  <2>9. /\ Cardinality(WaitingWrites(u)) \in Nat
        /\ Cardinality(WaitingWrites(u)') = Cardinality(WaitingWrites(u))
             + Bit(n \in WaitingWrites(u)') - Bit(n \in WaitingWrites(u))
    BY <2>1, <2>6, SetOne
  <2> QED  BY <1>3, <1>5, <1>7, <2>2, <2>7, <2>8, <2>9 DEF Bit
<1>8. CASE Home[u] # l
  <2>1. Waiting(Home[u], u)' = Waiting(Home[u], u) /\ queue'[Home[u]] = queue[Home[u]]
    BY <1>2, <1>4, <1>6, <1>8
  <2>2. WaitingWrites(u)' = WaitingWrites(u)
    BY <2>1 DEF WaitingWrites
  <2>3. Cardinality(Waiting(Home[u], u)) \in Nat /\ Cardinality(WaitingWrites(u)) \in Nat
    BY <1>t, CountsNat
  <2> QED  BY <1>5, <1>8, <2>1, <2>2, <2>3 DEF Bit
<1> QED  BY <1>7, <1>8

\* The loop is done with the publication it works on.
LEMMA DoneQueues ==
  ASSUME Core, NEW l \in Loops, cur[l] # NULL, cur' = [cur EXCEPT ![l] = NULL],
         UNCHANGED queue, NEW u \in Ups
  PROVE  /\ Cardinality(Copies(u)') = Cardinality(Copies(u)) - Bit(cur[l].up = u)
         /\ Cardinality(Waiting(Home[u], u)') =
              Cardinality(Waiting(Home[u], u)) - Bit(cur[l].up = u /\ Home[u] = l)
         /\ WaitingWrites(u)' = WaitingWrites(u)
<1>t. TypeOK
  BY DEF Core
<1>1. cur'[l] = NULL /\ \A k \in Loops \ {l} : cur'[k] = cur[k]
  BY <1>t DEF TypeOK
<1>2. \A k \in Loops : Len(queue[k]) \in Nat
  BY <1>t, LenProperties DEF TypeOK
<1>3. /\ \A i : i # 0 => (i \in Waiting(l, u)' <=> i \in Waiting(l, u))
      /\ 0 \in Waiting(l, u) <=> cur[l].up = u
      /\ 0 \notin Waiting(l, u)'
  BY <1>1, <1>2 DEF Waiting
<1>4. \A k \in Loops \ {l} : Waiting(k, u)' = Waiting(k, u)
  BY <1>1 DEF Waiting
<1>5. Cardinality(Copies(u)') = Cardinality(Copies(u)) - Bit(cur[l].up = u)
  <2>1. \A x : x \in Copies(u)' <=> \E k \in Loops : \E i \in Waiting(k, u)' : x = <<k, i>>
    BY DEF Copies
  <2>2. \A x : x \in Copies(u) <=> \E k \in Loops : \E i \in Waiting(k, u) : x = <<k, i>>
    BY DEF Copies
  <2>3. <<l, 0>> \in Copies(u) <=> cur[l].up = u
    BY <1>3, <2>2
  <2>4. <<l, 0>> \notin Copies(u)'
    BY <1>3, <2>1
  <2>5. ASSUME NEW x, x # <<l, 0>> PROVE x \in Copies(u)' <=> x \in Copies(u)
    <3>1. \A k \in Loops : \A i : x = <<k, i>> => (i \in Waiting(k, u)' <=> i \in Waiting(k, u))
      BY <1>3, <1>4, <2>5
    <3> QED  BY <2>1, <2>2, <3>1
  <2>6. IsFiniteSet(Copies(u))
    BY <1>t, CopiesFinite
  <2>7. /\ Cardinality(Copies(u)) \in Nat
        /\ Cardinality(Copies(u)') = Cardinality(Copies(u)) + Bit(<<l, 0>> \in Copies(u)')
                                        - Bit(<<l, 0>> \in Copies(u))
    BY <2>5, <2>6, SetOne
  <2> QED  BY <2>3, <2>4, <2>7 DEF Bit
<1>6. Home[u] \in Loops
  BY LoopAssumption DEF Loops
<1>7. CASE Home[u] = l
  <2>1. IsFiniteSet(Waiting(l, u))
    BY <1>t, WaitingFinite
  <2>2. /\ Cardinality(Waiting(l, u)) \in Nat
        /\ Cardinality(Waiting(l, u)') = Cardinality(Waiting(l, u)) + Bit(0 \in Waiting(l, u)')
                                            - Bit(0 \in Waiting(l, u))
    BY <1>3, <2>1, SetOne
  <2>3. WaitingWrites(u)' = WaitingWrites(u)
    BY <1>3, <1>7 DEF WaitingWrites
  <2> QED  BY <1>3, <1>5, <1>7, <2>2, <2>3 DEF Bit
<1>8. CASE Home[u] # l
  <2>1. Waiting(Home[u], u)' = Waiting(Home[u], u)
    BY <1>4, <1>6, <1>8
  <2>2. WaitingWrites(u)' = WaitingWrites(u)
    BY <2>1 DEF WaitingWrites
  <2>3. Cardinality(Waiting(Home[u], u)) \in Nat
    BY <1>t, CountsNat
  <2> QED  BY <1>5, <1>8, <2>1, <2>2, <2>3 DEF Bit
<1> QED  BY <1>7, <1>8

\* The loop takes its next publication: what waits moves one place ahead.
LEMMA ReadPlaces ==
  ASSUME Core, NEW l \in Loops, Read(l), NEW u \in Ups
  PROVE  /\ \A i \in Waiting(l, u) : i \in Nat /\ i # 0 /\ i - 1 \in Waiting(l, u)'
         /\ \A i \in Waiting(l, u)' : i \in Nat /\ i + 1 \in Waiting(l, u)
         /\ \A k \in Loops \ {l} : Waiting(k, u)' = Waiting(k, u)
         /\ \A i \in Waiting(l, u)' : i # 0 => queue'[l][i] = queue[l][i + 1]
         /\ \A k \in Loops \ {l} : queue'[k] = queue[k]
<1> DEFINE q == queue[l]
<1>t. TypeOK
  BY DEF Core
<1>1. q \in Seq(PubSet) /\ q # <<>> /\ cur[l] = NULL /\ Len(q) \in Nat
  BY <1>t, LenProperties DEF TypeOK, Read
<1>2. /\ queue'[l] = Tail(q) /\ cur'[l] = Head(q)
      /\ \A k \in Loops \ {l} : queue'[k] = queue[k] /\ cur'[k] = cur[k]
  BY <1>t DEF TypeOK, Read
<1>3. /\ Head(q) = q[1] /\ Head(q) \in PubSet /\ Len(Tail(q)) = Len(q) - 1 /\ Len(q) > 0
      /\ \A i \in 1 .. Len(q) - 1 : Tail(q)[i] = q[i + 1]
  BY <1>1, HeadTailProperties, LenProperties
<1>4. Head(q) # NULL
  BY <1>3, PubRecord
<1>5. \A i : i \in Waiting(l, u)' <=> \/ i \in 1 .. Len(q) - 1 /\ q[i + 1].up = u
                                      \/ i = 0 /\ q[1].up = u
  BY <1>2, <1>3, <1>4 DEF Waiting
<1>6. \A i : i \in Waiting(l, u) <=> i \in 1 .. Len(q) /\ q[i].up = u
  BY <1>1 DEF Waiting
<1> HIDE DEF q
<1>7. \A i \in Waiting(l, u) : i \in Nat /\ i # 0 /\ i - 1 \in Waiting(l, u)'
  <2> TAKE i \in Waiting(l, u)
  <2>1. i \in 1 .. Len(q) /\ q[i].up = u
    BY <1>6
  <2>2. i \in Nat /\ i # 0 /\ (i - 1) + 1 = i
    BY <1>1, <2>1
  <2>3. CASE i = 1
    BY <1>5, <2>1, <2>3
  <2>4. CASE i # 1
    <3>1. i - 1 \in 1 .. Len(q) - 1
      BY <1>1, <2>1, <2>4
    <3> QED  BY <1>5, <2>1, <2>2, <3>1
  <2> QED  BY <2>2, <2>3, <2>4
<1>8. \A i \in Waiting(l, u)' : i \in Nat /\ i + 1 \in Waiting(l, u)
  <2> TAKE i \in Waiting(l, u)'
  <2>1. \/ i \in 1 .. Len(q) - 1 /\ q[i + 1].up = u
        \/ i = 0 /\ q[1].up = u
    BY <1>5
  <2>2. i \in Nat /\ i + 1 \in 1 .. Len(q) /\ q[i + 1].up = u
    BY <1>1, <1>3, <2>1
  <2> QED  BY <1>6, <2>2
<1>9. \A k \in Loops \ {l} : Waiting(k, u)' = Waiting(k, u)
  BY <1>2 DEF Waiting
<1>10. \A i \in Waiting(l, u)' : i # 0 => queue'[l][i] = q[i + 1]
  BY <1>2, <1>3, <1>5
<1> QED  BY <1>2, <1>7, <1>8, <1>9, <1>10 DEF q

LEMMA ReadQueues ==
  ASSUME Core, NEW l \in Loops, Read(l), NEW u \in Ups
  PROVE  /\ Cardinality(Copies(u)') = Cardinality(Copies(u))
         /\ Cardinality(Waiting(Home[u], u)') = Cardinality(Waiting(Home[u], u))
         /\ Cardinality(WaitingWrites(u)') <= Cardinality(WaitingWrites(u))
<1>t. TypeOK
  BY DEF Core
<1>1. /\ \A i \in Waiting(l, u) : i \in Nat /\ i # 0 /\ i - 1 \in Waiting(l, u)'
      /\ \A i \in Waiting(l, u)' : i \in Nat /\ i + 1 \in Waiting(l, u)
      /\ \A k \in Loops \ {l} : Waiting(k, u)' = Waiting(k, u)
      /\ \A i \in Waiting(l, u)' : i # 0 => queue'[l][i] = queue[l][i + 1]
      /\ \A k \in Loops \ {l} : queue'[k] = queue[k]
  BY ReadPlaces
<1>2. Cardinality(Copies(u)') = Cardinality(Copies(u))
  <2> DEFINE S == Copies(u)
             T == Copies(u)'
             g(x) == IF x[1] = l THEN <<l, x[2] - 1>> ELSE x
             f == [x \in S |-> g(x)]
  <2>1. \A x : x \in T <=> \E k \in Loops : \E i \in Waiting(k, u)' : x = <<k, i>>
    BY DEF Copies
  <2>2. \A x : x \in S <=> \E k \in Loops : \E i \in Waiting(k, u) : x = <<k, i>>
    BY DEF Copies
  <2>3. \A x \in S : g(x) \in T
    <3> TAKE x \in S
    <3>1. PICK k \in Loops : \E i \in Waiting(k, u) : x = <<k, i>>
      BY <2>2
    <3>2. PICK i \in Waiting(k, u) : x = <<k, i>>
      BY <3>1
    <3>3. CASE k = l
      BY <1>1, <2>1, <3>2, <3>3
    <3>4. CASE k # l
      BY <1>1, <2>1, <3>2, <3>4
    <3> QED  BY <3>3, <3>4
  <2>4. \A x, y \in S : g(x) = g(y) => x = y
    <3> TAKE x, y \in S
    <3> HAVE g(x) = g(y)
    <3>1. PICK k \in Loops : \E i \in Waiting(k, u) : x = <<k, i>>
      BY <2>2
    <3>2. PICK i \in Waiting(k, u) : x = <<k, i>>
      BY <3>1
    <3>3. PICK m \in Loops : \E j \in Waiting(m, u) : y = <<m, j>>
      BY <2>2
    <3>4. PICK j \in Waiting(m, u) : y = <<m, j>>
      BY <3>3
    <3>5. k = m
      BY <3>2, <3>4
    <3>6. CASE k = l
      <4>1. i \in Nat /\ j \in Nat /\ i - 1 = j - 1
        BY <1>1, <3>2, <3>4, <3>5, <3>6
      <4> QED  BY <3>2, <3>4, <3>5, <4>1
    <3>7. CASE k # l
      BY <3>2, <3>4, <3>5, <3>7
    <3> QED  BY <3>6, <3>7
  <2>5. \A y \in T : \E x \in S : g(x) = y
    <3> TAKE y \in T
    <3>1. PICK k \in Loops : \E i \in Waiting(k, u)' : y = <<k, i>>
      BY <2>1
    <3>2. PICK i \in Waiting(k, u)' : y = <<k, i>>
      BY <3>1
    <3>3. CASE k = l
      <4>1. i \in Nat /\ i + 1 \in Waiting(l, u) /\ (i + 1) - 1 = i
        BY <1>1, <3>3
      <4>2. <<l, i + 1>> \in S /\ g(<<l, i + 1>>) = y
        BY <2>2, <3>2, <3>3, <4>1
      <4> QED  BY <4>2
    <3>4. CASE k # l
      <4>1. y \in S /\ g(y) = y
        BY <1>1, <2>2, <3>2, <3>4
      <4> QED  BY <4>1
    <3> QED  BY <3>3, <3>4
  <2> HIDE DEF g, S, T
  <2>6. f \in Bijection(S, T)
    BY <2>3, <2>4, <2>5 DEF Bijection, Injection, Surjection, IsInjective
  <2>7. IsFiniteSet(S)
    BY <1>t, CopiesFinite DEF S
  <2>8. Cardinality(T) = Cardinality(S)
    BY <2>6, <2>7, ShiftCard
  <2> QED  BY <2>8 DEF S, T
<1>3. Home[u] \in Loops /\ IsFiniteSet(Waiting(Home[u], u))
  BY <1>t, WaitingFinite, LoopAssumption DEF Loops
<1>4. /\ IsFiniteSet(WaitingWrites(u)) /\ Cardinality(WaitingWrites(u)) \in Nat
      /\ Cardinality(Waiting(Home[u], u)) \in Nat
  BY <1>3, FS_Subset, FS_CardinalityType DEF WaitingWrites
<1>5. CASE Home[u] # l
  <2>1. Waiting(Home[u], u)' = Waiting(Home[u], u) /\ queue'[Home[u]] = queue[Home[u]]
    BY <1>1, <1>3, <1>5
  <2>2. WaitingWrites(u)' = WaitingWrites(u)
    BY <2>1 DEF WaitingWrites
  <2> QED  BY <1>2, <1>4, <2>1, <2>2
<1>6. CASE Home[u] = l
  <2> DEFINE S == Waiting(l, u)
             T == Waiting(l, u)'
             f == [i \in S |-> i - 1]
  <2>1. f \in Bijection(S, T)
    <3>1. \A i \in S : i \in Nat /\ i - 1 \in T
      BY <1>1
    <3>2. \A i \in T : i \in Nat /\ i + 1 \in S /\ (i + 1) - 1 = i
      BY <1>1
    <3> HIDE DEF S, T
    <3>3. \A i, j \in S : i - 1 = j - 1 => i = j
      BY <3>1
    <3> QED  BY <3>1, <3>2, <3>3 DEF Bijection, Injection, Surjection, IsInjective
  <2>2. Cardinality(T) = Cardinality(S)
    BY <1>3, <1>6, <2>1, ShiftCard
  <2> DEFINE V == WaitingWrites(u) \ {1}
             W == WaitingWrites(u)'
             h == [i \in V |-> i - 1]
  <2>3. \A i : i \in V <=> i \in S /\ i # 0 /\ i # 1 /\ queue[l][i].kind = "WRITE"
    BY <1>6 DEF WaitingWrites
  <2>4. \A i : i \in W <=> i \in T /\ i # 0 /\ queue'[l][i].kind = "WRITE"
    BY <1>6 DEF WaitingWrites
  <2>5. IsFiniteSet(V) /\ Cardinality(V) <= Cardinality(WaitingWrites(u))
    BY <1>4, FS_Subset
  <2>6. h \in Bijection(V, W)
    <3> HIDE DEF V, W
    <3>1. \A i \in V : i \in Nat /\ i - 1 \in W
      <4> TAKE i \in V
      <4>1. i \in Nat /\ i # 0 /\ i # 1 /\ i - 1 \in T /\ queue[l][i].kind = "WRITE"
        BY <1>1, <2>3
      <4>2. i - 1 # 0 /\ (i - 1) + 1 = i
        BY <4>1
      <4>3. queue'[l][i - 1] = queue[l][i]
        BY <1>1, <4>1, <4>2
      <4> QED  BY <2>4, <4>1, <4>2, <4>3
    <3>2. \A i \in W : i \in Nat /\ i + 1 \in V /\ (i + 1) - 1 = i
      <4> TAKE i \in W
      <4>1. i \in T /\ i # 0 /\ queue'[l][i].kind = "WRITE"
        BY <2>4
      <4>2. i \in Nat /\ i + 1 \in S /\ queue'[l][i] = queue[l][i + 1]
        BY <1>1, <4>1
      <4>3. i + 1 # 0 /\ i + 1 # 1 /\ (i + 1) - 1 = i
        BY <4>1, <4>2
      <4> QED  BY <2>3, <4>1, <4>2, <4>3
    <3>3. \A i, j \in V : i - 1 = j - 1 => i = j
      BY <3>1
    <3> QED  BY <3>1, <3>2, <3>3 DEF Bijection, Injection, Surjection, IsInjective
  <2>7. Cardinality(W) = Cardinality(V)
    BY <2>5, <2>6, ShiftCard
  <2> QED  BY <1>2, <1>6, <2>2, <2>5, <2>7
<1> QED  BY <1>5, <1>6

LEMMA PushCounts ==
  ASSUME Core, TypeOK', NEW t \in Threads, PushNext(t), NEW v \in Ups
  PROVE  Change(v, Bit(v = thr[t].up /\ thr[t].next # LoopCnt), 0, 0, 0)
<1> USE NullAssumption
<1> DEFINE last == thr[t].next = LoopCnt
<1>t. TypeOK /\ ThreadInv /\ v # NULL
  BY DEF Core
<1>1. /\ thr[t].at = "push" /\ UNCHANGED cur
      /\ queue' = [queue EXCEPT ![thr[t].next] = Append(@, thr[t].pub)]
  BY DEF PushNext, At
<1>2. PICK l \in Loops, p \in PubSet :
        /\ l = thr[t].next /\ p = thr[t].pub /\ p.up = thr[t].up
        /\ queue' = [queue EXCEPT ![l] = Append(queue[l], p)]
  BY <1>1, <1>t, PushRecord
<1>a. queue' = [queue EXCEPT ![l] = Append(@, p)] /\ UNCHANGED cur
  BY <1>1, <1>2
<1>3. /\ Cardinality(Copies(v)') = Cardinality(Copies(v)) + Bit(p.up = v)
      /\ Cardinality(Waiting(Home[v], v)') =
           Cardinality(Waiting(Home[v], v)) + Bit(p.up = v /\ Home[v] = l)
      /\ Cardinality(WaitingWrites(v)') =
           Cardinality(WaitingWrites(v)) + Bit(p.up = v /\ Home[v] = l /\ p.kind = "WRITE")
  BY <1>a, PushQueues
<1>4. /\ \A s \in Threads \ {t} : thr'[s] = thr[s]
      /\ last => /\ thr'[t].up = (IF thr[t].inc THEN thr[t].up ELSE NULL)
                 /\ thr'[t].at = (IF thr[t].inc THEN "callback" ELSE "idle")
      /\ ~last => /\ thr'[t].at = "push" /\ thr'[t].up = thr[t].up /\ thr'[t].pub = thr[t].pub
                  /\ (thr'[t].inc <=> thr[t].inc) /\ thr'[t].next = thr[t].next + 1
  <2>1. CASE last
    BY <1>1, <2>1, ReturnIs DEF PushNext, Calling
  <2>2. CASE ~last
    <3>1. thr' = [thr EXCEPT ![t] = [thr[t] EXCEPT !.next = thr[t].next + 1]]
      BY <2>2 DEF PushNext
    <3>2. /\ thr'[t] = [thr[t] EXCEPT !.next = thr[t].next + 1]
          /\ \A s \in Threads \ {t} : thr'[s] = thr[s]
      BY <3>1, OneThread
    <3> QED  BY <1>1, <2>2, <3>2, <1>t, CallRecord DEF CallType
  <2> QED  BY <2>1, <2>2
<1>5. /\ l \in Nat /\ l <= LoopCnt /\ Home[v] \in Nat /\ Home[v] <= LoopCnt /\ LoopCnt \in Nat
  BY LoopAssumption DEF Loops
<1>6. /\ t \in Pushers(v) <=> v = p.up
      /\ t \in Pushers(v)' <=> v = p.up /\ ~last
      /\ t \in Callers(v) <=> v = p.up /\ thr[t].inc
      /\ t \in Callers(v)' <=> v = p.up /\ thr[t].inc
      /\ t \notin Admitting(v) /\ t \notin Admitting(v)'
  BY <1>1, <1>2, <1>4, <1>t, ThreadBits, ThreadBitsNext
<1>7. /\ t \in ToPush(v) <=> v = p.up /\ l <= Home[v]
      /\ t \in WritesToPush(v) <=> v = p.up /\ l <= Home[v] /\ p.kind = "WRITE"
  BY <1>1, <1>2, ThreadBits
<1>8. /\ t \in ToPush(v)' <=> v = p.up /\ l <= Home[v] /\ l # Home[v]
      /\ t \in WritesToPush(v)' <=> v = p.up /\ l <= Home[v] /\ l # Home[v] /\ p.kind = "WRITE"
  <2>1. CASE last
    <3>1. ~(l <= Home[v] /\ l # Home[v])
      BY <1>2, <1>5, <2>1
    <3>2. thr'[t].at # "push"
      BY <1>4, <2>1
    <3> QED  BY <3>1, <3>2, ThreadBitsNext
  <2>2. CASE ~last
    <3>1. l + 1 <= Home[v] <=> l <= Home[v] /\ l # Home[v]
      BY <1>5
    <3>2. /\ thr'[t].at = "push" /\ thr'[t].up = p.up /\ thr'[t].pub = p
          /\ thr'[t].next = l + 1
      BY <1>2, <1>4, <2>2
    <3> QED  BY <3>1, <3>2, ThreadBitsNext
  <2> QED  BY <2>1, <2>2
<1>9. /\ Cardinality(Copies(v)) \in Nat /\ Cardinality(Pushers(v)) \in Nat
      /\ Cardinality(Callers(v)) \in Nat /\ Cardinality(ToPush(v)) \in Nat
      /\ Cardinality(Waiting(Home[v], v)) \in Nat
      /\ Cardinality(WaitingWrites(v)) \in Nat /\ Cardinality(WritesToPush(v)) \in Nat
      /\ Cardinality(Admitting(v)) \in Nat
  BY <1>t, CountsNat
<1>10. /\ Cardinality(Pushers(v)') =
            Cardinality(Pushers(v)) + Bit(t \in Pushers(v)') - Bit(t \in Pushers(v))
       /\ Cardinality(Callers(v)') =
            Cardinality(Callers(v)) + Bit(t \in Callers(v)') - Bit(t \in Callers(v))
       /\ Cardinality(ToPush(v)') =
            Cardinality(ToPush(v)) + Bit(t \in ToPush(v)') - Bit(t \in ToPush(v))
       /\ Cardinality(WritesToPush(v)') =
            Cardinality(WritesToPush(v)) + Bit(t \in WritesToPush(v)') - Bit(t \in WritesToPush(v))
       /\ Cardinality(Admitting(v)') =
            Cardinality(Admitting(v)) + Bit(t \in Admitting(v)') - Bit(t \in Admitting(v))
  BY <1>4, ThreadStep
<1> HIDE DEF Copies, Waiting, WaitingWrites, Pushers, Callers, ToPush, WritesToPush, Admitting, last
<1>11. Held(v)' = Held(v) + Bit(v = p.up /\ ~last)
  <2>1. Cardinality(Pushers(v)') = Cardinality(Pushers(v)) + Bit(v = p.up /\ ~last) - Bit(p.up = v)
    BY <1>6, <1>9, <1>10 DEF Bit
  <2>2. Cardinality(Callers(v)') = Cardinality(Callers(v))
    BY <1>6, <1>9, <1>10 DEF Bit
  <2>3. Bit(p.up = v) \in {0, 1} /\ Bit(v = p.up /\ ~last) \in {0, 1}
    BY BitInt
  <2> QED  BY <1>3, <1>9, <2>1, <2>2, <2>3 DEF Held
<1>12. Undone(v)' = Undone(v) + 0
  <2>1. Cardinality(ToPush(v)') = Cardinality(ToPush(v)) - Bit(p.up = v /\ Home[v] = l)
    BY <1>5, <1>7, <1>8, <1>9, <1>10 DEF Bit
  <2>2. Bit(p.up = v /\ Home[v] = l) \in {0, 1}
    BY BitInt
  <2> QED  BY <1>3, <1>9, <2>1, <2>2 DEF Undone
<1>13. UndoneWrites(v)' <= UndoneWrites(v) + 0
  <2>1. Cardinality(WritesToPush(v)') =
          Cardinality(WritesToPush(v)) - Bit(p.up = v /\ Home[v] = l /\ p.kind = "WRITE")
    BY <1>5, <1>7, <1>8, <1>9, <1>10 DEF Bit
  <2>2. Bit(p.up = v /\ Home[v] = l /\ p.kind = "WRITE") \in {0, 1}
    BY BitInt
  <2> QED  BY <1>3, <1>9, <2>1, <2>2 DEF UndoneWrites
<1>14. Cardinality(Admitting(v)') = Cardinality(Admitting(v)) + 0
  BY <1>6, <1>9, <1>10 DEF Bit
<1> QED  BY <1>2, <1>11, <1>12, <1>13, <1>14 DEF Change, last

LEMMA ReadCounts ==
  ASSUME Core, NEW l \in Loops, Read(l), NEW v \in Ups
  PROVE  Change(v, 0, 0, 0, 0)
<1>t. TypeOK
  BY DEF Core
<1>1. /\ Cardinality(Copies(v)') = Cardinality(Copies(v))
      /\ Cardinality(Waiting(Home[v], v)') = Cardinality(Waiting(Home[v], v))
      /\ Cardinality(WaitingWrites(v)') <= Cardinality(WaitingWrites(v))
      /\ Cardinality(WaitingWrites(v)') \in Int
  <2>1. IsFiniteSet(WaitingWrites(v)')
    <3>1. IsFiniteSet(Waiting(Home[v], v)')
      <4>1. TypeOK' /\ Home[v] \in Loops
        BY TypeStep, LoopAssumption DEF Next, Loops
      <4>2. queue'[Home[v]] \in Seq(PubSet) /\ Len(queue'[Home[v]]) \in Nat
        BY <4>1, LenProperties DEF TypeOK
      <4>3. PICK n \in Nat : n = Len(queue'[Home[v]])
        BY <4>2
      <4>4. Waiting(Home[v], v)' \subseteq 0 .. n
        BY <4>3 DEF Waiting
      <4>5. IsFiniteSet(0 .. n)
        BY FS_Interval
      <4> QED  BY <4>4, <4>5, FS_Subset
    <3>2. WaitingWrites(v)' \subseteq Waiting(Home[v], v)'
      BY DEF WaitingWrites
    <3> QED  BY <3>1, <3>2, FS_Subset
  <2> QED  BY <2>1, ReadQueues, FS_CardinalityType
<1>2. /\ Pushers(v)' = Pushers(v) /\ Callers(v)' = Callers(v) /\ ToPush(v)' = ToPush(v)
      /\ WritesToPush(v)' = WritesToPush(v) /\ Admitting(v)' = Admitting(v)
  BY ThreadsStay DEF Read, thrv
<1>3. /\ Cardinality(Copies(v)) \in Nat /\ Cardinality(Pushers(v)) \in Nat
      /\ Cardinality(Callers(v)) \in Nat /\ Cardinality(ToPush(v)) \in Nat
      /\ Cardinality(Waiting(Home[v], v)) \in Nat
      /\ Cardinality(WaitingWrites(v)) \in Nat /\ Cardinality(WritesToPush(v)) \in Nat
      /\ Cardinality(Admitting(v)) \in Nat
  BY <1>t, CountsNat
<1> HIDE DEF Copies, Waiting, WaitingWrites, Pushers, Callers, ToPush, WritesToPush, Admitting
<1>4. Held(v)' = Held(v) + 0
  BY <1>1, <1>2, <1>3 DEF Held
<1>5. Undone(v)' = Undone(v) + 0
  BY <1>1, <1>2, <1>3 DEF Undone
<1>6. UndoneWrites(v)' <= UndoneWrites(v) + 0
  BY <1>1, <1>2, <1>3 DEF UndoneWrites
<1> QED  BY <1>2, <1>3, <1>4, <1>5, <1>6 DEF Change

LEMMA ProcessCounts ==
  ASSUME Core, NEW l \in Loops, Process(l), NEW v \in Ups
  PROVE  Change(v, -Bit(cur[l].up = v), -Bit(cur[l].up = v /\ Home[v] = l), 0, 0)
<1>t. TypeOK
  BY DEF Core
<1>1. /\ Cardinality(Copies(v)') = Cardinality(Copies(v)) - Bit(cur[l].up = v)
      /\ Cardinality(Waiting(Home[v], v)') =
           Cardinality(Waiting(Home[v], v)) - Bit(cur[l].up = v /\ Home[v] = l)
      /\ WaitingWrites(v)' = WaitingWrites(v)
  BY DoneQueues DEF Process
<1>2. /\ Pushers(v)' = Pushers(v) /\ Callers(v)' = Callers(v) /\ ToPush(v)' = ToPush(v)
      /\ WritesToPush(v)' = WritesToPush(v) /\ Admitting(v)' = Admitting(v)
  BY ThreadsStay DEF Process, thrv
<1>3. /\ Cardinality(Copies(v)) \in Nat /\ Cardinality(Pushers(v)) \in Nat
      /\ Cardinality(Callers(v)) \in Nat /\ Cardinality(ToPush(v)) \in Nat
      /\ Cardinality(Waiting(Home[v], v)) \in Nat
      /\ Cardinality(WaitingWrites(v)) \in Nat /\ Cardinality(WritesToPush(v)) \in Nat
      /\ Cardinality(Admitting(v)) \in Nat
  BY <1>t, CountsNat
<1>4. Bit(cur[l].up = v) \in {0, 1} /\ Bit(cur[l].up = v /\ Home[v] = l) \in {0, 1}
  BY BitInt
<1> HIDE DEF Copies, Waiting, WaitingWrites, Pushers, Callers, ToPush, WritesToPush, Admitting, Bit
<1>5. Held(v)' = Held(v) + (-Bit(cur[l].up = v))
  BY <1>1, <1>2, <1>3, <1>4 DEF Held
<1>6. Undone(v)' = Undone(v) + (-Bit(cur[l].up = v /\ Home[v] = l))
  BY <1>1, <1>2, <1>3, <1>4 DEF Undone
<1>7. UndoneWrites(v)' <= UndoneWrites(v) + 0
  BY <1>1, <1>2, <1>3 DEF UndoneWrites
<1> QED  BY <1>2, <1>3, <1>5, <1>6, <1>7 DEF Change

-----------------------------------------------------------------------------
(* What is pending is what is to be done *)

LEMMA PendKept ==
  ASSUME Core, NEW v \in Ups, NEW d \in Int, Undone(v)' = Undone(v) + d,
         pending'[v] = pending[v] + d, Attached(v)' => Attached(v)
  PROVE  pending'[v] >= Undone(v)' /\ (Attached(v)' => pending'[v] = Undone(v)')
<1>1. pending[v] \in Nat /\ Undone(v) \in Nat
  BY CountsNat DEF Core, TypeOK
<1>2. pending[v] >= Undone(v) /\ (Attached(v) => pending[v] = Undone(v))
  BY DEF Core, PendInv
<1> QED  BY <1>1, <1>2

LEMMA PendInvStep == Core /\ [Next]_vars => PendInv'
<1> SUFFICES ASSUME Core, [Next]_vars, NEW v \in Ups
             PROVE  pending'[v] >= Undone(v)' /\ (Attached(v)' => pending'[v] = Undone(v)')
  BY DEF PendInv
<1> DEFINE P == pending'[v] >= Undone(v)' /\ (Attached(v)' => pending'[v] = Undone(v)')
<1>t. TypeOK /\ TypeOK' /\ pending[v] \in Nat
  BY TypeStep DEF Core, TypeOK
<1>p. pending \in [Ups -> Int]
  BY <1>t DEF TypeOK
<1>u. 0 \in Int /\ \A b : Bit(b) \in {0, 1} /\ Bit(b) \in Int /\ -Bit(b) \in Int
  BY DEF Bit
<1>c. Undone(v) \in Nat
  BY <1>t, CountsNat
<1>s. ASSUME Undone(v)' = Undone(v) + 0, UNCHANGED <<pending, con>> PROVE P
  BY <1>s, <1>t, <1>u, PendKept DEF Attached
<1>1. ASSUME NEW t \in Threads, NEW u \in Ups, NEW inc \in BOOLEAN, Write(t, u, inc) PROVE P
  <2>1. UNCHANGED <<pending, con>>
    BY <1>1 DEF Write, conv
  <2>2. Undone(v)' = Undone(v) + 0
    BY <1>1, <1>t, WriteCounts DEF Change
  <2> QED  BY <2>1, <2>2, <1>s
<1>2. ASSUME NEW t \in Threads, NEW u \in Ups, NEW inc \in BOOLEAN,
             NEW k \in CallKinds \cap {"SUB", "UN", "CLOSE"}, Ask(t, k, u, inc) PROVE P
  <2>1. pending' = [pending EXCEPT ![u] = @ + 1] /\ UNCHANGED con
    BY <1>2 DEF Ask, conv
  <2>2. pending'[v] = pending[v] + Bit(v = u)
    BY <2>1, <1>p, CountUp
  <2>3. Undone(v)' = Undone(v) + Bit(v = u)
    BY <1>2, <1>t, AskCounts DEF Change
  <2> QED  BY <2>1, <2>2, <2>3, <1>u, PendKept DEF Attached
<1>3. ASSUME NEW t \in Threads, Publish(t) PROVE P
  <2>1. UNCHANGED <<pending, con>>
    BY <1>3 DEF Publish, conv, upv
  <2>2. Undone(v)' = Undone(v) + 0
    BY <1>3, <1>t, PublishCounts DEF Change
  <2> QED  BY <2>1, <2>2, <1>s
<1>4. ASSUME NEW t \in Threads, TakeEvent(t) PROVE P
  <2>1. UNCHANGED <<pending, con>>
    BY <1>4 DEF TakeEvent, conv
  <2>2. Undone(v)' = Undone(v) + 0
    BY <1>4, <1>t, TakeCounts DEF Change
  <2> QED  BY <2>1, <2>2, <1>s
<1>5. ASSUME NEW t \in Threads, EndCallback(t) PROVE P
  <2>1. UNCHANGED <<pending, con>>
    BY <1>5 DEF EndCallback, conv
  <2>2. Undone(v)' = Undone(v) + 0
    BY <1>5, <1>t, EndCounts DEF Change
  <2> QED  BY <2>1, <2>2, <1>s
<1>6. ASSUME NEW t \in Threads, Refuse(t) PROVE P
  <2>1. UNCHANGED <<pending, con>>
    BY <1>6 DEF Refuse, conv
  <2>2. Undone(v)' = Undone(v) + 0
    BY <1>6, <1>t, RefuseCounts DEF Change
  <2> QED  BY <2>1, <2>2, <1>s
<1>7. ASSUME NEW t \in Threads, Accept(t) PROVE P
  <2>1. UNCHANGED <<pending, con>>
    BY <1>7 DEF Accept, conv, upv
  <2>2. Undone(v)' = Undone(v) + 0
    BY <1>7, <1>t, AcceptCounts DEF Change
  <2> QED  BY <2>1, <2>2, <1>s
<1>8. ASSUME NEW t \in Threads, Admit(t) PROVE P
  <2>1. pending' = [pending EXCEPT ![thr[t].up] = @ + 1] /\ UNCHANGED con
    BY <1>8 DEF Admit, conv
  <2>2. pending'[v] = pending[v] + Bit(v = thr[t].up)
    <3> DEFINE u == thr[t].up
    <3>1. pending' = [pending EXCEPT ![u] = @ + 1]
      BY <2>1
    <3> HIDE DEF u
    <3>2. pending'[v] = pending[v] + Bit(v = u)
      BY <3>1, <1>p, CountUp
    <3> QED  BY <3>2 DEF u
  <2>3. Undone(v)' = Undone(v) + Bit(v = thr[t].up)
    BY <1>8, <1>t, AdmitCounts DEF Change
  <2> QED  BY <2>1, <2>2, <2>3, <1>u, PendKept DEF Attached
<1>9. ASSUME NEW t \in Threads, PushNext(t) PROVE P
  <2>1. UNCHANGED <<pending, con>>
    BY <1>9 DEF PushNext, conv
  <2>2. Undone(v)' = Undone(v) + 0
    BY <1>9, <1>t, PushCounts DEF Change
  <2> QED  BY <2>1, <2>2, <1>s
<1>10. ASSUME NEW l \in Loops, Read(l) PROVE P
  <2>1. UNCHANGED <<pending, con>>
    BY <1>10 DEF Read, conv, upv
  <2>2. Undone(v)' = Undone(v) + 0
    BY <1>10, ReadCounts DEF Change
  <2> QED  BY <2>1, <2>2, <1>s
<1>11. ASSUME NEW l \in Loops, Process(l) PROVE P
  <2>1. cur[l] # NULL /\ UNCHANGED con
    BY <1>11 DEF Process
  <2>2. pending'[v] = pending[v] - Bit(cur[l].up = v /\ Attached(v) /\ Home[v] = l)
    BY <1>11, <1>t, <2>1, DoneByIs DEF Process, Bit
  <2>3. Undone(v)' = Undone(v) + (-Bit(cur[l].up = v /\ Home[v] = l))
    BY <1>11, ProcessCounts DEF Change
  <2>4. CASE Attached(v)
    <3>1. pending'[v] = pending[v] + (-Bit(cur[l].up = v /\ Home[v] = l))
      BY <2>2, <2>4, <1>t DEF Bit
    <3> QED  BY <2>1, <2>3, <3>1, <1>u, PendKept DEF Attached
  <2>5. CASE ~Attached(v)
    <3>1. pending'[v] = pending[v] /\ ~Attached(v)'
      BY <2>1, <2>2, <2>5, <1>t DEF Bit, Attached
    <3>2. pending[v] >= Undone(v)
      BY DEF Core, PendInv
    <3>3. Undone(v)' <= Undone(v)
      BY <2>3, <1>c, <1>u
    <3>4. Undone(v)' \in Int
      BY <2>3, <1>c, <1>u
    <3> QED  BY <3>1, <3>2, <3>3, <3>4, <1>c, <1>t
  <2> QED  BY <2>4, <2>5
<1>12. ASSUME UNCHANGED <<pending, queue, cur, thr>>, Attached(v)' => Attached(v) PROVE P
  <2>1. Undone(v)' = Undone(v) + 0
    BY <1>12, StayCounts DEF Change
  <2> QED  BY <1>12, <2>1, <1>t, <1>u, PendKept
<1>13. ASSUME NEW l \in Loops, Crash(l) PROVE P
  BY <1>12, <1>13 DEF Crash, upv, conv, loopv, thrv, Attached
<1>14. ASSUME NEW u \in Ups, Leave(u) \/ WsWrite(u) \/ ConDestroy(u) PROVE P
  <2>1. UNCHANGED <<pending, queue, cur, thr>>
    BY <1>14 DEF Leave, WsWrite, ConDestroy, upv, loopv, thrv
  <2>2. Attached(v)' => Attached(v)
    <3>1. con \in [Ups -> {"open", "dead", "gone"}]
      BY <1>t DEF TypeOK
    <3>2. con'[v] # con[v] => con[v] # "gone"
      BY <1>14, <3>1 DEF Leave, WsWrite, ConDestroy
    <3> QED  BY <3>2 DEF Attached
  <2> QED  BY <2>1, <2>2, <1>12
<1>15. ASSUME UNCHANGED vars PROVE P
  BY <1>12, <1>15 DEF vars, upv, conv, loopv, thrv, Attached
<1>16. ASSUME NEW t \in Threads, BadRequest(t) PROVE P
  BY <1>12, <1>16 DEF BadRequest, upv, conv, loopv, thrv, Attached
<1> QED  BY <1>1, <1>2, <1>3, <1>4, <1>5, <1>6, <1>7, <1>8, <1>9, <1>10, <1>11, <1>13,
            <1>14, <1>15, <1>16 DEF Next

LEMMA CoreInit == Init => Core
<1> SUFFICES ASSUME Init PROVE Core
  OBVIOUS
<1> USE NullAssumption
<1>1. TypeOK
  <2>1. <<>> \in Seq(MaybeMsg) /\ <<>> \in Seq(PubSet)
    BY EmptySeq
  <2>2. Idle \in CallType
    BY LoopAssumption DEF Idle, CallType
  <2>3. 0 \in 0 .. MaxCalls
    BY LimitAssumption
  <2>4. /\ ref \in [Ups -> Int] /\ pending \in [Ups -> Nat] /\ evals \in [Ups -> Nat]
        /\ freed \subseteq Ups /\ con \in [Ups -> {"open", "dead", "gone"}]
        /\ subbed \in [Ups -> BOOLEAN]
    BY DEF Init
  <2>5. out \in [Ups -> Seq(MaybeMsg)] /\ queue \in [Loops -> Seq(PubSet)]
    BY <2>1 DEF Init
  <2>6. /\ cur \in [Loops -> PubSet \cup {NULL}] /\ saw \in [Loops -> SUBSET Ups]
        /\ thr \in [Threads -> CallType] /\ calls \in 0 .. MaxCalls /\ crashed \in BOOLEAN
    BY <2>2, <2>3 DEF Init
  <2> QED  BY <2>4, <2>5, <2>6 DEF TypeOK
<1>2. ThreadInv
  BY DEF Init, ThreadInv, InCall, Calling, Writing, Idle
<1>3. ASSUME NEW u \in Ups PROVE Undone(u) = 0 /\ pending[u] = 0
  <2>1. Home[u] \in Loops
    BY LoopAssumption DEF Loops
  <2>2. Waiting(Home[u], u) = {}
    BY <2>1 DEF Init, Waiting
  <2>3. ToPush(u) = {}
    BY DEF Init, ToPush, Pushers, Idle
  <2> QED  BY <2>2, <2>3, FS_EmptySet DEF Undone, Init
<1>4. PendInv
  BY <1>3 DEF PendInv
<1> QED  BY <1>1, <1>2, <1>4 DEF Core

LEMMA CoreStep == Core /\ [Next]_vars => Core'
BY TypeStep, ThreadInvStep, PendInvStep DEF Core

LEMMA CoreHolds == Spec => []Core
BY CoreInit, CoreStep, PTL DEF Spec

\* The variables of PushHub have their types; no count of publications or of
\* push requests gets below zero, however the loops and threads take turns.
THEOREM TypeCorrect == Spec => []TypeOK
<1>1. Core => TypeOK
  BY DEF Core
<1> QED  BY <1>1, CoreHolds, PTL

\* While a connection is there, up->pending is the number of publications its
\* loop has yet to do, for any number of loops and threads.
THEOREM PendingCounted == Spec => []PendingExact
<1>1. Core => PendingExact
  BY DEF Core, PendInv, PendingExact
<1> QED  BY <1>1, CoreHolds, PTL

-----------------------------------------------------------------------------
(* The limit of the writes *)

\* A thread between the test of the limit and the count is one write too many
\* for each of the others.
WritesInv ==
  MaxPending > 0 =>
    \A u \in Ups :
      UndoneWrites(u) + Cardinality(Admitting(u)) <= MaxPending + Cardinality(Threads) - 1

LEMMA WritesKept ==
  ASSUME Core, WritesInv, MaxPending > 0, NEW v \in Ups, NEW h, NEW d,
         NEW w \in Int, NEW a \in Int, w + a <= 0, Change(v, h, d, w, a), UndoneWrites(v)' \in Int
  PROVE  UndoneWrites(v)' + Cardinality(Admitting(v)') <= MaxPending + Cardinality(Threads) - 1
<1>1. /\ UndoneWrites(v) \in Nat /\ Cardinality(Admitting(v)) \in Nat
      /\ Cardinality(Threads) \in Nat /\ MaxPending \in Nat
  BY CountsNat, LimitAssumption DEF Core
<1>2. UndoneWrites(v) + Cardinality(Admitting(v)) <= MaxPending + Cardinality(Threads) - 1
  BY DEF WritesInv
<1>3. /\ UndoneWrites(v)' <= UndoneWrites(v) + w
      /\ Cardinality(Admitting(v)') = Cardinality(Admitting(v)) + a
  BY DEF Change
<1> QED  BY <1>1, <1>2, <1>3

CountsOK ==
  \A u \in Ups : /\ UndoneWrites(u) \in Nat /\ Holders(u) \in Nat /\ Held(u) \in Nat
                 /\ Holders(u) = Bit(Attached(u)) + evals[u] + Held(u)

LEMMA CountsTyped == TypeOK => CountsOK
BY CountsNat, HeldNat DEF CountsOK

LEMMA CountsNext == TypeOK' => CountsOK'
BY CountsTyped, PTL

LEMMA WritesInvStep == Core /\ WritesInv /\ [Next]_vars => WritesInv'
<1> SUFFICES ASSUME Core, WritesInv, MaxPending > 0, [Next]_vars, NEW v \in Ups
             PROVE  UndoneWrites(v)' + Cardinality(Admitting(v)') <= MaxPending + Cardinality(Threads) - 1
  BY DEF WritesInv
<1> DEFINE P == UndoneWrites(v)' + Cardinality(Admitting(v)') <= MaxPending + Cardinality(Threads) - 1
<1>t. TypeOK /\ TypeOK' /\ UndoneWrites(v)' \in Int
  BY TypeStep, CountsNext DEF Core, CountsOK
<1>u. 0 \in Int /\ 0 + 0 <= 0 /\ \A b : Bit(b) \in Int /\ -Bit(b) \in Int /\ Bit(b) + (-Bit(b)) <= 0
  BY DEF Bit
<1>s. ASSUME NEW h, NEW d, Change(v, h, d, 0, 0) PROVE P
  BY <1>s, <1>t, <1>u, WritesKept
<1> HIDE DEF P
<1>1. ASSUME NEW t \in Threads, NEW u \in Ups, NEW inc \in BOOLEAN, Write(t, u, inc) PROVE P
  BY <1>1, <1>t, <1>s, WriteCounts
<1>2. ASSUME NEW t \in Threads, NEW u \in Ups, NEW inc \in BOOLEAN,
             NEW k \in CallKinds \cap {"SUB", "UN", "CLOSE"}, Ask(t, k, u, inc) PROVE P
  BY <1>2, <1>t, <1>s, AskCounts
<1>3. ASSUME NEW t \in Threads, Publish(t) PROVE P
  BY <1>3, <1>t, <1>s, PublishCounts
<1>4. ASSUME NEW t \in Threads, TakeEvent(t) PROVE P
  BY <1>4, <1>t, <1>s, TakeCounts
<1>5. ASSUME NEW t \in Threads, EndCallback(t) PROVE P
  BY <1>5, <1>t, <1>s, EndCounts
<1>6. ASSUME NEW t \in Threads, Refuse(t) PROVE P
  BY <1>6, <1>t, <1>s, RefuseCounts
<1>7. ASSUME NEW t \in Threads, Accept(t) PROVE P
  <2>1. thr[t].up \in Ups /\ Change(v, 0, 0, 0, Bit(v = thr[t].up))
    BY <1>7, <1>t, AcceptCounts
  <2>2. CASE v # thr[t].up
    BY <2>1, <2>2, <1>s DEF Bit
  <2>3. CASE v = thr[t].up
    <3>1. pending[v] < MaxPending /\ pending[v] \in Nat /\ MaxPending \in Nat
      BY <1>7, <1>t, <2>3, LimitAssumption DEF Accept, OverLimit, TypeOK
    <3>2. /\ UndoneWrites(v) \in Nat /\ Undone(v) \in Nat /\ UndoneWrites(v) <= Undone(v)
          /\ Undone(v) <= pending[v] /\ Cardinality(Threads) \in Nat
      BY <1>t, CountsNat DEF Core, PendInv
    <3>3. UndoneWrites(v)' <= UndoneWrites(v) + 0
      BY <2>1 DEF Change
    <3>4. IsFiniteSet(Admitting(v)') /\ Cardinality(Admitting(v)') <= Cardinality(Threads)
      <4>1. Admitting(v)' \subseteq Threads
        BY DEF Admitting
      <4> QED  BY <4>1, ThreadAssumption, FS_Subset
    <3>5. Cardinality(Admitting(v)') \in Nat
      BY <3>4, FS_CardinalityType
    <3> QED  BY <3>1, <3>2, <3>3, <3>4, <3>5, <1>t DEF P
  <2> QED  BY <2>2, <2>3
<1>8. ASSUME NEW t \in Threads, Admit(t) PROVE P
  <2>1. Change(v, Bit(v = thr[t].up /\ thr[t].inc), Bit(v = thr[t].up),
                  Bit(v = thr[t].up), -Bit(v = thr[t].up))
    BY <1>8, <1>t, AdmitCounts
  <2> QED  BY <2>1, <1>t, <1>u, WritesKept DEF P
<1>9. ASSUME NEW t \in Threads, PushNext(t) PROVE P
  BY <1>9, <1>t, <1>s, PushCounts
<1>10. ASSUME NEW l \in Loops, Read(l) PROVE P
  BY <1>10, <1>s, ReadCounts
<1>11. ASSUME NEW l \in Loops, Process(l) PROVE P
  BY <1>11, <1>s, ProcessCounts
<1>12. ASSUME UNCHANGED <<queue, cur, thr>> PROVE P
  BY <1>12, <1>s, StayCounts
<1> QED  BY <1>1, <1>2, <1>3, <1>4, <1>5, <1>6, <1>7, <1>8, <1>9, <1>10, <1>11, <1>12
         DEF Next, Crash, BadRequest, Leave, WsWrite, ConDestroy, vars, loopv, thrv, P

\* Writers that race past the limit are over it by at most one write for each
\* of the others, for any limit and any number of threads.
THEOREM WritesLimited == Spec => []WritesBounded
<1>1. Init /\ Core => WritesInv
  <2> SUFFICES ASSUME Init, Core, MaxPending > 0, NEW u \in Ups
               PROVE  UndoneWrites(u) + Cardinality(Admitting(u)) <= MaxPending + Cardinality(Threads) - 1
    BY DEF WritesInv
  <2>1. UndoneWrites(u) \in Nat /\ UndoneWrites(u) <= Undone(u) /\ Undone(u) \in Nat
    BY CountsNat DEF Core
  <2>2. Undone(u) <= 0
    BY DEF Core, PendInv, Init
  <2>3. Admitting(u) = {}
    BY DEF Init, Admitting, Idle
  <2>4. Cardinality(Admitting(u)) = 0 /\ Cardinality(Threads) \in Nat
    BY <2>3, FS_EmptySet, ThreadAssumption, FS_CardinalityType
  <2> QED  BY <2>1, <2>2, <2>4, LimitAssumption
<1>2. Core /\ WritesInv => WritesBounded
  <2> SUFFICES ASSUME Core, WritesInv, MaxPending > 0, NEW u \in Ups
               PROVE  UndoneWrites(u) <= MaxPending + Cardinality(Threads) - 1
    BY DEF WritesBounded
  <2>1. /\ UndoneWrites(u) \in Nat /\ Cardinality(Admitting(u)) \in Nat
        /\ Cardinality(Threads) \in Nat
    BY CountsNat DEF Core
  <2> QED  BY <2>1, LimitAssumption DEF WritesInv
<1> QED  BY <1>1, <1>2, WritesInvStep, CoreInit, CoreHolds, PTL DEF Spec

-----------------------------------------------------------------------------
(* The references *)

\* No call of a callback is refused: the program writes in none, or there is no
\* limit.  The finding of upgraded.c:121 is about the others.
Trusted == ~CallbackWrites \/ MaxPending = 0

RefAt(v) ==
  IF v \in freed THEN Holders(v) = 0
                 ELSE ref[v] = Holders(v) /\ (Holders(v) = 0 => OverLimit(v))

RefInv == \A v \in Ups : RefAt(v)

LEMMA RefInvMeans == RefInv => RefExact /\ LastReleaseFrees
BY DEF RefInv, RefAt, RefExact, LastReleaseFrees

\* Who holds an Upgraded keeps it from being freed.
LEMMA HeldAlive ==
  ASSUME TypeOK, RefInv, NEW u \in Ups,
         Attached(u) \/ evals[u] > 0 \/ Copies(u) # {} \/ Pushers(u) # {} \/ Callers(u) # {}
  PROVE  u \notin freed /\ Holders(u) > 0 /\ ref[u] = Holders(u)
<1>1. /\ Cardinality(Copies(u)) \in Nat /\ Cardinality(Pushers(u)) \in Nat
      /\ Cardinality(Callers(u)) \in Nat /\ evals[u] \in Nat
  BY CountsNat DEF TypeOK
<1>2. IsFiniteSet(Copies(u)) /\ IsFiniteSet(Pushers(u)) /\ IsFiniteSet(Callers(u))
  BY CopiesFinite, ThreadsFinite
<1>3. /\ Copies(u) # {} => Cardinality(Copies(u)) # 0
      /\ Pushers(u) # {} => Cardinality(Pushers(u)) # 0
      /\ Callers(u) # {} => Cardinality(Callers(u)) # 0
  BY <1>2, FS_EmptySet
<1> HIDE DEF Copies, Pushers, Callers, Attached
<1>4. Holders(u) > 0
  BY <1>1, <1>3 DEF Holders
<1>5. Holders(u) # 0
  BY <1>4, CountsNat
<1> QED  BY <1>4, <1>5 DEF RefInv, RefAt

\* How the number of holders moves.
LEMMA HoldersMove ==
  ASSUME Core, TypeOK', NEW v \in Ups, NEW h \in Int, NEW e \in Int, NEW d, NEW w, NEW a,
         Change(v, h, d, w, a), evals'[v] = evals[v] + e
  PROVE  /\ Holders(v)' = Holders(v) + h + e + Bit(Attached(v)') - Bit(Attached(v))
         /\ Holders(v)' \in Nat /\ Holders(v) \in Nat
<1>1. /\ Held(v) \in Nat /\ evals[v] \in Nat /\ Holders(v) \in Nat
      /\ Holders(v) = Bit(Attached(v)) + evals[v] + Held(v)
  BY HeldNat, CountsNat DEF Core
<1>2. Holders(v)' \in Nat /\ Holders(v)' = Bit(Attached(v)') + evals'[v] + Held(v)'
  BY CountsNext DEF CountsOK, Bit
<1>3. Held(v)' = Held(v) + h
  BY DEF Change
<1>4. Bit(Attached(v)') \in {0, 1} /\ Bit(Attached(v)) \in {0, 1}
  BY BitInt
<1> HIDE DEF Bit, Attached, Held, Holders
<1> QED  BY <1>1, <1>2, <1>3, <1>4

LEMMA RefSame ==
  ASSUME RefInv, NEW v \in Ups, Holders(v)' = Holders(v), ref'[v] = ref[v],
         pending'[v] = pending[v], v \in freed' <=> v \in freed
  PROVE  RefAt(v)'
BY DEF RefInv, RefAt, OverLimit

LEMMA RefTaken ==
  ASSUME NEW v \in Ups, v \notin freed', NEW d \in Int, Holders(v) \in Nat, Holders(v) > 0,
         ref[v] = Holders(v), ref'[v] = ref[v] + d, Holders(v)' = Holders(v) + d, d >= 0
  PROVE  RefAt(v)'
<1>1. Holders(v)' # 0 /\ ref'[v] = Holders(v)'
  OBVIOUS
<1> QED  BY <1>1 DEF RefAt

LEMMA RefReleased ==
  ASSUME NEW v \in Ups, TypeOK, v \notin freed, NEW e \in Nat, Release(v, ref[v] + e),
         ref[v] = Holders(v), Holders(v) \in Nat, Holders(v)' \in Nat,
         Holders(v)' = Holders(v) + e - 1
  PROVE  RefAt(v)'
<1>1. ref'[v] = Holders(v)'
  BY DEF TypeOK, Release
<1>2. v \in freed' <=> Holders(v) + e <= 1
  BY DEF Release
<1>3. v \in freed' <=> Holders(v)' = 0
  BY <1>2
<1> QED  BY <1>1, <1>3 DEF RefAt

LEMMA ReleaseOthers ==
  ASSUME TypeOK, NEW u, NEW r, Release(u, r), NEW v \in Ups, v # u
  PROVE  ref'[v] = ref[v] /\ (v \in freed' <=> v \in freed)
BY DEF TypeOK, Release

LEMMA RefInvStep ==
  ASSUME Trusted
  PROVE  Core /\ RefInv /\ [Next]_vars => RefInv'
<1> SUFFICES ASSUME Core, RefInv, [Next]_vars, NEW v \in Ups PROVE RefAt(v)'
  BY DEF RefInv
<1> USE NullAssumption
<1>t. TypeOK /\ TypeOK' /\ ThreadInv
  BY TypeStep DEF Core
<1>u. 0 \in Int /\ \A b : Bit(b) \in {0, 1} /\ Bit(b) \in Int /\ Bit(b) >= 0 /\ -Bit(b) \in Int
  BY DEF Bit
<1>v. ref[v] \in Int /\ evals[v] \in Nat /\ pending[v] \in Nat
  BY <1>t DEF TypeOK
<1>s. ASSUME NEW d, NEW w, NEW a, Change(v, 0, d, w, a),
             UNCHANGED <<con, evals>>, ref'[v] = ref[v], v \in freed' <=> v \in freed,
             pending'[v] = pending[v]
      PROVE  RefAt(v)'
  <2>1. evals'[v] = evals[v] + 0 /\ (Attached(v)' <=> Attached(v))
    BY <1>s, <1>v DEF Attached
  <2>2. /\ Holders(v)' = Holders(v) + 0 + 0 + Bit(Attached(v)') - Bit(Attached(v))
        /\ Holders(v) \in Nat
    BY <1>s, <1>t, <1>u, <2>1, HoldersMove
  <2>3. Holders(v)' = Holders(v)
    BY <2>1, <2>2 DEF Bit
  <2> QED  BY <1>s, <2>3, RefSame
<1>h. ASSUME NEW h \in Int, NEW d, NEW w, NEW a, Change(v, h, d, w, a), UNCHANGED <<con, evals>>
      PROVE  Holders(v)' = Holders(v) + h /\ Holders(v) \in Nat /\ Holders(v)' \in Nat
  <2>1. evals'[v] = evals[v] + 0 /\ (Attached(v)' <=> Attached(v))
    BY <1>h, <1>v DEF Attached
  <2>2. /\ Holders(v)' = Holders(v) + h + 0 + Bit(Attached(v)') - Bit(Attached(v))
        /\ Holders(v) \in Nat /\ Holders(v)' \in Nat
    BY <1>h, <1>t, <1>u, <2>1, HoldersMove
  <2> QED  BY <2>1, <2>2 DEF Bit
<1>1. ASSUME NEW t \in Threads, NEW u \in Ups, NEW inc \in BOOLEAN, Write(t, u, inc) PROVE RefAt(v)'
  <2>1. Change(v, Bit(v = u /\ ~inc), 0, 0, 0)
    BY <1>1, <1>t, WriteCounts
  <2>2. /\ UNCHANGED <<con, evals, freed, pending>>
        /\ ref' = [ref EXCEPT ![u] = IF inc THEN @ ELSE @ + 1]
        /\ ~inc => u \notin freed
    BY <1>1 DEF Write, MayCall, conv
  <2>3. CASE ~(v = u /\ ~inc)
    <3>1. ref'[v] = ref[v] /\ Bit(v = u /\ ~inc) = 0
      BY <2>2, <2>3, <1>t DEF TypeOK, Bit
    <3> QED  BY <2>1, <2>2, <3>1, <1>s
  <2>4. CASE v = u /\ ~inc
    <3>1. ref'[v] = ref[v] + 1 /\ Bit(v = u /\ ~inc) = 1 /\ v \notin freed
      BY <2>2, <2>4, <1>t DEF TypeOK, Bit
    <3>2. Holders(v)' = Holders(v) + 1 /\ Holders(v) \in Nat
      BY <2>1, <2>2, <3>1, <1>h
    <3>3. ref'[v] = Holders(v)' /\ Holders(v)' # 0
      BY <3>1, <3>2 DEF RefInv, RefAt
    <3> QED  BY <2>2, <3>1, <3>3 DEF RefAt
  <2> QED  BY <2>3, <2>4
<1>2. ASSUME NEW t \in Threads, NEW u \in Ups, NEW inc \in BOOLEAN,
             NEW k \in CallKinds \cap {"SUB", "UN", "CLOSE"}, Ask(t, k, u, inc) PROVE RefAt(v)'
  <2>1. Change(v, Bit(v = u), Bit(v = u), 0, 0)
    BY <1>2, <1>t, AskCounts
  <2>2. /\ UNCHANGED <<con, evals, freed>>
        /\ ref' = [ref EXCEPT ![u] = @ + 1] /\ pending' = [pending EXCEPT ![u] = @ + 1]
        /\ \/ u \notin freed
           \/ thr[t].at = "callback" /\ u = thr[t].up
    BY <1>2 DEF Ask, MayCall, At, conv
  <2>3. u \notin freed
    <3>1. CASE thr[t].at = "callback" /\ u = thr[t].up
      <4>1. Callers(u) # {}
        BY <3>1, ThreadBits
      <4> QED  BY <4>1, <1>t, HeldAlive
    <3> QED  BY <2>2, <3>1
  <2>4. CASE v # u
    <3>1. ref'[v] = ref[v] /\ pending'[v] = pending[v] /\ Bit(v = u) = 0
      BY <2>2, <2>4, <1>t DEF TypeOK, Bit
    <3> QED  BY <2>1, <2>2, <3>1, <1>s
  <2>5. CASE v = u
    <3>1. ref'[v] = ref[v] + 1 /\ Bit(v = u) = 1 /\ v \notin freed
      BY <2>2, <2>3, <2>5, <1>t DEF TypeOK, Bit
    <3>2. Holders(v)' = Holders(v) + 1 /\ Holders(v) \in Nat
      BY <2>1, <2>2, <3>1, <1>h
    <3>3. ref'[v] = Holders(v)' /\ Holders(v)' # 0
      BY <3>1, <3>2 DEF RefInv, RefAt
    <3> QED  BY <2>2, <3>1, <3>3 DEF RefAt
  <2> QED  BY <2>4, <2>5
<1>3. ASSUME NEW t \in Threads, Publish(t) PROVE RefAt(v)'
  <2>1. Change(v, 0, 0, 0, 0)
    BY <1>3, <1>t, PublishCounts
  <2>2. UNCHANGED <<con, evals, ref, freed, pending>>
    BY <1>3 DEF Publish, conv, upv
  <2> QED  BY <2>1, <2>2, <1>s
<1>4. ASSUME NEW t \in Threads, TakeEvent(t) PROVE RefAt(v)'
  <2>1. PICK u \in Ups : /\ evals[u] > 0 /\ evals' = [evals EXCEPT ![u] = @ - 1]
                         /\ Change(v, Bit(v = u), 0, 0, 0)
    BY <1>4, <1>t, TakeCounts
  <2>2. UNCHANGED <<con, ref, freed, pending>>
    BY <1>4 DEF TakeEvent, conv
  <2>3. evals'[v] = evals[v] + (-Bit(v = u))
    <3>1. evals \in [Ups -> Int]
      BY <1>t DEF TypeOK
    <3> QED  BY <2>1, <3>1, CountDown
  <2>4. /\ Holders(v)' = Holders(v) + Bit(v = u) + (-Bit(v = u)) + Bit(Attached(v)') - Bit(Attached(v))
        /\ Holders(v) \in Nat
    BY <2>1, <2>3, <1>t, <1>u, HoldersMove
  <2>5. Attached(v)' <=> Attached(v)
    BY <2>2 DEF Attached
  <2>6. Holders(v)' = Holders(v)
    BY <2>4, <2>5 DEF Bit
  <2> QED  BY <2>2, <2>6, RefSame
<1>5. ASSUME NEW t \in Threads, EndCallback(t) PROVE RefAt(v)'
  <2>1. thr[t].up \in Ups /\ Change(v, -Bit(v = thr[t].up), 0, 0, 0)
    BY <1>5, <1>t, EndCounts
  <2>2. /\ UNCHANGED <<con, evals, pending>> /\ Release(thr[t].up, ref[thr[t].up])
        /\ thr[t].at = "callback"
    BY <1>5 DEF EndCallback, At, conv
  <2>3. CASE v # thr[t].up
    <3>1. ref'[v] = ref[v] /\ (v \in freed' <=> v \in freed)
      BY <2>2, <2>3, <1>t, ReleaseOthers
    <3>2. Change(v, 0, 0, 0, 0)
      BY <2>1, <2>3 DEF Bit
    <3> QED  BY <2>2, <3>1, <3>2, <1>s
  <2>4. CASE v = thr[t].up
    <3>1. v \notin freed /\ ref[v] = Holders(v)
      <4>1. Callers(v) # {}
        BY <2>2, <2>4, ThreadBits
      <4> QED  BY <4>1, <1>t, HeldAlive
    <3>2. /\ Holders(v)' = Holders(v) + (-Bit(v = thr[t].up))
          /\ Holders(v) \in Nat /\ Holders(v)' \in Nat
      BY <2>1, <2>2, <1>u, <1>h
    <3>3. Holders(v)' = Holders(v) + 0 - 1
      BY <2>4, <3>2 DEF Bit
    <3>4. Release(v, ref[v] + 0)
      BY <2>2, <2>4, <1>v
    <3> QED  BY <3>1, <3>2, <3>3, <3>4, <1>t, RefReleased
  <2> QED  BY <2>3, <2>4
<1>6. ASSUME NEW t \in Threads, Refuse(t) PROVE RefAt(v)'
  <2>1. thr[t].up \in Ups /\ Change(v, -Bit(v = thr[t].up /\ ~thr[t].inc), 0, 0, 0)
    BY <1>6, <1>t, RefuseCounts
  <2>2. /\ UNCHANGED <<con, evals, pending, freed>> /\ thr[t].at = "limit"
        /\ ref' = [ref EXCEPT ![thr[t].up] = @ - 1] /\ OverLimit(thr[t].up)
    BY <1>6 DEF Refuse, At, conv
  <2>3. ~thr[t].inc
    <3>1. 0 < MaxPending
      BY <2>2 DEF OverLimit
    <3>2. ~CallbackWrites
      BY <3>1 DEF Trusted
    <3> QED  BY <2>2, <3>2, <1>t DEF ThreadInv, InCall, Writing
  <2>4. CASE v # thr[t].up
    <3>1. ref'[v] = ref[v]
      BY <2>2, <2>4, <1>t DEF TypeOK
    <3>2. Change(v, 0, 0, 0, 0)
      BY <2>1, <2>4 DEF Bit
    <3> QED  BY <2>2, <3>1, <3>2, <1>s
  <2>5. CASE v = thr[t].up
    <3>1. v \notin freed /\ ref[v] = Holders(v)
      <4>1. Callers(v) # {}
        BY <2>2, <2>5, ThreadBits
      <4> QED  BY <4>1, <1>t, HeldAlive
    <3>2. Holders(v)' = Holders(v) + (-Bit(v = thr[t].up /\ ~thr[t].inc))
      BY <2>1, <2>2, <1>u, <1>h
    <3>3. ref'[v] = ref[v] - 1 /\ Holders(v)' = Holders(v) - 1
      BY <2>2, <2>3, <2>5, <3>2, <1>t, CountsNat DEF TypeOK, Bit
    <3>4. OverLimit(v)'
      BY <2>2, <2>5 DEF OverLimit
    <3> QED  BY <2>2, <3>1, <3>3, <3>4 DEF RefAt
  <2> QED  BY <2>4, <2>5
<1>7. ASSUME NEW t \in Threads, Accept(t) PROVE RefAt(v)'
  <2>1. Change(v, 0, 0, 0, Bit(v = thr[t].up))
    BY <1>7, <1>t, AcceptCounts
  <2>2. UNCHANGED <<con, evals, ref, freed, pending>>
    BY <1>7 DEF Accept, conv, upv
  <2> QED  BY <2>1, <2>2, <1>s
<1>8. ASSUME NEW t \in Threads, Admit(t) PROVE RefAt(v)'
  <2>1. Change(v, Bit(v = thr[t].up /\ thr[t].inc), Bit(v = thr[t].up),
                  Bit(v = thr[t].up), -Bit(v = thr[t].up))
    BY <1>8, <1>t, AdmitCounts
  <2>2. /\ UNCHANGED <<con, evals, freed>> /\ thr[t].at = "admit"
        /\ ref' = [ref EXCEPT ![thr[t].up] = IF thr[t].inc THEN @ + 1 ELSE @]
        /\ pending' = [pending EXCEPT ![thr[t].up] = @ + 1]
    BY <1>8 DEF Admit, At, conv
  <2>3. CASE v # thr[t].up
    <3>1. ref'[v] = ref[v] /\ pending'[v] = pending[v] /\ Bit(v = thr[t].up /\ thr[t].inc) = 0
      BY <2>2, <2>3, <1>t DEF TypeOK, Bit
    <3> QED  BY <2>1, <2>2, <3>1, <1>s
  <2>4. CASE v = thr[t].up
    <3>1. v \notin freed /\ ref[v] = Holders(v) /\ Holders(v) > 0
      <4>1. Callers(v) # {}
        BY <2>2, <2>4, ThreadBits
      <4> QED  BY <4>1, <1>t, HeldAlive
    <3>2. /\ Holders(v)' = Holders(v) + Bit(v = thr[t].up /\ thr[t].inc)
          /\ Holders(v) \in Nat
      BY <2>1, <2>2, <1>u, <1>h
    <3>3. ref'[v] = ref[v] + Bit(v = thr[t].up /\ thr[t].inc)
      BY <2>2, <2>4, <1>t, <1>v DEF TypeOK, Bit
    <3>4. /\ Bit(v = thr[t].up /\ thr[t].inc) \in Int
          /\ Bit(v = thr[t].up /\ thr[t].inc) >= 0
      BY <1>u
    <3> QED  BY <2>2, <3>1, <3>2, <3>3, <3>4, RefTaken
  <2> QED  BY <2>3, <2>4
<1>9. ASSUME NEW t \in Threads, PushNext(t) PROVE RefAt(v)'
  <2>1. Change(v, Bit(v = thr[t].up /\ thr[t].next # LoopCnt), 0, 0, 0)
    BY <1>9, <1>t, PushCounts
  <2>2. UNCHANGED <<con, evals, freed, pending>> /\ thr[t].at = "push"
    BY <1>9 DEF PushNext, At, conv
  <2>3. ref'[v] = ref[v] + Bit(v = thr[t].up /\ thr[t].next # LoopCnt)
    <3>1. CASE thr[t].next = LoopCnt \/ thr[t].up = NULL
      <4>1. ref' = ref /\ v # NULL
        BY <1>9, <3>1 DEF PushNext
      <4> QED  BY <3>1, <4>1, <1>v DEF Bit
    <3>2. CASE thr[t].next # LoopCnt /\ thr[t].up # NULL
      <4>1. ref' = [ref EXCEPT ![thr[t].up] = ref[thr[t].up] + 1] /\ ref \in [Ups -> Int]
        BY <1>9, <3>2, <1>t DEF PushNext, CopyRef, TypeOK
      <4>2. CASE v = thr[t].up
        BY <3>2, <4>1, <4>2 DEF Bit
      <4>3. CASE v # thr[t].up
        BY <4>1, <4>3, <1>v DEF Bit
      <4> QED  BY <4>2, <4>3
    <3> QED  BY <3>1, <3>2
  <2>4. CASE v # thr[t].up
    <3>1. Bit(v = thr[t].up /\ thr[t].next # LoopCnt) = 0 /\ ref'[v] = ref[v]
      BY <2>3, <2>4, <1>v DEF Bit
    <3> QED  BY <2>1, <2>2, <3>1, <1>s
  <2>5. CASE v = thr[t].up
    <3>1. v \notin freed /\ ref[v] = Holders(v) /\ Holders(v) > 0
      <4>1. Pushers(v) # {}
        BY <2>2, <2>5, ThreadBits
      <4> QED  BY <4>1, <1>t, HeldAlive
    <3>2. /\ Holders(v)' = Holders(v) + Bit(v = thr[t].up /\ thr[t].next # LoopCnt)
          /\ Holders(v) \in Nat
      BY <2>1, <2>2, <1>u, <1>h
    <3>3. /\ Bit(v = thr[t].up /\ thr[t].next # LoopCnt) \in Int
          /\ Bit(v = thr[t].up /\ thr[t].next # LoopCnt) >= 0
      BY <1>u
    <3> QED  BY <2>2, <2>3, <3>1, <3>2, <3>3, RefTaken
  <2> QED  BY <2>4, <2>5
<1>10. ASSUME NEW l \in Loops, Read(l) PROVE RefAt(v)'
  <2>1. Change(v, 0, 0, 0, 0)
    BY <1>10, ReadCounts
  <2>2. UNCHANGED <<con, evals, ref, freed, pending>>
    BY <1>10 DEF Read, conv, upv
  <2> QED  BY <2>1, <2>2, <1>s
<1>11. ASSUME NEW l \in Loops, Process(l) PROVE RefAt(v)'
  <2> DEFINE p == cur[l]
             n == Cardinality(Emptied(l, p))
  <2>1. Change(v, -Bit(cur[l].up = v), -Bit(cur[l].up = v /\ Home[v] = l), 0, 0)
    BY <1>11, ProcessCounts
  <2>2. p # NULL /\ UNCHANGED con /\ Destroyed(p, n)
    BY <1>11 DEF Process
  <2>3. CASE p.up # v
    <3>1. v \notin DoneBy(l, p) /\ v \notin Emptied(l, p)
      BY <2>3 DEF DoneBy, Emptied
    <3>2. pending'[v] = pending[v] /\ evals'[v] = evals[v]
      BY <1>11, <3>1 DEF Process
    <3>3. ref'[v] = ref[v] /\ (v \in freed' <=> v \in freed)
      <4>1. CASE p.up = NULL
        BY <2>2, <4>1 DEF Destroyed
      <4>2. CASE p.up # NULL
        BY <2>2, <2>3, <4>2, <1>t, ReleaseOthers DEF Destroyed
      <4> QED  BY <4>1, <4>2
    <3>4. Change(v, 0, -Bit(cur[l].up = v /\ Home[v] = l), 0, 0)
      BY <2>1, <2>3 DEF Bit
    <3>5. evals'[v] = evals[v] + 0 /\ (Attached(v)' <=> Attached(v))
      BY <2>2, <3>2, <1>v DEF Attached
    <3>6. /\ Holders(v)' = Holders(v) + 0 + 0 + Bit(Attached(v)') - Bit(Attached(v))
          /\ Holders(v) \in Nat
      BY <3>4, <3>5, <1>t, <1>u, HoldersMove
    <3>7. Holders(v)' = Holders(v)
      BY <3>5, <3>6 DEF Bit
    <3> QED  BY <3>2, <3>3, <3>7, RefSame
  <2>4. CASE p.up = v
    <3>1. v \notin freed /\ ref[v] = Holders(v)
      <4>1. queue[l] \in Seq(PubSet) /\ 0 \in Waiting(l, v)
        BY <2>2, <2>4, <1>t DEF Waiting, TypeOK
      <4>2. Copies(v) # {}
        BY <4>1, CopiesAre
      <4> QED  BY <4>2, <1>t, HeldAlive
    <3>2. /\ Emptied(l, p) \subseteq {v}
          /\ \A x \in Ups : evals'[x] = IF x \in Emptied(l, p) THEN evals[x] + 1 ELSE evals[x]
      BY <1>11, <2>4 DEF Emptied, DoneBy, Process
    <3>3. evals'[v] = evals[v] + n /\ n \in Nat
      <4>1. CASE v \in Emptied(l, p)
        <5>1. Emptied(l, p) = {v}
          BY <3>2, <4>1
        <5>2. n = 1
          BY <5>1, FS_Singleton
        <5> QED  BY <3>2, <4>1, <5>2
      <4>2. CASE v \notin Emptied(l, p)
        <5>1. Emptied(l, p) = {}
          BY <3>2, <4>2
        <5>2. n = 0
          BY <5>1, FS_EmptySet
        <5> QED  BY <3>2, <4>2, <5>2, <1>v
      <4> QED  BY <4>1, <4>2
    <3> HIDE DEF n
    <3>4. Attached(v)' <=> Attached(v)
      BY <2>2 DEF Attached
    <3>5. /\ Holders(v)' = Holders(v) + (-Bit(cur[l].up = v)) + n + Bit(Attached(v)') - Bit(Attached(v))
          /\ Holders(v) \in Nat /\ Holders(v)' \in Nat
      BY <2>1, <3>3, <1>t, <1>u, HoldersMove
    <3>6. Holders(v)' = Holders(v) + n - 1
      BY <2>4, <3>3, <3>4, <3>5 DEF Bit
    <3>7. Release(v, ref[v] + n)
      BY <2>2, <2>4 DEF Destroyed
    <3> QED  BY <3>1, <3>3, <3>5, <3>6, <3>7, <1>t, RefReleased
  <2> QED  BY <2>3, <2>4
<1>12. ASSUME UNCHANGED <<queue, cur, thr>>, UNCHANGED <<con, evals, ref, freed, pending>>
       PROVE  RefAt(v)'
  BY <1>12, <1>s, StayCounts
<1>13. ASSUME NEW u \in Ups, Leave(u) PROVE RefAt(v)'
  <2>1. Change(v, 0, 0, 0, 0) /\ UNCHANGED <<ref, freed, pending, evals>>
    BY <1>13, StayCounts DEF Leave, upv, loopv, thrv
  <2>2. Attached(v)' <=> Attached(v)
    BY <1>13, <1>t DEF Leave, Attached, TypeOK
  <2>3. /\ Holders(v)' = Holders(v) + 0 + 0 + Bit(Attached(v)') - Bit(Attached(v))
        /\ Holders(v) \in Nat
    BY <2>1, <1>t, <1>u, <1>v, HoldersMove
  <2>4. Holders(v)' = Holders(v)
    BY <2>2, <2>3 DEF Bit
  <2> QED  BY <2>1, <2>4, RefSame
<1>c. \A x : Closing(x) \in {0, 1}
  BY DEF Closing
<1>14. ASSUME NEW u \in Ups, WsWrite(u) PROVE RefAt(v)'
  <2>1. Change(v, 0, 0, 0, 0) /\ UNCHANGED <<freed, pending>>
    BY <1>14, StayCounts DEF WsWrite, loopv, thrv
  <2>2. CASE UNCHANGED <<ref, evals, con>>
    BY <2>1, <2>2, <1>s
  <2>3. CASE /\ con' = [con EXCEPT ![u] = "dead"]
             /\ evals' = [evals EXCEPT ![u] = @ + Closing(u)]
             /\ ref' = [ref EXCEPT ![u] = @ + Closing(u)]
    <3>1. Attached(v)' <=> Attached(v)
      BY <1>14, <2>3, <1>t DEF WsWrite, Attached, TypeOK
    <3>2. CASE v # u
      <4>1. ref'[v] = ref[v] /\ evals'[v] = evals[v] + 0
        BY <2>3, <3>2, <1>t, <1>v DEF TypeOK
      <4>2. /\ Holders(v)' = Holders(v) + 0 + 0 + Bit(Attached(v)') - Bit(Attached(v))
            /\ Holders(v) \in Nat
        BY <2>1, <4>1, <1>t, <1>u, HoldersMove
      <4>3. Holders(v)' = Holders(v)
        BY <3>1, <4>2 DEF Bit
      <4> QED  BY <2>1, <4>1, <4>3, RefSame
    <3>3. CASE v = u
      <4>1. ref'[v] = ref[v] + Closing(v) /\ evals'[v] = evals[v] + Closing(v)
        BY <2>3, <3>3, <1>t DEF TypeOK
      <4>2. Closing(v) \in Int /\ Closing(v) >= 0
        BY <1>c
      <4>3. /\ Holders(v)' = Holders(v) + 0 + Closing(v) + Bit(Attached(v)') - Bit(Attached(v))
            /\ Holders(v) \in Nat
        BY <2>1, <4>1, <4>2, <1>t, <1>u, HoldersMove
      <4>4. Holders(v)' = Holders(v) + Closing(v)
        BY <3>1, <4>2, <4>3 DEF Bit
      <4>5. v \notin freed /\ Holders(v) > 0 /\ ref[v] = Holders(v)
        <5>1. Attached(v)
          BY <1>14, <3>3 DEF WsWrite, Attached
        <5> QED  BY <5>1, <1>t, HeldAlive
      <4> QED  BY <2>1, <4>1, <4>2, <4>3, <4>4, <4>5, RefTaken
    <3> QED  BY <3>2, <3>3
  <2> QED  BY <1>14, <2>2, <2>3 DEF WsWrite
<1>15. ASSUME NEW u \in Ups, ConDestroy(u) PROVE RefAt(v)'
  <2>1. Change(v, 0, 0, 0, 0) /\ UNCHANGED pending
    BY <1>15, StayCounts DEF ConDestroy, loopv, thrv
  <2>2. /\ con[u] = "dead" /\ con' = [con EXCEPT ![u] = "gone"]
        /\ evals' = [evals EXCEPT ![u] = @ + Closing(u)]
        /\ Release(u, ref[u] + Closing(u))
    BY <1>15 DEF ConDestroy
  <2>3. CASE v # u
    <3>a. evals'[v] = evals[v] + 0 /\ (Attached(v)' <=> Attached(v))
      BY <2>2, <2>3, <1>t, <1>v DEF Attached, TypeOK
    <3>b. ref'[v] = ref[v] /\ (v \in freed' <=> v \in freed)
      BY <2>2, <2>3, <1>t, ReleaseOthers
    <3>1. /\ evals'[v] = evals[v] + 0 /\ (Attached(v)' <=> Attached(v))
          /\ ref'[v] = ref[v] /\ (v \in freed' <=> v \in freed)
      BY <3>a, <3>b
    <3>2. /\ Holders(v)' = Holders(v) + 0 + 0 + Bit(Attached(v)') - Bit(Attached(v))
          /\ Holders(v) \in Nat
      BY <2>1, <3>1, <1>t, <1>u, HoldersMove
    <3>3. Holders(v)' = Holders(v)
      BY <3>1, <3>2 DEF Bit
    <3> QED  BY <2>1, <3>1, <3>3, RefSame
  <2>4. CASE v = u
    <3>1. /\ evals'[v] = evals[v] + Closing(v) /\ Attached(v) /\ ~Attached(v)'
          /\ Release(v, ref[v] + Closing(v))
      BY <2>2, <2>4, <1>t DEF Attached, TypeOK
    <3>2. Closing(v) \in Nat /\ Closing(v) \in Int
      BY <1>c
    <3>3. /\ Holders(v)' = Holders(v) + 0 + Closing(v) + Bit(Attached(v)') - Bit(Attached(v))
          /\ Holders(v) \in Nat /\ Holders(v)' \in Nat
      BY <2>1, <3>1, <3>2, <1>t, <1>u, HoldersMove
    <3>4. Holders(v)' = Holders(v) + Closing(v) - 1
      BY <3>1, <3>2, <3>3 DEF Bit
    <3>5. v \notin freed /\ ref[v] = Holders(v)
      BY <3>1, <1>t, HeldAlive
    <3> QED  BY <3>1, <3>2, <3>3, <3>4, <3>5, <1>t, RefReleased
  <2> QED  BY <2>3, <2>4
<1>16. ASSUME NEW l \in Loops, Crash(l) PROVE RefAt(v)'
  BY <1>12, <1>16 DEF Crash, upv, conv, loopv, thrv
<1>17. ASSUME UNCHANGED vars PROVE RefAt(v)'
  BY <1>12, <1>17 DEF vars, upv, conv, loopv, thrv
<1>18. ASSUME NEW t \in Threads, BadRequest(t) PROVE RefAt(v)'
  BY <1>12, <1>18 DEF BadRequest, upv, conv, loopv, thrv
<1> QED  BY <1>1, <1>2, <1>3, <1>4, <1>5, <1>6, <1>7, <1>8, <1>9, <1>10, <1>11, <1>13,
            <1>14, <1>15, <1>16, <1>17, <1>18 DEF Next

LEMMA RefInvInit == Init => RefInv
<1> SUFFICES ASSUME Init, NEW u \in Ups PROVE RefAt(u)
  BY DEF RefInv
<1>1. Waiting(Home[u], u) = {} /\ \A l \in Loops : Waiting(l, u) = {}
  <2>1. Home[u] \in Loops
    BY LoopAssumption DEF Loops
  <2> QED  BY <2>1 DEF Init, Waiting
<1>2. Copies(u) = {} /\ Pushers(u) = {} /\ Callers(u) = {}
  BY <1>1, NullAssumption DEF Init, Copies, Pushers, Callers, Idle
<1>3. ref[u] = 1 /\ u \notin freed /\ evals[u] = 0 /\ Attached(u)
  BY DEF Init, Attached
<1>4. Cardinality(Copies(u)) = 0 /\ Cardinality(Pushers(u)) = 0 /\ Cardinality(Callers(u)) = 0
  BY <1>2, FS_EmptySet
<1>5. Holders(u) = 1
  BY <1>3, <1>4 DEF Holders
<1> QED  BY <1>3, <1>5 DEF RefAt

LEMMA RefInvHolds == ASSUME Trusted PROVE Spec => []RefInv
<1>1. Core /\ RefInv /\ [Next]_vars => RefInv'
  BY RefInvStep
<1> QED  BY <1>1, RefInvInit, CoreHolds, PTL DEF Spec

\* Where callbacks do not write, or there is no limit, the count of an Upgraded
\* is the number of places that refer to it, and a freed one has none.
THEOREM ReferencesCounted == ASSUME Trusted PROVE Spec => []RefExact
BY RefInvMeans, RefInvHolds, PTL

\* ... and one that nobody refers to any more was freed.
THEOREM LastOneFrees == ASSUME Trusted PROVE Spec => []LastReleaseFrees
BY RefInvMeans, RefInvHolds, PTL

\* ... and one whose connection is there was not.
THEOREM ConKeepsIt == ASSUME Trusted PROVE Spec => []ConReference
<1>1. Core /\ RefInv => ConReference
  BY HeldAlive DEF Core, ConReference
<1> QED  BY <1>1, RefInvHolds, CoreHolds, PTL

-----------------------------------------------------------------------------
(* The order of what a thread sends *)

\* Message a was sent before message b, if one thread sent both.
Older(a, b) == a # NULL /\ b # NULL /\ a[1] = b[1] => a[2] < b[2]

\* What loop l has: place 0 is the publication it works on.
Places(l)  == (1 .. Len(queue[l])) \cup (IF cur[l] # NULL THEN {0} ELSE {})
Item(l, i) == IF i = 0 THEN cur[l] ELSE queue[l][i]

\* Thread t is going to put its publication on the queue of loop l.
Coming(t, l) == Calling(t) /\ thr[t].next <= l

LoopOrder == \A l \in Loops : \A i, j \in Places(l) : i < j => Older(Item(l, i).by, Item(l, j).by)
CallOrder == \A l \in Loops : \A i \in Places(l), t \in Threads :
               Coming(t, l) => Older(Item(l, i).by, thr[t].pub.by)
OutOrder  == \A u \in Ups : \A i, j \in 1 .. Len(out[u]) : i < j => Older(out[u][i], out[u][j])
OutLoop   == \A u \in Ups : \A i \in 1 .. Len(out[u]), j \in Places(Home[u]) :
               Older(out[u][i], Item(Home[u], j).by)
OutCall   == \A u \in Ups : \A i \in 1 .. Len(out[u]), t \in Threads :
               Coming(t, Home[u]) => Older(out[u][i], thr[t].pub.by)

\* Nothing is on the way that was not sent.
Called(m) == m # NULL => m[2] <= calls

CallsInv ==
  /\ \A l \in Loops : \A i \in Places(l) : Called(Item(l, i).by)
  /\ \A u \in Ups : \A i \in 1 .. Len(out[u]) : Called(out[u][i])
  /\ \A t \in Threads : Calling(t) => Called(thr[t].pub.by)

OrderInv == LoopOrder /\ CallOrder /\ OutOrder /\ OutLoop /\ OutCall /\ CallsInv

LEMMA OrderMeans == OrderInv => SenderOrder
BY DEF OrderInv, OutOrder, Older, SenderOrder

LEMMA MsgType ==
  ASSUME NEW m \in MaybeMsg, m # NULL
  PROVE  m[1] \in Threads /\ m[2] \in Nat
BY DEF MaybeMsg

LEMMA ItemType ==
  ASSUME TypeOK, NEW l \in Loops
  PROVE  /\ Len(queue[l]) \in Nat /\ Places(l) \subseteq Nat
         /\ \A i \in Places(l) : Item(l, i) \in PubSet /\ Item(l, i).by \in MaybeMsg
<1>1. /\ queue[l] \in Seq(PubSet) /\ Len(queue[l]) \in Nat
      /\ \A i \in 1 .. Len(queue[l]) : queue[l][i] \in PubSet
  BY LenProperties, ElementOfSeq DEF TypeOK
<1>2. cur[l] # NULL => cur[l] \in PubSet
  BY DEF TypeOK
<1>3. \A i \in Places(l) : i \in Nat /\ Item(l, i) \in PubSet
  BY <1>1, <1>2 DEF Places, Item
<1> QED  BY <1>1, <1>3, PubRecord

LEMMA OutType ==
  ASSUME TypeOK, NEW u \in Ups
  PROVE  /\ out[u] \in Seq(MaybeMsg) /\ Len(out[u]) \in Nat
         /\ \A i \in 1 .. Len(out[u]) : out[u][i] \in MaybeMsg
BY LenProperties, ElementOfSeq DEF TypeOK

\* A message of another thread is not in question.
LEMMA OtherSender ==
  ASSUME ThreadInv, NEW t \in Threads, NEW s \in Threads, t # s, Calling(t), Calling(s)
  PROVE  Older(thr[t].pub.by, thr[s].pub.by)
BY DEF ThreadInv, InCall, Older

\* A new message is younger than all that are on the way.
LEMMA NewIsYounger ==
  ASSUME NEW m \in MaybeMsg, Called(m), NEW t, calls \in Nat
  PROVE  Older(m, NULL) /\ Older(m, <<t, calls + 1>>)
BY MsgType DEF Called, Older

LEMMA PlacesStay ==
  ASSUME NEW l, queue'[l] = queue[l], cur'[l] = cur[l]
  PROVE  Places(l)' = Places(l) /\ \A i : Item(l, i)' = Item(l, i)
BY DEF Places, Item

LEMMA PlacesPush ==
  ASSUME TypeOK, NEW l \in Loops, NEW p, queue' = [queue EXCEPT ![l] = Append(@, p)],
         UNCHANGED cur
  PROVE  /\ \A k \in Loops \ {l} : Places(k)' = Places(k) /\ \A i : Item(k, i)' = Item(k, i)
         /\ \A i \in Places(l)' : \/ i \in Places(l) /\ Item(l, i)' = Item(l, i)
                                  \/ /\ Item(l, i)' = p /\ \A j \in Places(l) : j < i
                                     /\ i \notin Places(l) /\ i = Len(queue[l]) + 1
<1> DEFINE n == Len(queue[l]) + 1
<1>1. queue \in [Loops -> Seq(PubSet)] /\ queue[l] \in Seq(PubSet) /\ Len(queue[l]) \in Nat
  BY LenProperties DEF TypeOK
<1>2. queue'[l] = Append(queue[l], p) /\ \A k \in Loops \ {l} : queue'[k] = queue[k]
  BY <1>1
<1>3. /\ Len(queue'[l]) = n /\ queue'[l][n] = p
      /\ \A i \in 1 .. Len(queue[l]) : queue'[l][i] = queue[l][i]
  <2> DEFINE S == PubSet \cup {p}
  <2>1. queue[l] \in Seq(S) /\ p \in S
    BY <1>1
  <2> HIDE DEF S
  <2> QED  BY <1>1, <1>2, <2>1, AppendProperties
<1>4. \A k \in Loops \ {l} : Places(k)' = Places(k) /\ \A i : Item(k, i)' = Item(k, i)
  BY <1>2 DEF Places, Item
<1>5. ASSUME NEW i \in Places(l)'
      PROVE  \/ i \in Places(l) /\ Item(l, i)' = Item(l, i)
             \/ /\ Item(l, i)' = p /\ \A j \in Places(l) : j < i
                /\ i \notin Places(l) /\ i = n
  <2>1. i \in 1 .. n \/ (i = 0 /\ cur[l] # NULL)
    BY <1>3 DEF Places
  <2>2. CASE i = n
    <3>1. Item(l, i)' = p
      BY <1>1, <1>3, <2>2 DEF Item
    <3>2. (\A j \in Places(l) : j < i) /\ i \notin Places(l)
      BY <1>1, <2>2 DEF Places
    <3> QED  BY <2>2, <3>1, <3>2
  <2>3. CASE i # n
    <3>1. i \in Places(l)
      BY <1>1, <2>1, <2>3 DEF Places
    <3>2. Item(l, i)' = Item(l, i)
      BY <1>1, <1>3, <2>1, <2>3 DEF Item
    <3> QED  BY <3>1, <3>2
  <2> QED  BY <2>2, <2>3
<1> QED  BY <1>4, <1>5

LEMMA PlacesRead ==
  ASSUME TypeOK, NEW l \in Loops, Read(l)
  PROVE  /\ \A k \in Loops \ {l} : Places(k)' = Places(k) /\ \A i : Item(k, i)' = Item(k, i)
         /\ \A i \in Places(l)' : i \in Nat /\ i + 1 \in Places(l) /\ Item(l, i)' = Item(l, i + 1)
<1> DEFINE q == queue[l]
<1>1. q \in Seq(PubSet) /\ q # <<>> /\ Len(q) \in Nat
  BY LenProperties DEF TypeOK, Read
<1>2. /\ queue'[l] = Tail(q) /\ cur'[l] = Head(q)
      /\ \A k \in Loops \ {l} : queue'[k] = queue[k] /\ cur'[k] = cur[k]
  BY DEF TypeOK, Read
<1>3. /\ Head(q) = q[1] /\ Len(Tail(q)) = Len(q) - 1 /\ Len(q) > 0
      /\ \A i \in 1 .. Len(q) - 1 : Tail(q)[i] = q[i + 1]
  BY <1>1, HeadTailProperties, LenProperties
<1>4. \A k \in Loops \ {l} : Places(k)' = Places(k) /\ \A i : Item(k, i)' = Item(k, i)
  BY <1>2 DEF Places, Item
<1>5. ASSUME NEW i \in Places(l)'
      PROVE  i \in Nat /\ i + 1 \in Places(l) /\ Item(l, i)' = Item(l, i + 1)
  <2>1. i \in 1 .. Len(q) - 1 \/ i = 0
    BY <1>2, <1>3 DEF Places
  <2>2. i \in Nat /\ i + 1 \in 1 .. Len(q) /\ i + 1 # 0
    BY <1>1, <1>3, <2>1
  <2>3. Item(l, i + 1) = q[i + 1]
    BY <2>2 DEF Item
  <2>4. Item(l, i)' = q[i + 1]
    BY <1>2, <1>3, <2>1, <2>2 DEF Item
  <2> QED  BY <2>2, <2>3, <2>4 DEF Places
<1> QED  BY <1>4, <1>5

LEMMA PlacesDone ==
  ASSUME TypeOK, NEW l \in Loops, cur[l] # NULL, cur' = [cur EXCEPT ![l] = NULL], UNCHANGED queue
  PROVE  /\ 0 \in Places(l) /\ Item(l, 0) = cur[l]
         /\ \A k \in Loops \ {l} : Places(k)' = Places(k) /\ \A i : Item(k, i)' = Item(k, i)
         /\ \A i \in Places(l)' : i \in Nat /\ 0 < i /\ i \in Places(l) /\ Item(l, i)' = Item(l, i)
<1>1. Len(queue[l]) \in Nat
  BY LenProperties DEF TypeOK
<1>2. cur'[l] = NULL /\ \A k \in Loops \ {l} : cur'[k] = cur[k]
  BY DEF TypeOK
<1> QED  BY <1>1, <1>2 DEF Places, Item

\* Nothing is on its way that was not: the threads go on, or return.
LEMMA OrderStay ==
  ASSUME OrderInv, UNCHANGED <<queue, cur, out, calls>>,
         \A t \in Threads : Calling(t)' => /\ Calling(t) /\ thr'[t].pub = thr[t].pub
                                           /\ thr'[t].next = thr[t].next
  PROVE  OrderInv'
<1>1. \A l : Places(l)' = Places(l) /\ \A i : Item(l, i)' = Item(l, i)
  BY PlacesStay
<1>2. \A t \in Threads : \A l : Coming(t, l)' => Coming(t, l) /\ thr'[t].pub = thr[t].pub
  BY DEF Coming
<1>3. LoopOrder'
  BY <1>1 DEF OrderInv, LoopOrder
<1>4. CallOrder'
  BY <1>1, <1>2 DEF OrderInv, CallOrder
<1>5. OutOrder'
  BY DEF OrderInv, OutOrder
<1>6. OutLoop'
  BY <1>1 DEF OrderInv, OutLoop
<1>7. OutCall'
  BY <1>2 DEF OrderInv, OutCall
<1>8. CallsInv'
  BY <1>1 DEF OrderInv, CallsInv, Called
<1> QED  BY <1>3, <1>4, <1>5, <1>6, <1>7, <1>8 DEF OrderInv

LEMMA OrderStart ==
  ASSUME Core, OrderInv, NEW t \in Threads, NEW k, NEW u, NEW inc, NEW s,
         Start(t, s, k, u, inc), UNCHANGED <<queue, cur, out>>
  PROVE  OrderInv'
<1> USE NullAssumption
<1>t. TypeOK /\ calls \in Nat /\ calls' = calls + 1
  BY DEF Core, TypeOK, Start
<1>1. \A l : Places(l)' = Places(l) /\ \A i : Item(l, i)' = Item(l, i)
  BY PlacesStay
<1>2. \A q \in Threads \ {t} : thr'[q] = thr[q]
  BY StartRecord
<1>3. thr'[t].pub.by = NULL \/ thr'[t].pub.by = <<t, calls + 1>>
  BY StartRecord
<1>4. \A m \in MaybeMsg : Called(m) => Older(m, thr'[t].pub.by)
  <2> TAKE m \in MaybeMsg
  <2> HAVE Called(m)
  <2>1. Older(m, NULL) /\ Older(m, <<t, calls + 1>>)
    BY <1>t, NewIsYounger
  <2> QED  BY <1>3, <2>1
<1>5. \A m \in MaybeMsg : Called(m) => Called(m)'
  BY <1>t, MsgType DEF Called
<1>6. \A q \in Threads \ {t} : \A l : Coming(q, l)' <=> Coming(q, l)
  BY <1>2 DEF Coming, Calling
<1>7. LoopOrder'
  BY <1>1 DEF OrderInv, LoopOrder
<1>8. CallOrder'
  <2> SUFFICES ASSUME NEW l \in Loops, NEW i \in Places(l), NEW q \in Threads, Coming(q, l)'
               PROVE  Older(Item(l, i).by, thr'[q].pub.by)
    BY <1>1 DEF CallOrder
  <2>1. CASE q = t
    <3>1. Item(l, i).by \in MaybeMsg /\ Called(Item(l, i).by)
      BY <1>t, ItemType DEF OrderInv, CallsInv
    <3> QED  BY <1>4, <2>1, <3>1
  <2>2. CASE q # t
    BY <1>2, <1>6, <2>2 DEF OrderInv, CallOrder
  <2> QED  BY <2>1, <2>2
<1>9. OutOrder'
  BY DEF OrderInv, OutOrder
<1>10. OutLoop'
  BY <1>1 DEF OrderInv, OutLoop
<1>11. OutCall'
  <2> SUFFICES ASSUME NEW v \in Ups, NEW i \in 1 .. Len(out[v]), NEW q \in Threads, Coming(q, Home[v])'
               PROVE  Older(out[v][i], thr'[q].pub.by)
    BY DEF OutCall
  <2>1. CASE q = t
    <3>1. out[v][i] \in MaybeMsg /\ Called(out[v][i])
      BY <1>t, OutType DEF OrderInv, CallsInv
    <3> QED  BY <1>4, <2>1, <3>1
  <2>2. CASE q # t
    BY <1>2, <1>6, <2>2 DEF OrderInv, OutCall
  <2> QED  BY <2>1, <2>2
<1>12. CallsInv'
  <2>1. ASSUME NEW l \in Loops, NEW i \in Places(l)' PROVE Called(Item(l, i).by)'
    <3>1. i \in Places(l) /\ Item(l, i)' = Item(l, i)
      BY <1>1
    <3>2. Item(l, i).by \in MaybeMsg /\ Called(Item(l, i).by)
      BY <3>1, <1>t, ItemType DEF OrderInv, CallsInv
    <3>3. PICK m \in MaybeMsg : m = Item(l, i).by /\ Called(m)
      BY <3>2
    <3> QED  BY <1>5, <3>1, <3>3 DEF Called
  <2>2. ASSUME NEW v \in Ups, NEW i \in 1 .. Len(out'[v]) PROVE Called(out[v][i])'
    <3>1. out[v][i] \in MaybeMsg /\ Called(out[v][i])
      BY <1>t, OutType DEF OrderInv, CallsInv
    <3>2. PICK m \in MaybeMsg : m = out[v][i] /\ Called(m)
      BY <3>1
    <3> QED  BY <1>5, <3>2 DEF Called
  <2>3. ASSUME NEW q \in Threads, Calling(q)' PROVE Called(thr[q].pub.by)'
    <3>1. CASE q = t
      BY <1>3, <1>t, <3>1 DEF Called
    <3>2. CASE q # t
      <4>1. Calling(q) /\ thr'[q].pub = thr[q].pub
        BY <1>2, <2>3, <3>2 DEF Calling
      <4>2. thr[q].pub \in PubSet
        BY <4>1, <1>t, CallRecord DEF Core, ThreadInv, InCall
      <4>3. Called(thr[q].pub.by) /\ thr[q].pub.by \in MaybeMsg
        BY <4>1, <4>2, PubRecord DEF OrderInv, CallsInv
      <4>4. PICK m \in MaybeMsg : m = thr[q].pub.by /\ Called(m)
        BY <4>3
      <4> QED  BY <1>5, <4>1, <4>4 DEF Called
    <3> QED  BY <3>1, <3>2
  <2> QED  BY <2>1, <2>2, <2>3 DEF CallsInv
<1> QED  BY <1>7, <1>8, <1>9, <1>10, <1>11, <1>12 DEF OrderInv

LEMMA OrderPush ==
  ASSUME Core, OrderInv, NEW t \in Threads, PushNext(t)
  PROVE  OrderInv'
<1>t. TypeOK /\ ThreadInv /\ thr[t].at = "push" /\ Calling(t)
  BY DEF Core, PushNext, At, Calling
<1>1. /\ UNCHANGED <<cur, out, calls>>
      /\ queue' = [queue EXCEPT ![thr[t].next] = Append(@, thr[t].pub)]
  BY DEF PushNext, conv
<1>2. PICK l \in Loops, p \in PubSet : l = thr[t].next /\ p = thr[t].pub
  BY <1>t, PushRecord
<1>3. queue' = [queue EXCEPT ![l] = Append(@, p)] /\ UNCHANGED cur
  BY <1>1, <1>2
<1>4. /\ \A k \in Loops \ {l} : Places(k)' = Places(k) /\ \A i : Item(k, i)' = Item(k, i)
      /\ \A i \in Places(l)' : \/ i \in Places(l) /\ Item(l, i)' = Item(l, i)
                               \/ /\ Item(l, i)' = p /\ \A j \in Places(l) : j < i
                                  /\ i \notin Places(l) /\ i = Len(queue[l]) + 1
  BY <1>3, <1>t, PlacesPush
<1>5. Coming(t, l)
  BY <1>t, <1>2, LoopAssumption DEF Coming, Loops
<1>6. /\ \A s \in Threads \ {t} : thr'[s] = thr[s]
      /\ Calling(t)' => thr[t].next # LoopCnt /\ thr'[t].pub = thr[t].pub /\ thr'[t].next = l + 1
  <2>1. CASE thr[t].next = LoopCnt
    BY <1>t, <2>1, ReturnIs DEF PushNext, Calling
  <2>2. CASE thr[t].next # LoopCnt
    <3>1. thr' = [thr EXCEPT ![t] = [thr[t] EXCEPT !.next = thr[t].next + 1]]
      BY <2>2 DEF PushNext
    <3>2. /\ thr'[t] = [thr[t] EXCEPT !.next = thr[t].next + 1]
          /\ \A s \in Threads \ {t} : thr'[s] = thr[s]
      BY <3>1, OneThread
    <3> QED  BY <1>2, <2>2, <3>2, <1>t, CallRecord DEF CallType
  <2> QED  BY <2>1, <2>2
<1>7. \A k \in Loops : Coming(t, k)' => k # l /\ Coming(t, k) /\ thr'[t].pub = thr[t].pub
  <2> TAKE k \in Loops
  <2> HAVE Coming(t, k)'
  <2>1. l + 1 <= k /\ thr'[t].pub = thr[t].pub
    BY <1>6 DEF Coming
  <2>2. k # l /\ l <= k
    BY <2>1, LoopAssumption DEF Loops
  <2> QED  BY <1>t, <1>2, <2>1, <2>2 DEF Coming
<1>8. \A s \in Threads \ {t} : \A k : /\ Coming(s, k)' <=> Coming(s, k)
                                      /\ Calling(s)' <=> Calling(s)
                                      /\ thr'[s].pub = thr[s].pub
  BY <1>6 DEF Coming, Calling
<1>9. \A i \in Places(l) : Older(Item(l, i).by, p.by)
  BY <1>2, <1>5 DEF OrderInv, CallOrder
<1>10. LoopOrder'
  <2> SUFFICES ASSUME NEW k \in Loops, NEW i \in Places(k)', NEW j \in Places(k)', i < j
               PROVE  Older(Item(k, i)'.by, Item(k, j)'.by)
    BY DEF LoopOrder, Older
  <2>1. CASE k # l
    BY <1>4, <2>1 DEF OrderInv, LoopOrder
  <2>2. CASE k = l
    <3>1. CASE i \in Places(l) /\ j \in Places(l)
      BY <1>4, <2>2, <3>1 DEF OrderInv, LoopOrder
    <3>2. CASE i \in Places(l) /\ j \notin Places(l)
      BY <1>4, <1>9, <2>2, <3>2
    <3>3. CASE i \notin Places(l)
      <4>1. i = Len(queue[l]) + 1 /\ Len(queue[l]) \in Nat
        BY <1>4, <2>2, <3>3, <1>t, ItemType
      <4>2. j <= i
        BY <1>4, <2>2, <4>1, <1>t, ItemType DEF Places
      <4> QED  BY <4>1, <4>2, <2>2, <1>4, <1>t, ItemType
    <3> QED  BY <3>1, <3>2, <3>3
  <2> QED  BY <2>1, <2>2
<1>11. CallOrder'
  <2> SUFFICES ASSUME NEW k \in Loops, NEW i \in Places(k)', NEW s \in Threads, Coming(s, k)'
               PROVE  Older(Item(k, i)'.by, thr'[s].pub.by)
    BY DEF CallOrder, Older
  <2>1. Coming(s, k) /\ thr'[s].pub = thr[s].pub /\ (s = t => k # l)
    BY <1>7, <1>8
  <2>2. CASE i \in Places(k) /\ Item(k, i)' = Item(k, i)
    BY <2>1, <2>2 DEF OrderInv, CallOrder
  <2>3. CASE ~(i \in Places(k) /\ Item(k, i)' = Item(k, i))
    <3>1. k = l /\ Item(k, i)' = p /\ s # t
      BY <1>4, <2>1, <2>3
    <3>2. Older(thr[t].pub.by, thr[s].pub.by)
      BY <2>1, <3>1, <1>t, OtherSender DEF Coming
    <3> QED  BY <1>2, <2>1, <3>1, <3>2
  <2> QED  BY <2>2, <2>3
<1>12. OutOrder'
  BY <1>1 DEF OrderInv, OutOrder
<1>13. OutLoop'
  <2> SUFFICES ASSUME NEW u \in Ups, NEW i \in 1 .. Len(out[u]), NEW j \in Places(Home[u])'
               PROVE  Older(out[u][i], Item(Home[u], j)'.by)
    BY <1>1 DEF OutLoop, Older
  <2>1. Home[u] \in Loops
    BY LoopAssumption DEF Loops
  <2>2. CASE j \in Places(Home[u]) /\ Item(Home[u], j)' = Item(Home[u], j)
    BY <2>2 DEF OrderInv, OutLoop
  <2>3. CASE ~(j \in Places(Home[u]) /\ Item(Home[u], j)' = Item(Home[u], j))
    <3>1. Home[u] = l /\ Item(Home[u], j)' = p
      BY <1>4, <2>1, <2>3
    <3>2. Older(out[u][i], thr[t].pub.by)
      BY <1>5, <3>1 DEF OrderInv, OutCall
    <3> QED  BY <1>2, <3>1, <3>2
  <2> QED  BY <2>2, <2>3
<1>14. OutCall'
  <2> SUFFICES ASSUME NEW u \in Ups, NEW i \in 1 .. Len(out[u]), NEW s \in Threads, Coming(s, Home[u])'
               PROVE  Older(out[u][i], thr'[s].pub.by)
    BY <1>1 DEF OutCall, Older
  <2>1. Home[u] \in Loops
    BY LoopAssumption DEF Loops
  <2>2. Coming(s, Home[u]) /\ thr'[s].pub = thr[s].pub
    BY <1>7, <1>8, <2>1
  <2> QED  BY <2>2 DEF OrderInv, OutCall
<1>15. CallsInv'
  <2>1. ASSUME NEW k \in Loops, NEW i \in Places(k)' PROVE Called(Item(k, i)'.by)
    <3>1. CASE i \in Places(k) /\ Item(k, i)' = Item(k, i)
      BY <3>1 DEF OrderInv, CallsInv
    <3>2. CASE ~(i \in Places(k) /\ Item(k, i)' = Item(k, i))
      <4>1. Item(k, i)' = p
        BY <1>4, <3>2
      <4> QED  BY <1>t, <1>2, <4>1 DEF OrderInv, CallsInv
    <3> QED  BY <3>1, <3>2
  <2>2. \A u \in Ups : \A i \in 1 .. Len(out[u]) : Called(out[u][i])
    BY DEF OrderInv, CallsInv
  <2>3. ASSUME NEW s \in Threads, Calling(s)' PROVE Called(thr'[s].pub.by)
    <3>1. Calling(s) /\ thr'[s].pub = thr[s].pub
      BY <1>t, <1>6, <1>8, <2>3
    <3> QED  BY <3>1 DEF OrderInv, CallsInv
  <2> QED  BY <1>1, <2>1, <2>2, <2>3 DEF CallsInv, Called
<1> QED  BY <1>10, <1>11, <1>12, <1>13, <1>14, <1>15 DEF OrderInv

LEMMA OrderRead ==
  ASSUME Core, OrderInv, NEW l \in Loops, Read(l)
  PROVE  OrderInv'
<1>t. TypeOK
  BY DEF Core
<1>1. UNCHANGED <<out, thr, calls>>
  BY DEF Read, conv, thrv
<1>2. \A t, k : (Calling(t)' <=> Calling(t)) /\ (Coming(t, k)' <=> Coming(t, k))
  BY <1>1 DEF Calling, Coming
<1>3. \A k \in Loops : \A i \in Places(k)' :
        \E d \in {0, 1} : i \in Nat /\ i + d \in Places(k) /\ Item(k, i)' = Item(k, i + d)
                          /\ (d = 1 <=> k = l)
  <2> TAKE k \in Loops
  <2> TAKE i \in Places(k)'
  <2>1. CASE k = l
    BY <2>1, <1>t, PlacesRead
  <2>2. CASE k # l
    <3>1. i \in Places(k) /\ Item(k, i)' = Item(k, i)
      BY <2>2, <1>t, PlacesRead
    <3>2. i \in Nat /\ i + 0 = i
      BY <3>1, <1>t, ItemType
    <3> QED  BY <2>2, <3>1, <3>2
  <2> QED  BY <2>1, <2>2
<1>4. LoopOrder'
  <2> SUFFICES ASSUME NEW k \in Loops, NEW i \in Places(k)', NEW j \in Places(k)', i < j
               PROVE  Older(Item(k, i)'.by, Item(k, j)'.by)
    BY DEF LoopOrder, Older
  <2>1. PICK d \in {0, 1} : /\ i \in Nat /\ i + d \in Places(k) /\ Item(k, i)' = Item(k, i + d)
                            /\ (d = 1 <=> k = l)
    BY <1>3
  <2>2. PICK e \in {0, 1} : /\ j \in Nat /\ j + e \in Places(k) /\ Item(k, j)' = Item(k, j + e)
                            /\ (e = 1 <=> k = l)
    BY <1>3
  <2>3. i + d < j + e
    BY <2>1, <2>2
  <2> QED  BY <2>1, <2>2, <2>3 DEF OrderInv, LoopOrder
<1>5. CallOrder'
  <2> SUFFICES ASSUME NEW k \in Loops, NEW i \in Places(k)', NEW s \in Threads, Coming(s, k)
               PROVE  Older(Item(k, i)'.by, thr[s].pub.by)
    BY <1>1, <1>2 DEF CallOrder, Older
  <2>1. \E j \in Places(k) : Item(k, i)' = Item(k, j)
    BY <1>3
  <2> QED  BY <2>1 DEF OrderInv, CallOrder
<1>6. OutOrder' /\ OutCall'
  BY <1>1, <1>2 DEF OrderInv, OutOrder, OutCall
<1>7. OutLoop'
  <2> SUFFICES ASSUME NEW u \in Ups, NEW i \in 1 .. Len(out[u]), NEW j \in Places(Home[u])'
               PROVE  Older(out[u][i], Item(Home[u], j)'.by)
    BY <1>1 DEF OutLoop, Older
  <2>1. Home[u] \in Loops
    BY LoopAssumption DEF Loops
  <2>2. \E m \in Places(Home[u]) : Item(Home[u], j)' = Item(Home[u], m)
    BY <1>3, <2>1
  <2> QED  BY <2>2 DEF OrderInv, OutLoop
<1>8. CallsInv'
  <2>1. ASSUME NEW k \in Loops, NEW i \in Places(k)' PROVE Called(Item(k, i)'.by)
    <3>1. \E j \in Places(k) : Item(k, i)' = Item(k, j)
      BY <1>3
    <3> QED  BY <3>1 DEF OrderInv, CallsInv
  <2>2. /\ \A u \in Ups : \A i \in 1 .. Len(out[u]) : Called(out[u][i])
        /\ \A t \in Threads : Calling(t) => Called(thr[t].pub.by)
    BY DEF OrderInv, CallsInv
  <2> QED  BY <1>1, <1>2, <2>1, <2>2 DEF CallsInv, Called
<1> QED  BY <1>4, <1>5, <1>6, <1>7, <1>8 DEF OrderInv

\* The message goes to the connections of the loop, as their last.
LEMMA OrderProcess ==
  ASSUME Core, OrderInv, NEW l \in Loops, Process(l)
  PROVE  OrderInv'
<1>t. TypeOK
  BY DEF Core
<1>1. /\ UNCHANGED <<queue, thr, calls>> /\ cur[l] # NULL /\ cur' = [cur EXCEPT ![l] = NULL]
      /\ out' = [u \in Ups |-> IF u \in Targets(l, cur[l])
                               THEN Append(out[u], cur[l].by) ELSE out[u]]
  BY DEF Process, thrv, Queued
<1>2. PICK b \in MaybeMsg : b = cur[l].by
  BY <1>1, <1>t, PubRecord DEF TypeOK
<1>3. \A t, k : (Calling(t)' <=> Calling(t)) /\ (Coming(t, k)' <=> Coming(t, k))
  BY <1>1 DEF Calling, Coming
<1>4. /\ 0 \in Places(l) /\ Item(l, 0) = cur[l]
      /\ \A k \in Loops \ {l} : Places(k)' = Places(k) /\ \A i : Item(k, i)' = Item(k, i)
      /\ \A i \in Places(l)' : i \in Nat /\ 0 < i /\ i \in Places(l) /\ Item(l, i)' = Item(l, i)
  BY <1>1, <1>t, PlacesDone
<1>5. \A k \in Loops : \A i \in Places(k)' : i \in Places(k) /\ Item(k, i)' = Item(k, i)
  BY <1>4
<1>6. \A u \in Ups : Home[u] \in Loops
  BY LoopAssumption DEF Loops
<1>7. \A u \in Ups : \A i \in 1 .. Len(out'[u]) :
        \/ i \in 1 .. Len(out[u]) /\ out'[u][i] = out[u][i]
        \/ Home[u] = l /\ i = Len(out[u]) + 1 /\ out'[u][i] = b
  <2> TAKE u \in Ups
  <2>1. out[u] \in Seq(MaybeMsg) /\ Len(out[u]) \in Nat
    BY <1>t, OutType
  <2>2. CASE u \in Targets(l, cur[l])
    <3>1. Home[u] = l
      BY <2>2 DEF Targets, Mine
    <3>2. out'[u] = Append(out[u], b)
      BY <1>1, <1>2, <2>2
    <3>3. /\ Len(out'[u]) = Len(out[u]) + 1 /\ out'[u][Len(out[u]) + 1] = b
          /\ \A i \in 1 .. Len(out[u]) : out'[u][i] = out[u][i]
      BY <2>1, <3>2, AppendProperties
    <3> TAKE i \in 1 .. Len(out'[u])
    <3>4. i \in 1 .. Len(out[u]) \/ i = Len(out[u]) + 1
      BY <2>1, <3>3
    <3> QED  BY <3>1, <3>3, <3>4
  <2>3. CASE u \notin Targets(l, cur[l])
    BY <1>1, <2>3
  <2> QED  BY <2>2, <2>3
<1>8. LoopOrder'
  BY <1>5 DEF OrderInv, LoopOrder
<1>9. CallOrder'
  <2> SUFFICES ASSUME NEW k \in Loops, NEW i \in Places(k)', NEW s \in Threads, Coming(s, k)
               PROVE  Older(Item(k, i)'.by, thr[s].pub.by)
    BY <1>1, <1>3 DEF CallOrder, Older
  <2> QED  BY <1>5 DEF OrderInv, CallOrder
<1>10. OutOrder'
  <2> SUFFICES ASSUME NEW u \in Ups, NEW i \in 1 .. Len(out'[u]), NEW j \in 1 .. Len(out'[u]), i < j
               PROVE  Older(out'[u][i], out'[u][j])
    BY DEF OutOrder, Older
  <2>1. Len(out[u]) \in Nat
    BY <1>t, OutType
  <2>2. i \in 1 .. Len(out[u]) /\ out'[u][i] = out[u][i]
    <3>1. ~(i = Len(out[u]) + 1)
      <4>1. j <= Len(out[u]) + 1 /\ j \in Nat
        BY <1>7, <2>1
      <4> QED  BY <2>1, <4>1
    <3> QED  BY <1>7, <3>1
  <2>3. CASE j \in 1 .. Len(out[u]) /\ out'[u][j] = out[u][j]
    BY <2>2, <2>3 DEF OrderInv, OutOrder
  <2>4. CASE ~(j \in 1 .. Len(out[u]) /\ out'[u][j] = out[u][j])
    <3>1. Home[u] = l /\ out'[u][j] = b
      BY <1>7, <2>4
    <3>2. Older(out[u][i], Item(l, 0).by)
      BY <1>4, <2>2, <3>1 DEF OrderInv, OutLoop
    <3> QED  BY <1>2, <1>4, <2>2, <3>1, <3>2
  <2> QED  BY <2>3, <2>4
<1>11. OutLoop'
  <2> SUFFICES ASSUME NEW u \in Ups, NEW i \in 1 .. Len(out'[u]), NEW j \in Places(Home[u])'
               PROVE  Older(out'[u][i], Item(Home[u], j)'.by)
    BY DEF OutLoop, Older
  <2>1. j \in Places(Home[u]) /\ Item(Home[u], j)' = Item(Home[u], j)
    BY <1>5, <1>6
  <2>2. CASE i \in 1 .. Len(out[u]) /\ out'[u][i] = out[u][i]
    BY <2>1, <2>2 DEF OrderInv, OutLoop
  <2>3. CASE ~(i \in 1 .. Len(out[u]) /\ out'[u][i] = out[u][i])
    <3>1. Home[u] = l /\ out'[u][i] = b
      BY <1>7, <2>3
    <3>2. 0 < j
      BY <1>4, <3>1
    <3>3. Older(Item(l, 0).by, Item(l, j).by)
      BY <1>4, <2>1, <3>1, <3>2 DEF OrderInv, LoopOrder
    <3> QED  BY <1>2, <1>4, <2>1, <3>1, <3>3
  <2> QED  BY <2>2, <2>3
<1>12. OutCall'
  <2> SUFFICES ASSUME NEW u \in Ups, NEW i \in 1 .. Len(out'[u]), NEW s \in Threads, Coming(s, Home[u])
               PROVE  Older(out'[u][i], thr[s].pub.by)
    BY <1>1, <1>3 DEF OutCall, Older
  <2>1. CASE i \in 1 .. Len(out[u]) /\ out'[u][i] = out[u][i]
    BY <2>1 DEF OrderInv, OutCall
  <2>2. CASE ~(i \in 1 .. Len(out[u]) /\ out'[u][i] = out[u][i])
    <3>1. Home[u] = l /\ out'[u][i] = b
      BY <1>7, <2>2
    <3>2. Older(Item(l, 0).by, thr[s].pub.by)
      BY <1>4, <3>1 DEF OrderInv, CallOrder
    <3> QED  BY <1>2, <1>4, <3>1, <3>2
  <2> QED  BY <2>1, <2>2
<1>13. CallsInv'
  <2>0. Called(b)
    BY <1>2, <1>4 DEF OrderInv, CallsInv
  <2>1. ASSUME NEW k \in Loops, NEW i \in Places(k)' PROVE Called(Item(k, i)'.by)
    BY <1>5 DEF OrderInv, CallsInv
  <2>2. ASSUME NEW u \in Ups, NEW i \in 1 .. Len(out'[u]) PROVE Called(out'[u][i])
    BY <1>7, <2>0 DEF OrderInv, CallsInv
  <2>3. \A t \in Threads : Calling(t) => Called(thr[t].pub.by)
    BY DEF OrderInv, CallsInv
  <2> QED  BY <1>1, <1>3, <2>1, <2>2, <2>3 DEF CallsInv, Called
<1> QED  BY <1>8, <1>9, <1>10, <1>11, <1>12, <1>13 DEF OrderInv

\* What is sent leaves the rest in its order.
LEMMA OrderSent ==
  ASSUME OrderInv, UNCHANGED <<queue, cur, thr, calls>>,
         \A u \in Ups : \/ out'[u] = out[u]
                        \/ \A i \in 1 .. Len(out'[u]) :
                             i \in Nat /\ i + 1 \in 1 .. Len(out[u]) /\ out'[u][i] = out[u][i + 1]
  PROVE  OrderInv'
<1>1. \A l : Places(l)' = Places(l) /\ \A i : Item(l, i)' = Item(l, i)
  BY PlacesStay
<1>2. \A t, k : (Calling(t)' <=> Calling(t)) /\ (Coming(t, k)' <=> Coming(t, k))
  BY DEF Calling, Coming
<1>3. \A u \in Ups : \A i \in 1 .. Len(out'[u]) : \E j \in 1 .. Len(out[u]) : out'[u][i] = out[u][j]
  OBVIOUS
<1>4. LoopOrder' /\ CallOrder'
  BY <1>1, <1>2 DEF OrderInv, LoopOrder, CallOrder
<1>5. OutOrder'
  <2> SUFFICES ASSUME NEW u \in Ups, NEW i \in 1 .. Len(out'[u]), NEW j \in 1 .. Len(out'[u]), i < j
               PROVE  Older(out'[u][i], out'[u][j])
    BY DEF OutOrder, Older
  <2>1. CASE out'[u] = out[u]
    BY <2>1 DEF OrderInv, OutOrder
  <2>2. CASE out'[u] # out[u]
    <3>1. /\ i \in Nat /\ i + 1 \in 1 .. Len(out[u]) /\ out'[u][i] = out[u][i + 1]
          /\ j \in Nat /\ j + 1 \in 1 .. Len(out[u]) /\ out'[u][j] = out[u][j + 1]
      BY <2>2
    <3>2. i + 1 < j + 1
      BY <3>1
    <3> QED  BY <3>1, <3>2 DEF OrderInv, OutOrder
  <2> QED  BY <2>1, <2>2
<1>6. OutLoop'
  <2> SUFFICES ASSUME NEW u \in Ups, NEW i \in 1 .. Len(out'[u]), NEW j \in Places(Home[u])
               PROVE  Older(out'[u][i], Item(Home[u], j).by)
    BY <1>1 DEF OutLoop, Older
  <2> QED  BY <1>3 DEF OrderInv, OutLoop
<1>7. OutCall'
  <2> SUFFICES ASSUME NEW u \in Ups, NEW i \in 1 .. Len(out'[u]), NEW s \in Threads, Coming(s, Home[u])
               PROVE  Older(out'[u][i], thr[s].pub.by)
    BY <1>2 DEF OutCall, Older
  <2> QED  BY <1>3 DEF OrderInv, OutCall
<1>8. CallsInv'
  <2>1. ASSUME NEW u \in Ups, NEW i \in 1 .. Len(out'[u]) PROVE Called(out'[u][i])
    BY <1>3 DEF OrderInv, CallsInv
  <2>2. /\ \A l \in Loops : \A i \in Places(l) : Called(Item(l, i).by)
        /\ \A t \in Threads : Calling(t) => Called(thr[t].pub.by)
    BY DEF OrderInv, CallsInv
  <2> QED  BY <1>1, <1>2, <2>1, <2>2 DEF CallsInv, Called
<1> QED  BY <1>4, <1>5, <1>6, <1>7, <1>8 DEF OrderInv

LEMMA OrderInvStep == Core /\ OrderInv /\ [Next]_vars => OrderInv'
<1> SUFFICES ASSUME Core, OrderInv, [Next]_vars PROVE OrderInv'
  OBVIOUS
<1>t. TypeOK
  BY DEF Core
<1>1. ASSUME NEW t \in Threads, NEW u \in Ups, NEW inc \in BOOLEAN, Write(t, u, inc) PROVE OrderInv'
  BY <1>1, OrderStart DEF Write, conv, loopv
<1>2. ASSUME NEW t \in Threads, NEW u \in Ups, NEW inc \in BOOLEAN,
             NEW k \in CallKinds \cap {"SUB", "UN", "CLOSE"}, Ask(t, k, u, inc) PROVE OrderInv'
  BY <1>2, OrderStart DEF Ask, conv, loopv
<1>3. ASSUME NEW t \in Threads, Publish(t) PROVE OrderInv'
  BY <1>3, OrderStart DEF Publish, conv, loopv
<1>4. ASSUME NEW t \in Threads, TakeEvent(t) PROVE OrderInv'
  <2>1. PICK u \in Ups : thr' = [thr EXCEPT ![t] = [thr[t] EXCEPT !.at = "callback", !.up = u]]
    BY <1>4 DEF TakeEvent
  <2>2. /\ thr'[t] = [thr[t] EXCEPT !.at = "callback", !.up = u]
        /\ \A s \in Threads \ {t} : thr'[s] = thr[s]
    BY <2>1, OneThread
  <2>3. thr'[t].at = "callback"
    BY <2>2, <1>t, CallRecord DEF CallType
  <2>4. UNCHANGED <<queue, cur, out, calls>>
    BY <1>4 DEF TakeEvent, conv, loopv
  <2> QED  BY <2>2, <2>3, <2>4, OrderStay DEF Calling
<1>5. ASSUME NEW t \in Threads, EndCallback(t) PROVE OrderInv'
  <2>1. thr'[t] = Idle /\ \A s \in Threads \ {t} : thr'[s] = thr[s]
    BY <1>5, OneThread DEF EndCallback
  <2>2. UNCHANGED <<queue, cur, out, calls>>
    BY <1>5 DEF EndCallback, conv, loopv
  <2> QED  BY <2>1, <2>2, OrderStay DEF Calling, Idle
<1>6. ASSUME NEW t \in Threads, Refuse(t) PROVE OrderInv'
  <2>1. /\ \A s \in Threads \ {t} : thr'[s] = thr[s]
        /\ thr'[t].at = (IF thr[t].inc THEN "callback" ELSE "idle")
    BY <1>6, ReturnIs DEF Refuse, At, Calling
  <2>2. UNCHANGED <<queue, cur, out, calls>>
    BY <1>6 DEF Refuse, conv, loopv
  <2> QED  BY <2>1, <2>2, OrderStay DEF Calling
<1>7. ASSUME NEW t \in Threads, NEW s \in {"admit", "push"}, GoTo(t, s), Writing(t),
             UNCHANGED <<queue, cur, out, calls>> PROVE OrderInv'
  <2>1. thr' = [thr EXCEPT ![t] = [thr[t] EXCEPT !.at = s]]
    BY <1>7 DEF GoTo
  <2>2. thr'[t] = [thr[t] EXCEPT !.at = s] /\ \A q \in Threads \ {t} : thr'[q] = thr[q]
    BY <2>1, OneThread
  <2>3. thr'[t].pub = thr[t].pub /\ thr'[t].next = thr[t].next
    BY <2>2, <1>t, CallRecord DEF CallType
  <2>4. \A q \in Threads : Calling(q)' => /\ Calling(q) /\ thr'[q].pub = thr[q].pub
                                          /\ thr'[q].next = thr[q].next
    BY <1>7, <2>2, <2>3 DEF Calling, Writing
  <2> QED  BY <1>7, <2>4, OrderStay
<1>8. ASSUME NEW t \in Threads, Accept(t) \/ Admit(t) PROVE OrderInv'
  BY <1>7, <1>8 DEF Accept, Admit, At, Writing, conv, loopv
<1>9. ASSUME NEW t \in Threads, PushNext(t) PROVE OrderInv'
  BY <1>9, OrderPush
<1>10. ASSUME NEW l \in Loops, Read(l) PROVE OrderInv'
  BY <1>10, OrderRead
<1>11. ASSUME NEW l \in Loops, Process(l) PROVE OrderInv'
  BY <1>11, OrderProcess
<1>12. ASSUME UNCHANGED <<queue, cur, thr, calls, out>> PROVE OrderInv'
  BY <1>12, OrderSent
<1>13. ASSUME NEW u \in Ups, WsWrite(u) PROVE OrderInv'
  <2>1. /\ out[u] # <<>> /\ out' = [out EXCEPT ![u] = Tail(@)]
        /\ UNCHANGED <<queue, cur, thr, calls>>
    BY <1>13 DEF WsWrite, loopv, thrv
  <2>2. out[u] \in Seq(MaybeMsg) /\ Len(out[u]) \in Nat
    BY <1>t, OutType
  <2>3. out'[u] = Tail(out[u]) /\ \A v \in Ups \ {u} : out'[v] = out[v]
    BY <2>1, <1>t DEF TypeOK
  <2>4. /\ Len(Tail(out[u])) = Len(out[u]) - 1
        /\ \A i \in 1 .. Len(out[u]) - 1 : Tail(out[u])[i] = out[u][i + 1]
    BY <2>1, <2>2, HeadTailProperties
  <2>5. \A i \in 1 .. Len(out'[u]) :
          i \in Nat /\ i + 1 \in 1 .. Len(out[u]) /\ out'[u][i] = out[u][i + 1]
    BY <2>2, <2>3, <2>4
  <2> QED  BY <2>1, <2>3, <2>5, OrderSent
<1>14. ASSUME NEW u \in Ups, ConDestroy(u) PROVE OrderInv'
  <2>1. out' = [out EXCEPT ![u] = <<>>] /\ UNCHANGED <<queue, cur, thr, calls>>
    BY <1>14 DEF ConDestroy, loopv, thrv
  <2>2. out'[u] = <<>> /\ \A v \in Ups \ {u} : out'[v] = out[v]
    BY <2>1, <1>t DEF TypeOK
  <2> QED  BY <2>1, <2>2, OrderSent
<1> QED  BY <1>1, <1>2, <1>3, <1>4, <1>5, <1>6, <1>8, <1>9, <1>10, <1>11, <1>12, <1>13, <1>14
         DEF Next, Crash, BadRequest, Leave, vars, conv, loopv, thrv

LEMMA OrderInvInit == Init => OrderInv
<1> SUFFICES ASSUME Init PROVE OrderInv
  OBVIOUS
<1>1. /\ \A l \in Loops : Places(l) = {}
      /\ \A u \in Ups : Home[u] \in Loops /\ Len(out[u]) = 0
      /\ \A t \in Threads : ~Calling(t)
  BY LoopAssumption DEF Init, Places, Loops, Calling, Idle
<1> QED  BY <1>1 DEF OrderInv, LoopOrder, CallOrder, OutOrder, OutLoop, OutCall, CallsInv, Coming

\* What one thread sends to a connection is in its queue in the order it was
\* sent, for any number of loops, threads and calls in between.
THEOREM SendersInOrder == Spec => []SenderOrder
BY OrderMeans, OrderInvInit, OrderInvStep, CoreHolds, PTL DEF Spec
==============================================================================
