------------------------------- MODULE PushHub -------------------------------
(***************************************************************************)
(* Pushing to upgraded connections: src/agoo/upgraded.c, pub.c, and the    *)
(* parts of server.c and con.c that carry a publication from the thread    *)
(* that makes it to the loop that owns the connection.                     *)
(*                                                                         *)
(* A publication is put on the queue of every loop, a copy on each but the *)
(* last, and only the loop that owns the connection acts on it.  The       *)
(* Upgraded it is about is kept alive by a reference count: one reference  *)
(* for the connection, one for each copy of a publication, and one for     *)
(* each push request on its way to an evaluation thread.  The last release *)
(* frees it, under up_lock.                                                *)
(*                                                                         *)
(* Threads is the set of threads of the embedding program and of the       *)
(* evaluation threads that run its callbacks.  Outside a callback such a   *)
(* thread takes a reference while the Upgraded is known to be alive and    *)
(* hands it over with the call (inc_ref is false); inside a callback it    *)
(* calls on the reference of the push request (inc_ref is true) and        *)
(* releases that one when the callback returns.                            *)
(*                                                                         *)
(* up->con is read without a lock by loops that do not own the connection. *)
(* Reading it and using it are two steps here, and a use that comes after  *)
(* the connection is gone may or may not end the process (crashed), as     *)
(* does a push request that reaches eval_loop in agoo.c.                   *)
(* The loop queues are unbounded sequences: AgooQueue has their detail.    *)
(***************************************************************************)
EXTENDS Integers, Sequences, FiniteSets

CONSTANTS
  LoopCnt,         \* connection loops, in the order of con_loops
  Ups,             \* the Upgraded objects, one for each connection
  Home,            \* the loop that owns the connection of each Upgraded
  Threads,         \* the threads that publish
  NULL,            \* no Upgraded, no publication
  MaxPending,      \* agoo_server.max_push_pending, 0 for no limit
  CallbackWrites,  \* whether callbacks call agoo_upgraded_write
  CallKinds,       \* the kinds of publications the program makes
  Callbacks,       \* which of on_empty, on_close an Upgraded wants
  MaxCalls         \* bound: calls the threads make in all

Kinds == {"SUB", "UN", "CLOSE", "WRITE", "MSG"}

ASSUME LoopAssumption  == LoopCnt \in Nat \ {0} /\ Home \in [Ups -> 1 .. LoopCnt]
ASSUME ThreadAssumption == IsFiniteSet(Threads)
ASSUME LimitAssumption == MaxPending \in Nat /\ MaxCalls \in Nat
ASSUME FlagAssumption  == CallbackWrites \in BOOLEAN
                          /\ CallKinds \subseteq Kinds
                          /\ Callbacks \subseteq {"on_empty", "on_close"}

Loops == 1 .. LoopCnt
\* A message is named by the call that made it: the thread and the call number.
MaybeMsg == (Threads \X (1 .. MaxCalls)) \cup {NULL}
PubSet == [kind : Kinds, up : Ups \cup {NULL}, by : MaybeMsg]

ASSUME NullAssumption == NULL \notin Ups \cup PubSet \cup (Threads \X (1 .. MaxCalls))

VARIABLES
  ref,      \* up->ref_cnt
  freed,    \* the Upgraded objects that were freed
  pending,  \* up->pending
  con,      \* the connection: "open", "dead" (c->dead is set) or "gone"
  subbed,   \* whether up->subjects has a subject that matches the publications
  out,      \* the responses queued on the connection: messages, NULL for a close
  evals,    \* push requests for each Upgraded in the evaluation queue
  queue,    \* loop->pub_queue
  cur,      \* the publication a loop is working on
  saw,      \* the Upgraded objects whose connection that loop found attached
  thr,      \* where each thread is in its call
  calls,    \* calls made so far
  crashed   \* whether the process died: of a stale or missing connection or response

upv    == <<ref, freed, pending, evals>>
conv   == <<con, subbed, out>>
loopv  == <<queue, cur, saw>>
thrv   == <<thr, calls>>
vars   == <<upv, conv, loopv, thrv, crashed>>

Idle == [at |-> "idle", up |-> NULL, pub |-> NULL, inc |-> FALSE, next |-> 0]

Attached(u) == con[u] # "gone"

Init ==
  /\ ref = [u \in Ups |-> 1]
  /\ freed = {}
  /\ pending = [u \in Ups |-> 0]
  /\ con = [u \in Ups |-> "open"]
  /\ subbed = [u \in Ups |-> FALSE]
  /\ out = [u \in Ups |-> <<>>]
  /\ evals = [u \in Ups |-> 0]
  /\ queue = [l \in Loops |-> <<>>]
  /\ cur = [l \in Loops |-> NULL]
  /\ saw = [l \in Loops |-> {}]
  /\ thr = [t \in Threads |-> Idle]
  /\ calls = 0
  /\ crashed = FALSE

\* Mutant: the last reference is not noticed.
ReleaseLate(u, r) ==
  /\ ref' = [ref EXCEPT ![u] = r - 1]
  /\ freed' = IF r <= 0 THEN freed \cup {u} ELSE freed

\* agoo_upgraded_release on an Upgraded whose count is r: the thread that
\* takes the last reference away frees it, all under up_lock.
Release(u, r) ==
  /\ ref' = [ref EXCEPT ![u] = r - 1]
  /\ freed' = IF r <= 1 THEN freed \cup {u} ELSE freed

-----------------------------------------------------------------------------
(* The threads that publish: upgraded.c, agoo_server_publish *)

At(t, step)    == ~crashed /\ thr[t].at = step
GoTo(t, step)  == thr' = [thr EXCEPT ![t].at = step]

\* The call is over: a caller without a callback has no reference left.
Return(t) ==
  thr' = [thr EXCEPT ![t] =
    IF thr[t].inc THEN [Idle EXCEPT !.at = "callback", !.up = thr[t].up] ELSE Idle]

Start(t, step, k, u, inc) ==
  /\ calls < MaxCalls
  /\ calls' = calls + 1
  /\ thr' = [thr EXCEPT ![t] =
       [at |-> step, up |-> u, inc |-> inc, next |-> 1,
        pub |-> [kind |-> k, up |-> u,
                 by |-> IF k \in {"WRITE", "MSG"} THEN <<t, calls + 1>> ELSE NULL]]]

\* Thread t may call about u: in a callback about its Upgraded (inc_ref is
\* true), or else about any that is alive (inc_ref is false).
MayCall(t, u, inc) ==
  IF inc THEN At(t, "callback") /\ u = thr[t].up
         ELSE At(t, "idle") /\ u \notin freed

\* agoo_upgraded_write; outside a callback the caller takes a reference first.
Write(t, u, inc) ==
  /\ MayCall(t, u, inc) /\ "WRITE" \in CallKinds
  /\ inc => CallbackWrites
  /\ Start(t, "limit", "WRITE", u, inc)
  /\ ref' = [ref EXCEPT ![u] = IF inc THEN @ ELSE @ + 1]
  /\ UNCHANGED <<freed, pending, evals, conv, loopv, crashed>>

\* agoo_upgraded_subscribe, _unsubscribe and _close, which have no limit: the
\* reference is the caller's or added by inc_ref.
Ask(t, k, u, inc) ==
  /\ MayCall(t, u, inc)
  /\ Start(t, "push", k, u, inc)
  /\ ref' = [ref EXCEPT ![u] = @ + 1]
  /\ pending' = [pending EXCEPT ![u] = @ + 1]
  /\ UNCHANGED <<freed, evals, conv, loopv, crashed>>

\* A publication for every subscriber has no Upgraded.
Publish(t) ==
  /\ At(t, "idle") /\ "MSG" \in CallKinds
  /\ Start(t, "push", "MSG", NULL, FALSE)
  /\ UNCHANGED <<upv, conv, loopv, crashed>>

\* eval_loop, or the loop of a program that has one of its own, takes a push
\* request, and its reference.
TakeEvent(t) ==
  /\ At(t, "idle")
  /\ \E u \in Ups :
       /\ evals[u] > 0
       /\ evals' = [evals EXCEPT ![u] = @ - 1]
       /\ thr' = [thr EXCEPT ![t].at = "callback", ![t].up = u]
  /\ UNCHANGED <<ref, freed, pending, conv, loopv, calls, crashed>>

\* eval_loop calls the hooks of requests only.  For a push request it comes to
\* bad_request, which uses req->res: a push request has none.
BadRequest(t) ==
  /\ At(t, "callback")
  /\ crashed' = TRUE
  /\ UNCHANGED <<upv, conv, loopv, thrv>>

\* In the loop of a program that has callbacks: the callback returns and the
\* reference of the push request is released, which agoo_req_destroy does not.
\* A loop that does not release it is a thread that stays in its callback.
EndCallback(t) ==
  /\ At(t, "callback")
  /\ Release(thr[t].up, ref[thr[t].up])
  /\ thr' = [thr EXCEPT ![t] = Idle]
  /\ UNCHANGED <<pending, evals, conv, loopv, calls, crashed>>

\* Mutant: the limit is off by one.
OverLimitLate(u) == 0 < MaxPending /\ MaxPending < pending[u]

OverLimit(u) == 0 < MaxPending /\ MaxPending <= pending[u]

\* "Too many pending messages.": the write is refused and a reference is
\* dropped, whether or not the caller handed one over.
Refuse(t) ==
  /\ At(t, "limit") /\ OverLimit(thr[t].up)
  /\ ref' = [ref EXCEPT ![thr[t].up] = @ - 1]
  /\ Return(t)
  /\ UNCHANGED <<freed, pending, evals, conv, loopv, calls, crashed>>

Accept(t) ==
  /\ At(t, "limit") /\ ~OverLimit(thr[t].up)
  /\ GoTo(t, "admit")
  /\ UNCHANGED <<upv, conv, loopv, calls, crashed>>

\* The write is made, with its reference, and counted as pending.
Admit(t) ==
  /\ At(t, "admit")
  /\ LET u == thr[t].up IN
       /\ ref' = [ref EXCEPT ![u] = IF thr[t].inc THEN @ + 1 ELSE @]
       /\ pending' = [pending EXCEPT ![u] = @ + 1]
  /\ GoTo(t, "push")
  /\ UNCHANGED <<freed, evals, conv, loopv, calls, crashed>>

\* Mutant: a copy does not count as a reference.
CopyRefNone(u) == UNCHANGED ref

\* agoo_pub_dup
CopyRef(u) == ref' = [ref EXCEPT ![u] = @ + 1]

\* agoo_server_publish, one loop at a time: the last gets the original.
PushNext(t) ==
  /\ At(t, "push")
  /\ LET l == thr[t].next IN
       /\ queue' = [queue EXCEPT ![l] = Append(@, thr[t].pub)]
       /\ IF l = LoopCnt
          THEN Return(t) /\ UNCHANGED ref
          ELSE /\ thr' = [thr EXCEPT ![t].next = l + 1]
               /\ IF thr[t].up = NULL THEN UNCHANGED ref ELSE CopyRef(thr[t].up)
  /\ UNCHANGED <<freed, pending, evals, conv, cur, saw, calls, crashed>>

-----------------------------------------------------------------------------
(* A connection loop takes a publication: process_pub_con *)

Read(l) ==
  /\ ~crashed /\ cur[l] = NULL /\ queue[l] # <<>>
  /\ cur' = [cur EXCEPT ![l] = Head(queue[l])]
  /\ queue' = [queue EXCEPT ![l] = Tail(@)]
  /\ saw' = [saw EXCEPT ![l] =
       {u \in Ups : Attached(u) /\ Head(queue[l]).up \in {u, NULL}}]
  /\ UNCHANGED <<upv, conv, thrv, crashed>>

\* Mutant: the order is lost.
QueuedFirst(u, b) == <<b>> \o out[u]

\* agoo_con_res_append
Queued(u, b) == Append(out[u], b)

Mine(l, u) == Attached(u) /\ Home[u] = l

\* The connections the publication adds a response to.
Targets(l, p) ==
  CASE p.kind \in {"WRITE", "CLOSE"} -> {u \in {p.up} : Mine(l, u)}
    [] p.kind = "MSG"                -> {u \in Ups : Mine(l, u) /\ subbed[u]}
    [] OTHER                         -> {}

\* Mutant: every loop counts the publication as done.
DoneByAny(l, p) == {u \in {p.up} \ {NULL} : Attached(u)}

\* The loop that owns the connection counts the publication as done.
DoneBy(l, p) == {u \in {p.up} \ {NULL} : Mine(l, u)}

\* "1 == fetch_sub": nothing is pending any more, on_empty is to be called.
Emptied(l, p) == {u \in DoneBy(l, p) : pending[u] = 1 /\ "on_empty" \in Callbacks}

\* agoo_pub_destroy releases the reference of the publication, after that
\* of an on_empty request was taken.
Destroyed(p, extra) ==
  IF p.up = NULL
  THEN UNCHANGED <<ref, freed>>
  ELSE Release(p.up, ref[p.up] + extra)

Process(l) ==
  /\ ~crashed /\ cur[l] # NULL
  /\ LET p == cur[l] IN
       /\ p.kind \in {"SUB", "UN"} => saw[l] # {}
       /\ pending' = [u \in Ups |-> IF u \in DoneBy(l, p) THEN pending[u] - 1 ELSE pending[u]]
       /\ evals' = [u \in Ups |-> IF u \in Emptied(l, p) THEN evals[u] + 1 ELSE evals[u]]
       /\ out' = [u \in Ups |-> IF u \in Targets(l, p)
                                THEN Queued(u, p.by) ELSE out[u]]
       /\ subbed' = [u \in Ups |-> IF p.up = u /\ Mine(l, u) /\ p.kind \in {"SUB", "UN"}
                                   THEN p.kind = "SUB" ELSE subbed[u]]
       /\ Destroyed(p, Cardinality(Emptied(l, p)))
  /\ cur' = [cur EXCEPT ![l] = NULL]
  /\ saw' = [saw EXCEPT ![l] = {}]
  /\ UNCHANGED <<con, queue, thrv, crashed>>

\* A connection was found attached and is gone when it is used, or a SUB or
\* UN comes when there is none: "up->con->loop" of a freed or NULL con.
Crash(l) ==
  /\ ~crashed /\ cur[l] # NULL
  /\ \/ \E u \in saw[l] : ~Attached(u)
     \/ cur[l].kind \in {"SUB", "UN"} /\ saw[l] = {}
  /\ crashed' = TRUE
  /\ UNCHANGED <<upv, conv, loopv, thrv>>

-----------------------------------------------------------------------------
(* What else the loop does with its connections *)

\* The loop that owns the connection is between two publications.
LoopFree(u) == ~crashed /\ cur[Home[u]] = NULL

\* agoo_ws_req_close makes a push request that holds a reference.
Closing(u) == IF "on_close" \in Callbacks THEN 1 ELSE 0

\* The client left, or the read or the poll failed.
Leave(u) ==
  /\ LoopFree(u) /\ con[u] = "open"
  /\ con' = [con EXCEPT ![u] = "dead"]
  /\ UNCHANGED <<upv, subbed, out, loopv, thrv, crashed>>

\* con_ws_write: a message is sent, a response without one is a close.
WsWrite(u) ==
  /\ LoopFree(u) /\ con[u] = "open" /\ out[u] # <<>>
  /\ out' = [out EXCEPT ![u] = Tail(@)]
  /\ IF Head(out[u]) # NULL
     THEN UNCHANGED <<ref, evals, con>>
     ELSE /\ con' = [con EXCEPT ![u] = "dead"]
          /\ evals' = [evals EXCEPT ![u] = @ + Closing(u)]
          /\ ref' = [ref EXCEPT ![u] = @ + Closing(u)]
  /\ UNCHANGED <<freed, pending, subbed, loopv, thrv, crashed>>

\* agoo_con_destroy with agoo_ws_req_close and agoo_upgraded_release_con.
ConDestroy(u) ==
  /\ LoopFree(u) /\ con[u] = "dead"
  /\ con' = [con EXCEPT ![u] = "gone"]
  /\ out' = [out EXCEPT ![u] = <<>>]
  /\ evals' = [evals EXCEPT ![u] = @ + Closing(u)]
  /\ Release(u, ref[u] + Closing(u))
  /\ UNCHANGED <<pending, subbed, loopv, thrv, crashed>>

-----------------------------------------------------------------------------
Next ==
  \/ \E t \in Threads, u \in Ups, inc \in BOOLEAN :
       \/ Write(t, u, inc)
       \/ \E k \in CallKinds \cap {"SUB", "UN", "CLOSE"} : Ask(t, k, u, inc)
  \/ \E t \in Threads :
       \/ Publish(t) \/ TakeEvent(t) \/ BadRequest(t) \/ EndCallback(t)
       \/ Refuse(t) \/ Accept(t) \/ Admit(t) \/ PushNext(t)
  \/ \E l \in Loops : Read(l) \/ Process(l) \/ Crash(l)
  \/ \E u \in Ups : Leave(u) \/ WsWrite(u) \/ ConDestroy(u)

Spec == Init /\ [][Next]_vars

-----------------------------------------------------------------------------
(* Properties *)

CallType ==
  [at : {"idle", "callback", "limit", "admit", "push"}, up : Ups \cup {NULL},
   pub : PubSet \cup {NULL}, inc : BOOLEAN, next : 0 .. LoopCnt]

\* The variables have their types (upgraded.h, pub.h, con.h); no count of
\* publications or of push requests gets below zero.
TypeOK ==
  /\ ref \in [Ups -> Int] /\ pending \in [Ups -> Nat] /\ evals \in [Ups -> Nat]
  /\ freed \subseteq Ups
  /\ con \in [Ups -> {"open", "dead", "gone"}]
  /\ subbed \in [Ups -> BOOLEAN]
  /\ out \in [Ups -> Seq(MaybeMsg)]
  /\ queue \in [Loops -> Seq(PubSet)]
  /\ cur \in [Loops -> PubSet \cup {NULL}]
  /\ saw \in [Loops -> SUBSET Ups]
  /\ thr \in [Threads -> CallType]
  /\ calls \in 0 .. MaxCalls
  /\ crashed \in BOOLEAN

\* The publications that are for u and that loop l has not finished.
Waiting(l, u) ==
  {i \in 1 .. Len(queue[l]) : queue[l][i].up = u}
    \cup (IF cur[l] # NULL /\ cur[l].up = u THEN {0} ELSE {})

\* What holds a reference to u: the copies of publications on the loops, the
\* threads with a publication that is not on the last loop yet, and the threads
\* with a reference of their own.
Copies(u)  == UNION {{l} \X Waiting(l, u) : l \in Loops}
Pushers(u) == {t \in Threads : thr[t].up = u /\ thr[t].at = "push"}
Callers(u) == {t \in Threads : thr[t].up = u /\ (thr[t].at = "push" => thr[t].inc)}

Holders(u) == (IF Attached(u) THEN 1 ELSE 0) + evals[u]
                + Cardinality(Copies(u)) + Cardinality(Pushers(u)) + Cardinality(Callers(u))

\* The count of an Upgraded is the number of places that refer to it (the
\* connection, copies of publications, push requests, threads in a call), and
\* a freed one is referred to nowhere: the counting of upgraded.c, pub_dup and
\* pub_destroy, in whatever order the loops get to their copies.
RefExact ==
  \A u \in Ups : IF u \in freed THEN Holders(u) = 0 ELSE ref[u] = Holders(u)

\* The publications that the owning loop has yet to do: those on its queue, and
\* those that are still to be put there.
ToPush(u) == {t \in Pushers(u) : thr[t].next <= Home[u]}
Undone(u) == Cardinality(Waiting(Home[u], u)) + Cardinality(ToPush(u))

\* While the connection is there, up->pending counts what its loop has yet to
\* do: the other loops, which get copies, do not count theirs as done, so the
\* limit and on_empty look at the right number.
PendingExact ==
  \A u \in Ups : Attached(u) => pending[u] = Undone(u)

\* The writes among them.
WaitingWrites(u) == {i \in Waiting(Home[u], u) : i # 0 /\ queue[Home[u]][i].kind = "WRITE"}
WritesToPush(u)  == {t \in ToPush(u) : thr[t].pub.kind = "WRITE"}
UndoneWrites(u)  == Cardinality(WaitingWrites(u)) + Cardinality(WritesToPush(u))

\* The limit of agoo_upgraded_write is tested before the write is counted, so
\* writers that race pass it together: by one write for each of the others.
WritesBounded ==
  MaxPending > 0 =>
    \A u \in Ups : UndoneWrites(u) <= MaxPending + Cardinality(Threads) - 1

\* What one thread sends to a connection arrives in the order it was sent,
\* writes and subscribed messages alike, though others send in between.
SenderOrder ==
  \A u \in Ups : \A i, j \in 1 .. Len(out[u]) :
    (i < j /\ out[u][i] # NULL /\ out[u][j] # NULL /\ out[u][i][1] = out[u][j][1])
      => out[u][i][2] < out[u][j][2]

\* The Upgraded is not freed while its connection can use it (c->up): "start
\* with 1 for the Con reference" (upgraded.c).
ConReference == \A u \in Ups : Attached(u) => u \notin freed

\* An Upgraded nobody refers to any more has been freed, by whichever loop or
\* thread released it last (up_lock in agoo_upgraded_release).  The exception
\* is a refused write that takes the last reference without freeing
\* (upgraded.c:121), which happens over the limit only.
LastReleaseFrees ==
  \A u \in Ups : (Holders(u) = 0 /\ u \notin freed) => OverLimit(u)
=============================================================================
