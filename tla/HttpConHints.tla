----------------------------- MODULE HttpConHints -----------------------------
(***************************************************************************)
(* Early hints, for any number of connections, responses, threads, hints   *)
(* and requests, while connections stay: what clients get is in order, and *)
(* a response is recycled only when its handler is done with it.  A        *)
(* connection that is given up would break both (con.c:1117).              *)
(***************************************************************************)
EXTENDS HttpConOrder

\* No connection is given up: clients stay, no time-out passes, and no request is
\* refused or asks to close.
Calm == ~Disconnects /\ ~Timeouts /\ \A k \in Kinds : ~k.close /\ k.by # "bad"

-----------------------------------------------------------------------------
(* The inductive invariant *)

\* Every connection lives, and nothing will end it.
Living ==
  /\ \A c \in Conns : ~gone[c] /\ ~conn[c].dead /\ ~conn[c].closing
  /\ \A r \in Ress : ~res[r].close
  /\ loop.at # "hup" /\ ~loop.hup

\* The responses of c in use: on its list, or in the hand of the loop
InUse(c) == OnList(c) \cup {r \in Ress : Held(c) /\ r = loop.held}

\* A request is with one thread or in the queue, and its response is in use.
JobsPlaced == JobInv /\ \A j \in Busy : j.res \in InUse(j.req[1])

\* The messages of response r are those of the n-th request of c, the answer is the
\* last, and the handler of that request, if any, has not answered.
Speaks(r, c, n) ==
  /\ \A i \in DOMAIN res[r].msgs :
       /\ res[r].msgs[i].req = <<c, n>>
       /\ res[r].msgs[i].final => res[r].final /\ i = Len(res[r].msgs)
  /\ \A j \in Busy : j.res = r => j.req = <<c, n>> /\ ~res[r].final

\* The responses of a connection are in the order of its requests.
Ordered ==
  \A c \in Conns :
    /\ Len(conn[c].list) <= Len(asked[c])
    /\ \A k \in DOMAIN conn[c].list : Speaks(conn[c].list[k], c, Past(c) + k)
    /\ Held(c) => Len(conn[c].list) < Len(asked[c]) /\ Speaks(loop.held, c, Past(c))

\* The loop is about to be done with the response it holds.
Ending == /\ res[loop.held].final
          /\ loop.at = "sent" => Len(res[loop.held].msgs) = 1
          /\ loop.at = "finished" => ~loop.more

\* A message m that client c got is about a request whose response left the list,
\* or a hint about the next; once its answer is written a response goes.
ToldOf(c, m) ==
  /\ m.req[1] = c
  /\ m.req[2] <= Past(c) \/ (~Held(c) /\ m.req[2] = Past(c) + 1 /\ ~m.final)
  /\ Held(c) /\ m.req[2] = Past(c) /\ m.final => Ending

Told == \A c \in Conns : \A i \in DOMAIN sent[c] : ToldOf(c, sent[c][i])

HintInv == Living /\ JobsPlaced /\ Ordered /\ Told /\ HintsInOrder

-----------------------------------------------------------------------------
(* What the steps have in common *)

LEMMA PastIs ==
  ASSUME TypeOK, Ordered, NEW c \in Conns
  PROVE  \E b \in Nat, y \in Nat :
           /\ Len(conn[c].list) = y /\ DOMAIN conn[c].list = 1 .. y
           /\ Len(asked[c]) = b + y /\ Past(c) = b
BY Counts DEF Counted, Ordered

LEMMA UsedTyped ==
  ASSUME IInv, NEW c \in Conns
  PROVE  /\ \A k \in DOMAIN conn[c].list : conn[c].list[k] \in InUse(c) /\ conn[c].list[k] \in Ress
         /\ InUse(c) \subseteq Ress
         /\ InHand => loop.held \in Ress
         /\ Held(c) => loop.held \in InUse(c)
         /\ \A d \in Conns : d # c => InUse(c) \cap InUse(d) = {}
<1>1. InHand => loop.held \in Ress /\ \A d \in Conns : loop.held \notin OnList(d)
  BY DEF IInv, TypeOK, Places
<1>2. \A d \in Conns : d # c => OnList(c) \cap OnList(d) = {} /\ ~(Held(c) /\ Held(d))
  BY DEF IInv, Places, Held
<1>3. \A d \in Conns : Held(d) => InHand
  BY DEF Held
<1>4. OnList(c) \subseteq Ress /\ \A k \in DOMAIN conn[c].list : conn[c].list[k] \in OnList(c)
  BY Sizes, ConTyped DEF IInv
<1>5. \A d \in Conns : d # c => InUse(c) \cap InUse(d) = {}
  BY <1>1, <1>2, <1>3 DEF InUse
<1> QED  BY <1>1, <1>3, <1>4, <1>5 DEF InUse

LEMMA SpeaksSame ==
  ASSUME NEW r, NEW c, NEW n, Speaks(r, c, n), res'[r] = res[r],
         \A j \in Busy' : j.res = r => j \in Busy
  PROVE  Speaks(r, c, n)'
BY DEF Speaks

\* A step that moves no response, reads no request and writes no message.
LEMMA HintFrame ==
  ASSUME IInv, HintInv, Living', JobInv', UNCHANGED <<asked, sent>>,
         \A c \in Conns : conn'[c].list = conn[c].list,
         \A c \in Conns : Held(c)' => Held(c) /\ loop'.held = loop.held /\ (Ending => Ending'),
         \A j \in Busy' : j.res \in InUse(j.req[1])',
         \A c \in Conns : \A r \in InUse(c), n \in Nat : Speaks(r, c, n) => Speaks(r, c, n)'
  PROVE  HintInv'
<1> USE DEF HintInv
<1>1. JobsPlaced' /\ HintsInOrder'
  BY DEF JobsPlaced, HintsInOrder
<1>2. ASSUME NEW c \in Conns PROVE Past(c)' = Past(c)
  BY DEF Past
<1>3. Ordered'
  <2> SUFFICES ASSUME NEW c \in Conns
               PROVE  /\ Len(conn'[c].list) <= Len(asked'[c])
                      /\ \A k \in DOMAIN conn'[c].list : Speaks(conn[c].list[k], c, Past(c) + k)'
                      /\ Held(c)' => Len(conn'[c].list) < Len(asked'[c]) /\ Speaks(loop.held, c, Past(c))'
    BY DEF Ordered
  <2>1. PICK b \in Nat, y \in Nat : DOMAIN conn[c].list = 1 .. y /\ Past(c) = b
    BY PastIs DEF IInv
  <2>2. Len(conn'[c].list) <= Len(asked'[c]) /\ (Held(c) => Len(conn'[c].list) < Len(asked'[c]))
    BY DEF Ordered
  <2>3. ASSUME NEW k \in DOMAIN conn'[c].list PROVE Speaks(conn[c].list[k], c, Past(c) + k)'
    <3>1. PICK r \in InUse(c), n \in Nat : r = conn[c].list[k] /\ n = Past(c) + k
      BY <2>1, <2>3, UsedTyped
    <3>2. Speaks(r, c, n)
      BY <2>3, <3>1 DEF Ordered
    <3>3. Speaks(r, c, n)'
      BY <3>2
    <3>4. r = conn'[c].list[k] /\ n = Past(c)' + k
      BY <1>2, <3>1
    <3> QED  BY <3>3, <3>4 DEF Speaks
  <2>4. ASSUME Held(c)' PROVE Speaks(loop.held, c, Past(c))'
    <3>1. PICK r \in InUse(c) : r = loop.held /\ r = loop'.held
      BY <2>4, UsedTyped
    <3>2. Speaks(r, c, b)
      BY <2>1, <2>4, <3>1 DEF Ordered
    <3>3. Speaks(r, c, b)'
      BY <3>2
    <3>4. b = Past(c)'
      BY <1>2, <2>1
    <3> QED  BY <3>1, <3>3, <3>4 DEF Speaks
  <2> QED  BY <2>2, <2>3, <2>4
<1>4. Told'
  <2> SUFFICES ASSUME NEW c \in Conns, NEW i \in DOMAIN sent[c] PROVE ToldOf(c, sent[c][i])'
    BY DEF Told
  <2>1. ToldOf(c, sent[c][i]) /\ Past(c)' = Past(c)
    BY <1>2 DEF Told
  <2> QED  BY <2>1 DEF ToldOf
<1> QED  BY <1>1, <1>3, <1>4

\* The same, when responses and requests stay as they are
LEMMA HintStays ==
  ASSUME IInv, HintInv, Living', UNCHANGED <<res, evalv, asked, sent>>,
         \A c \in Conns : conn'[c].list = conn[c].list,
         InHand' <=> InHand, InHand => loop' = loop
  PROVE  HintInv'
<1>1. JobInv' /\ Busy' = Busy
  BY JobFrame DEF HintInv, JobsPlaced, evalv
<1>2. \A c \in Conns : Held(c)' => Held(c) /\ loop'.held = loop.held /\ (Ending => Ending')
  BY DEF Held, Ending, InHand
<1>3. \A c \in Conns : OnList(c)' = OnList(c) /\ (Held(c) => Held(c)' /\ loop'.held = loop.held)
  BY DEF OnList, Held, InHand
<1>4. \A j \in Busy' : j.res \in InUse(j.req[1])'
  <2>1. \A c \in Conns : InUse(c) \subseteq InUse(c)'
    BY <1>3 DEF InUse
  <2> QED  BY <1>1, <2>1, BusyTyped DEF HintInv, JobsPlaced, IInv
<1>5. \A r, c, n : Speaks(r, c, n) => Speaks(r, c, n)'
  BY <1>1 DEF Speaks
<1> QED  BY <1>1, <1>2, <1>4, <1>5, HintFrame

LEMMA InitHints == Init => HintInv
<1> SUFFICES ASSUME Init PROVE HintInv
  OBVIOUS
<1>1. Busy = {} /\ ~InHand
  BY DEF Init, Busy, InHand, Idle
<1>2. Living
  BY DEF Init, Living, Idle, Blank
<1>3. JobsPlaced
  BY <1>1 DEF Init, JobsPlaced, JobInv, IsInjective, Range
<1>4. Ordered
  <2>1. Len(<<>>) = 0 /\ DOMAIN <<>> = {}
    OBVIOUS
  <2> QED  BY <1>1, <2>1 DEF Init, Ordered, Held
<1>5. Told /\ HintsInOrder
  BY DEF Init, Told, HintsInOrder
<1> QED  BY <1>2, <1>3, <1>4, <1>5 DEF HintInv

-----------------------------------------------------------------------------
(* The evaluation threads *)

LEMMA EvalTakeHints == ASSUME IInv, HintInv, NEW e \in EvalThreads, EvalTake(e) PROVE HintInv'
<1>1. UNCHANGED <<conn, res, loop, asked, sent, gone>>
  BY DEF EvalTake, resv
<1>2. JobInv' /\ Busy' = Busy
  BY TakeJobs DEF IInv, HintInv, JobsPlaced
<1>3. Living'
  BY <1>1 DEF HintInv, Living
<1>4. \A c \in Conns : Held(c)' => Held(c) /\ loop'.held = loop.held /\ (Ending => Ending')
  BY <1>1 DEF Held, Ending, InHand
<1>5. \A j \in Busy' : j.res \in InUse(j.req[1])'
  <2>1. \A c \in Conns : InUse(c)' = InUse(c)
    BY <1>1 DEF InUse, OnList, Held, InHand
  <2> QED  BY <1>2, <2>1, BusyTyped DEF HintInv, JobsPlaced, IInv
<1>6. \A r, c, n : Speaks(r, c, n) => Speaks(r, c, n)'
  BY <1>1, <1>2 DEF Speaks
<1> QED  BY <1>1, <1>2, <1>3, <1>4, <1>5, <1>6, HintFrame

\* What a push does to the response of a request that is evaluated
LEMMA PushAdds ==
  ASSUME TypeOK, NEW r \in Ress, NEW m \in Msg, ~res[r].final,
         res' = [res EXCEPT ![r] = Push(r, m)]
  PROVE  /\ \A q \in Ress : q # r => res'[q] = res[q]
         /\ res'[r].msgs = Append(res[r].msgs, m) /\ (res'[r].final <=> m.final)
         /\ res'[r].close = res[r].close
<1>1. res[r] \in ResType /\ res \in [Ress -> ResType]
  BY DEF TypeOK
<1>2. Push(r, m) = [res[r] EXCEPT !.msgs = Append(@, m), !.final = m.final]
  BY DEF Push
<1>3. res'[r] = Push(r, m) /\ \A q \in Ress : q # r => res'[q] = res[q]
  BY <1>1
<1> QED  BY <1>1, <1>2, <1>3 DEF ResType

\* A handler pushes a hint or its answer; Busy' says what that does to the requests.
LEMMA PushHints ==
  ASSUME IInv, HintInv, NEW job \in Busy, NEW final \in BOOLEAN,
         res' = [res EXCEPT ![job.res] = Push(job.res, [req |-> job.req, final |-> final])],
         UNCHANGED <<conn, loop, asked, sent, gone>>, JobInv',
         \A j \in Busy' : \/ j \in Busy /\ j.res # job.res
                          \/ ~final /\ j.res = job.res /\ j.req = job.req
  PROVE  HintInv'
<1> DEFINE m == [req |-> job.req, final |-> final]
<1>1. /\ job.res \in Ress /\ job.req[1] \in Conns /\ m \in Msg /\ m.req = job.req /\ m.final = final
  BY BusyTyped DEF IInv, Job, Msg
<1>2. PICK r \in Ress, a \in Conns : r = job.res /\ a = job.req[1] /\ r \in InUse(a)
  BY <1>1 DEF HintInv, JobsPlaced
<1> HIDE DEF m
<1>3. PICK o \in Nat : Speaks(r, a, o)
  <2>1. PICK b \in Nat, y \in Nat : DOMAIN conn[a].list = 1 .. y /\ Past(a) = b
    BY PastIs DEF IInv, HintInv
  <2>2. CASE r \in OnList(a)
    <3>1. PICK k \in DOMAIN conn[a].list : r = conn[a].list[k]
      BY <2>2 DEF OnList, Range
    <3>2. Speaks(r, a, b + k)
      BY <2>1, <3>1 DEF HintInv, Ordered
    <3> QED  BY <2>1, <3>2
  <2>3. CASE r \notin OnList(a)
    <3>1. Held(a) /\ r = loop.held
      BY <1>2, <2>3 DEF InUse
    <3> QED  BY <2>1, <3>1 DEF HintInv, Ordered
  <2> QED  BY <2>2, <2>3
<1>4. ~res[r].final
  BY <1>2, <1>3 DEF Speaks
<1>5. /\ \A q \in Ress : q # r => res'[q] = res[q]
      /\ res'[r].msgs = Append(res[r].msgs, m) /\ (res'[r].final <=> final)
      /\ res'[r].close = res[r].close
  <2>1. res' = [res EXCEPT ![r] = Push(r, m)]
    BY <1>2 DEF m
  <2> QED  BY <1>1, <1>4, <2>1, PushAdds DEF IInv
<1>6. /\ res[r].msgs \in Seq(Msg)
      /\ DOMAIN Append(res[r].msgs, m) = 1 .. Len(res[r].msgs) + 1
      /\ Len(Append(res[r].msgs, m)) = Len(res[r].msgs) + 1 /\ Len(res[r].msgs) \in Nat
      /\ Append(res[r].msgs, m)[Len(res[r].msgs) + 1] = m
      /\ DOMAIN res[r].msgs = 1 .. Len(res[r].msgs)
      /\ \A i \in 1 .. Len(res[r].msgs) : Append(res[r].msgs, m)[i] = res[r].msgs[i]
  <2>1. res[r].msgs \in Seq(Msg)
    BY DEF IInv, TypeOK, ResType
  <2> QED  BY <1>1, <2>1, AppendProperties, LenProperties
<1>7. ASSUME NEW c \in Conns, NEW q \in InUse(c), NEW n \in Nat, Speaks(q, c, n)
      PROVE  Speaks(q, c, n)'
  <2>1. q \in Ress
    BY UsedTyped
  <2>2. CASE q # r
    <3>1. res'[q] = res[q] /\ \A j \in Busy' : j.res = q => j \in Busy
      BY <1>2, <1>5, <2>1, <2>2
    <3> QED  BY <1>7, <3>1, SpeaksSame
  <2>3. CASE q = r
    <3>1. job.req = <<c, n>>
      BY <1>2, <1>7, <2>3 DEF Speaks
    <3>2. \A i \in 1 .. Len(res[r].msgs) : res[r].msgs[i].req = <<c, n>> /\ ~res[r].msgs[i].final
      BY <1>4, <1>6, <1>7, <2>3 DEF Speaks
    <3>3. \A i \in DOMAIN res'[r].msgs :
            /\ res'[r].msgs[i].req = <<c, n>>
            /\ res'[r].msgs[i].final => res'[r].final /\ i = Len(res'[r].msgs)
      <4> SUFFICES ASSUME NEW i \in 1 .. Len(res[r].msgs) + 1
                   PROVE  /\ res'[r].msgs[i].req = <<c, n>>
                          /\ res'[r].msgs[i].final => res'[r].final /\ i = Len(res'[r].msgs)
        BY <1>5, <1>6
      <4>1. CASE i = Len(res[r].msgs) + 1
        BY <1>1, <1>5, <1>6, <3>1, <4>1
      <4>2. CASE i # Len(res[r].msgs) + 1
        <5>1. i \in 1 .. Len(res[r].msgs)
          BY <1>6, <4>2
        <5>2. res'[r].msgs[i] = res[r].msgs[i]
          BY <1>5, <1>6, <5>1
        <5> QED  BY <3>2, <5>1, <5>2
      <4> QED  BY <4>1, <4>2
    <3>4. \A j \in Busy' : j.res = r => j.req = <<c, n>> /\ ~res'[r].final
      BY <1>2, <1>5, <3>1
    <3> QED  BY <2>3, <3>3, <3>4 DEF Speaks
  <2> QED  BY <2>2, <2>3
<1>8. Living'
  BY <1>5 DEF HintInv, Living
<1>9. \A c \in Conns : Held(c)' => Held(c) /\ loop'.held = loop.held /\ (Ending => Ending')
  <2>1. InHand /\ Ending => res'[loop.held] = res[loop.held]
    BY <1>4, <1>5, UsedTyped DEF Ending
  <2> QED  BY <2>1 DEF Held, Ending, InHand
<1>10. \A j \in Busy' : j.res \in InUse(j.req[1])'
  <2>1. \A c \in Conns : InUse(c)' = InUse(c)
    BY DEF InUse, OnList, Held, InHand
  <2>2. \A j \in Busy : j.res \in InUse(j.req[1]) /\ j.req[1] \in Conns
    BY BusyTyped DEF HintInv, JobsPlaced, IInv
  <2> QED  BY <2>1, <2>2
<1>11. \A c \in Conns : conn'[c].list = conn[c].list
  OBVIOUS
<1> QED  BY <1>7, <1>8, <1>9, <1>10, <1>11, HintFrame

LEMMA EvalFinishHints == ASSUME IInv, HintInv, NEW e \in EvalThreads, EvalFinish(e) PROVE HintInv'
<1>1. /\ running[e] # NULL /\ running' = [running EXCEPT ![e] = NULL] /\ UNCHANGED evalq
      /\ res' = [res EXCEPT ![running[e].res] =
                   Push(running[e].res, [req |-> running[e].req, final |-> TRUE])]
      /\ UNCHANGED <<conn, loop, asked, sent, gone>>
  BY DEF EvalFinish
<1>2. PICK job \in Busy : job = running[e]
  BY <1>1 DEF Busy
<1>3. JobInv' /\ \A j \in Busy' : j \in Busy /\ j.res # job.res
  BY <1>1, <1>2, DoneJobs DEF IInv, HintInv, JobsPlaced
<1> QED  BY <1>1, <1>2, <1>3, PushHints

LEMMA EvalEarlyHints == ASSUME IInv, HintInv, NEW e \in EvalThreads, EvalEarly(e) PROVE HintInv'
<1>1. /\ running[e] # NULL /\ running' = [running EXCEPT ![e].early = @ + 1] /\ UNCHANGED evalq
      /\ res' = [res EXCEPT ![running[e].res] =
                   Push(running[e].res, [req |-> running[e].req, final |-> FALSE])]
      /\ UNCHANGED <<conn, loop, asked, sent, gone>>
  BY DEF EvalEarly
<1>2. PICK job \in Busy : job = running[e]
  BY <1>1 DEF Busy
<1>3. PICK new : /\ new = [job EXCEPT !.early = @ + 1]
                 /\ new.res = job.res /\ new.req = job.req /\ new # NULL
  <2>1. running[e] \in Job /\ running[e].early < MaxEarly
    BY <1>1 DEF EvalEarly, IInv, TypeOK
  <2>2. job.early \in 0 .. MaxEarly /\ job.early < MaxEarly /\ job.res \in Ress /\ job.req \in Req
    BY <1>2, <2>1 DEF Job
  <2>3. [job EXCEPT !.early = @ + 1] \in Job
    BY <1>2, <2>1, <2>2, BoundAssumption DEF Job
  <2> QED  BY <1>2, <2>1, <2>3, NullAssumption DEF Job
<1>4. /\ running'[e] = new /\ \A d \in EvalThreads : d # e => running'[d] = running[d]
  BY <1>1, <1>2, <1>3 DEF IInv, TypeOK
<1>5. /\ \A i, j \in Busy : i.res = j.res => i = j
      /\ \A d \in EvalThreads : d # e => running[d] # job
      /\ job \notin Range(evalq) /\ IsInjective(evalq)
  BY <1>1, <1>2 DEF HintInv, JobsPlaced, JobInv
<1>6. \A j \in Busy' : j = new \/ (j \in Busy /\ j # job)
  <2>1. /\ Busy = (Range(evalq) \cup {running[d] : d \in EvalThreads}) \ {NULL}
        /\ Busy' = (Range(evalq') \cup {running'[d] : d \in EvalThreads}) \ {NULL}
    BY DEF Busy, Range
  <2> QED  BY <1>1, <1>4, <1>5, <2>1
<1>7. \A j \in Busy' : j = new \/ (j \in Busy /\ j.res # job.res)
  BY <1>5, <1>6
<1>8. JobInv'
  <2>1. \A d \in EvalThreads : d # e /\ running[d] # NULL => running[d] \in Busy /\ running[d] # new
    <3>1. \A d \in EvalThreads : running[d] # NULL => running[d] \in Busy
      BY DEF Busy
    <3> QED  BY <1>3, <1>5, <3>1
  <2>2. \A d, f \in EvalThreads : running'[d] # NULL /\ running'[d] = running'[f] => d = f
    <3>1. \A d, f \in EvalThreads : running[d] # NULL /\ running[d] = running[f] => d = f
      BY DEF HintInv, JobsPlaced, JobInv
    <3> QED  BY <1>3, <1>4, <2>1, <3>1
  <2>3. new \notin Range(evalq)
    <3>1. Range(evalq) \subseteq Busy
      BY BusyTyped DEF IInv
    <3> QED  BY <1>2, <1>3, <1>5, <3>1
  <2>4. \A d \in EvalThreads : running'[d] \notin Range(evalq')
    <3>1. \A d \in EvalThreads : running[d] \notin Range(evalq)
      BY DEF HintInv, JobsPlaced, JobInv
    <3> QED  BY <1>1, <1>4, <2>3, <3>1
  <2>5. \A i, j \in Busy' : i.res = j.res => i = j
    BY <1>3, <1>5, <1>7
  <2>6. IsInjective(evalq')
    BY <1>1, <1>5
  <2> QED  BY <2>2, <2>4, <2>5, <2>6 DEF JobInv
<1> QED  BY <1>1, <1>2, <1>3, <1>7, <1>8, PushHints

-----------------------------------------------------------------------------
(* The poll events *)

LEMMA PollHints ==
  ASSUME IInv, HintInv, NEW c \in Conns, NEW in \in BOOLEAN, NEW out \in BOOLEAN, NEW hup \in BOOLEAN,
         Poll(c, in, out, hup)
  PROVE  HintInv'
<1>1. /\ loop.at = "idle" /\ ~hup /\ (in \/ out)
      /\ loop' = [Idle EXCEPT !.at = IF in THEN "read" ELSE IF out THEN "write" ELSE "hup",
                              !.con = c, !.out = out, !.hup = hup]
      /\ UNCHANGED <<conn, res, evalv, asked, sent, gone>>
  BY DEF Poll, resv, HintInv, Living
<1>2. loop'.at \in {"read", "write"} /\ ~loop'.hup
  BY <1>1 DEF Idle
<1>3. Living' /\ ~InHand /\ ~InHand'
  BY <1>1, <1>2 DEF HintInv, Living, InHand
<1> QED  BY <1>1, <1>3, HintStays

\* What a connection that is given up would do does not happen.
LEMMA NoneGivenUp ==
  ASSUME Calm, HintInv, IInv
  PROVE  /\ \A c \in Conns : ~Leave(c) /\ \A expired \in BOOLEAN : ~Check(c, expired)
         /\ ~ReadFail /\ ~WriteFail /\ ~HangUp
<1>1. \A c \in Conns : ~gone[c] /\ ~conn[c].dead /\ ~conn[c].closing
  BY DEF HintInv, Living
<1>2. \A c \in Conns : ~Leave(c)
  BY DEF Leave, Calm
<1>3. ASSUME NEW c \in Conns, NEW expired \in BOOLEAN PROVE ~Check(c, expired)
  BY <1>1 DEF Check, Calm
<1>4. ~HangUp
  BY DEF HangUp, HintInv, Living
<1>5. ~ReadFail /\ ~WriteFail
  BY <1>1, AtWork DEF ReadFail, WriteFail
<1> QED  BY <1>2, <1>3, <1>4, <1>5

-----------------------------------------------------------------------------
(* Requests are read *)

LEMMA ReadRequestHints ==
  ASSUME Calm, IInv, HintInv, NEW kind \in Kinds, NEW more \in BOOLEAN, ReadRequest(kind, more)
  PROVE  HintInv'
<1>0. PICK c \in Conns : c = loop.con
  BY AtWork DEF ReadRequest
<1> DEFINE list == conn[c].list
           req == <<c, Len(asked[c]) + 1>>
           new == [Blank(c) EXCEPT !.close = kind.close \/ kind.by = "bad",
                                   !.final = kind.by # "eval",
                                   !.msgs = IF kind.by = "eval" THEN <<>>
                                            ELSE <<[req |-> req, final |-> TRUE]>>]
           job(r) == [req |-> req, res |-> r, early |-> 0]
<1>1. /\ loop.at \in {"read", "more"} /\ MaySend(c) /\ (cache # <<>> \/ made # Ress)
      /\ asked' = [asked EXCEPT ![c] = Append(@, kind)]
      /\ loop' = IF more THEN [loop EXCEPT !.at = "more"] ELSE AfterRead
      /\ UNCHANGED <<running, sent, gone>>
  BY <1>0 DEF ReadRequest
<1>2. PICK r \in Created :
        /\ res' = [res EXCEPT ![r] = new]
        /\ evalq' = IF kind.by # "eval" THEN evalq ELSE Append(evalq, job(r))
        /\ conn' = [conn EXCEPT ![c].list = ResAppend(@, r),
                                ![c].closing = @ \/ (kind.close /\ kind.by # "bad")]
  BY <1>0 DEF ReadRequest
<1>3. /\ ~InHand /\ (\A d \in Conns : ~Held(d) /\ InUse(d) = OnList(d))
      /\ ~kind.close /\ kind.by # "bad"
  BY <1>1 DEF InHand, Held, InUse, Calm
<1>4. r \in Ress /\ \A d \in Conns : r \notin OnList(d)
  BY <1>1, <1>2, <1>3, CreatedIsFresh
<1>5. PICK b \in Nat, y \in Nat :
        /\ Len(list) = y /\ DOMAIN list = 1 .. y /\ Len(asked[c]) = b + y /\ Past(c) = b
  BY PastIs DEF IInv, HintInv
<1>6. list \in Seq(Ress) /\ asked[c] \in Seq(Kinds) /\ conn[c] \in ConType
  BY Sizes, ConTyped DEF IInv
<1>7. /\ conn'[c].list = Append(list, r) /\ conn'[c].dead = conn[c].dead
      /\ conn'[c].closing = conn[c].closing /\ \A d \in Conns : d # c => conn'[d] = conn[d]
  BY <1>2, <1>3, <1>6 DEF IInv, TypeOK, ConType, ResAppend, HintInv, Living
<1>8. /\ Len(Append(list, r)) = y + 1 /\ DOMAIN Append(list, r) = 1 .. y + 1
      /\ Append(list, r)[y + 1] = r /\ \A k \in 1 .. y : Append(list, r)[k] = list[k]
  BY <1>4, <1>5, <1>6, AppendProperties, LenProperties
<1>9. Len(asked'[c]) = b + y + 1 /\ \A d \in Conns : d # c => asked'[d] = asked[d]
  BY <1>1, <1>5, <1>6, AppendProperties DEF IInv, TypeOK
<1>10. (res'[r]) = new /\ \A q \in Ress : q # r => res'[q] = res[q]
  BY <1>2, <1>4 DEF IInv, TypeOK
<1>11. /\ ~new.close /\ (new.final <=> kind.by # "eval")
       /\ new.msgs = <<>> \/ (new.msgs = <<[req |-> req, final |-> TRUE]>> /\ new.final)
  BY <1>3 DEF Blank
<1>12. req = <<c, b + y + 1>> /\ req \in Req /\ job(r) \in Job
  <2>1. Len(asked[c]) + 1 \in 1 .. MaxReqs
    BY <1>1, <1>5, BoundAssumption DEF MaySend
  <2>2. req \in Req
    BY <2>1 DEF Req
  <2>3. 0 \in 0 .. MaxEarly
    BY BoundAssumption
  <2> QED  BY <1>4, <1>5, <2>2, <2>3 DEF Job
<1>13. job(r).res = r /\ job(r).req = req
  OBVIOUS
<1>14. list = conn[c].list
  OBVIOUS
<1> HIDE DEF list, req, new, job
<1>15. \A j \in Busy : j.res # r /\ j.res \in OnList(j.req[1]) /\ j.req[1] \in Conns
  <2>1. \A j \in Busy : j.res \in InUse(j.req[1]) /\ j.req[1] \in Conns
    BY BusyTyped DEF HintInv, JobsPlaced, IInv
  <2> QED  BY <1>3, <1>4, <2>1
<1>16. JobInv' /\ \A j \in Busy' : j \in Busy \/ (j.res = r /\ j.req = req /\ kind.by = "eval")
  <2>1. CASE kind.by # "eval"
    BY <1>1, <1>2, <2>1, JobFrame DEF HintInv, JobsPlaced
  <2>2. CASE kind.by = "eval"
    <3>1. JobInv' /\ Busy' = Busy \cup {job(r)}
      BY <1>1, <1>2, <1>12, <1>13, <1>15, <2>2, NewJob DEF HintInv, JobsPlaced, IInv
    <3> QED  BY <1>13, <2>2, <3>1
  <2> QED  BY <2>1, <2>2
<1>17. /\ loop'.at \in {"idle", "more", "write"} /\ ~loop'.hup
  <2>1. loop \in LoopType /\ ~loop.hup
    BY DEF IInv, TypeOK, HintInv, Living
  <2>2. CASE more
    <3>1. loop' = [loop EXCEPT !.at = "more"]
      BY <1>1, <2>2
    <3> QED  BY <2>1, <3>1 DEF LoopType
  <2>3. CASE ~more
    <3>1. loop' = AfterRead
      BY <1>1, <2>3
    <3> QED  BY <2>1, <3>1 DEF AfterRead, Idle, LoopType
  <2> QED  BY <2>2, <2>3
<1>18. ~InHand' /\ \A d \in Conns : ~Held(d)'
  BY <1>17 DEF InHand, Held
<1>19. Living'
  <2>1. \A d \in Conns : ~gone'[d] /\ ~conn'[d].dead /\ ~conn'[d].closing
    BY <1>1, <1>7 DEF HintInv, Living
  <2>2. \A q \in Ress : ~res'[q].close
    BY <1>10, <1>11 DEF HintInv, Living
  <2> QED  BY <1>17, <2>1, <2>2 DEF Living
<1>20. JobsPlaced'
  <2>1. /\ OnList(c)' = OnList(c) \cup {r} /\ \A d \in Conns : d # c => OnList(d)' = OnList(d)
    BY <1>4, <1>6, <1>7, <1>14, AppendOwns DEF OnList
  <2>2. req[1] = c
    BY <1>12
  <2>3. \A j \in Busy' : j.res \in OnList(j.req[1])'
    BY <1>15, <1>16, <2>1, <2>2
  <2> QED  BY <1>16, <2>3 DEF JobsPlaced, InUse
<1>21. Past(c)' = b /\ \A d \in Conns : d # c => Past(d)' = Past(d)
  <2>1. (b + y + 1) - (y + 1) = b
    OBVIOUS
  <2> QED  BY <1>7, <1>8, <1>9, <2>1 DEF Past
<1>22. Ordered'
  <2> SUFFICES ASSUME NEW d \in Conns
               PROVE  /\ Len(conn'[d].list) <= Len(asked'[d])
                      /\ \A k \in DOMAIN conn'[d].list : Speaks(conn[d].list[k], d, Past(d) + k)'
    BY <1>18 DEF Ordered
  <2>1. Len(conn'[d].list) <= Len(asked'[d])
    <3>1. y + 1 <= b + y + 1
      OBVIOUS
    <3> QED  BY <1>7, <1>8, <1>9, <3>1 DEF HintInv, Ordered
  <2>2. ASSUME NEW k \in DOMAIN conn'[d].list PROVE Speaks(conn[d].list[k], d, Past(d) + k)'
    <3>1. CASE d = c /\ k = y + 1
      <4>1. conn'[d].list[k] = r /\ Past(d)' + k = b + y + 1
        <5>1. b + (y + 1) = b + y + 1
          OBVIOUS
        <5> QED  BY <1>7, <1>8, <1>21, <3>1, <5>1
      <4>2. \A i \in DOMAIN res'[r].msgs :
              res'[r].msgs[i].req = req /\ res'[r].final /\ i = Len(res'[r].msgs)
        <5>1. CASE res'[r].msgs = <<>>
          BY <5>1
        <5>2. CASE res'[r].msgs = <<[req |-> req, final |-> TRUE]>> /\ res'[r].final
          BY <5>2
        <5> QED  BY <1>10, <1>11, <5>1, <5>2
      <4>3. \A j \in Busy' : j.res = r => j.req = req /\ ~res'[r].final
        BY <1>10, <1>11, <1>15, <1>16
      <4> QED  BY <1>12, <3>1, <4>1, <4>2, <4>3 DEF Speaks
    <3>2. CASE ~(d = c /\ k = y + 1)
      <4>1. k \in DOMAIN conn[d].list /\ conn'[d].list[k] = conn[d].list[k] /\ Past(d)' = Past(d)
        <5>1. CASE d = c
          <6>1. k \in 1 .. y + 1 /\ k # y + 1
            BY <1>7, <1>8, <3>2, <5>1
          <6>2. k \in 1 .. y
            BY <6>1
          <6> QED  BY <1>5, <1>7, <1>8, <1>14, <1>21, <5>1, <6>2
        <5>2. CASE d # c
          BY <1>7, <1>21, <5>2
        <5> QED  BY <5>1, <5>2
      <4>2. PICK q \in Ress : q = conn[d].list[k] /\ q \in OnList(d)
        BY <4>1, Sizes DEF IInv
      <4>3. PICK n : n = Past(d) + k
        OBVIOUS
      <4>4. Speaks(q, d, n)
        BY <4>1, <4>2, <4>3 DEF HintInv, Ordered
      <4>5. res'[q] = res[q] /\ \A j \in Busy' : j.res = q => j \in Busy
        BY <1>4, <1>10, <1>16, <4>2
      <4>6. Speaks(q, d, n)'
        BY <4>4, <4>5, SpeaksSame
      <4>7. q = conn'[d].list[k] /\ n = Past(d)' + k
        BY <4>1, <4>2, <4>3
      <4> QED  BY <4>6, <4>7 DEF Speaks
    <3> QED  BY <3>1, <3>2
  <2> QED  BY <2>1, <2>2
<1>23. Told'
  <2> SUFFICES ASSUME NEW d \in Conns, NEW i \in DOMAIN sent[d] PROVE ToldOf(d, sent[d][i])'
    BY <1>1 DEF Told
  <2>1. ToldOf(d, sent[d][i]) /\ Past(d)' = Past(d)
    BY <1>5, <1>21 DEF HintInv, Told
  <2> QED  BY <1>1, <1>18, <2>1 DEF ToldOf
<1>24. HintsInOrder'
  BY <1>1 DEF HintInv, HintsInOrder
<1> QED  BY <1>19, <1>20, <1>22, <1>23, <1>24 DEF HintInv

-----------------------------------------------------------------------------
(* Messages are written *)

LEMMA PieceHints ==
  ASSUME IInv, HintInv, loop.at = "write", NEW c \in Conns,
         conn' = [conn EXCEPT ![c].wcnt = @ + 1], loop' = AfterWrite,
         UNCHANGED <<res, evalv, asked, sent, gone>>
  PROVE  HintInv'
<1>1. \A d \in Conns : /\ conn'[d].list = conn[d].list /\ conn'[d].dead = conn[d].dead
                       /\ conn'[d].closing = conn[d].closing
  <2>1. \A d \in Conns : conn[d] \in ConType
    BY ConTyped DEF IInv
  <2> QED  BY <2>1 DEF IInv, TypeOK, ConType
<1>2. loop'.at = "idle" /\ ~loop'.hup
  BY DEF AfterWrite, Idle, HintInv, Living
<1>3. ~InHand /\ ~InHand'
  BY <1>2 DEF InHand
<1>4. Living'
  BY <1>1, <1>2 DEF HintInv, Living
<1> QED  BY <1>1, <1>3, <1>4, HintStays

\* The head of the list goes to the hand of the loop, its first message to the client.
LEMMA TakeHints == ASSUME IInv, HintInv, WritePiece, loop'.at = "sent" PROVE HintInv'
<1>0. PICK c \in Conns : c = loop.con
  BY AtWork DEF WritePiece
<1> DEFINE list == conn[c].list
<1>a. loop.at = "write" /\ list # <<>> /\ res[Head(list)].msgs # <<>>
  BY <1>0 DEF WritePiece, IInv, LoopInv, Writing
<1>b. PICK r \in Ress : r = Head(list)
  BY <1>a, Sizes, HeadTailProperties DEF IInv
<1>c. /\ conn' = [conn EXCEPT ![c].list = Tail(@)]
      /\ loop' = [loop EXCEPT !.at = "sent", !.held = r]
      /\ sent' = [sent EXCEPT ![c] = Append(@, Head(res[r].msgs))]
      /\ UNCHANGED <<res, evalq, running, asked, gone>>
  <2>1. AfterWrite.at # "sent"
    BY AfterTyped DEF IInv
  <2> QED  BY <1>0, <1>a, <1>b, <2>1 DEF WritePiece, resv, evalv
<1>1. /\ ~InHand /\ \A d \in Conns : ~Held(d) /\ InUse(d) = OnList(d)
  BY <1>a DEF InHand, Held, InUse
<1>2. PICK b \in Nat, z \in Nat :
        /\ Len(list) = z /\ DOMAIN list = 1 .. z /\ Len(asked[c]) = b + z /\ Past(c) = b
  BY PastIs DEF IInv, HintInv
<1>3. /\ list \in Seq(Ress) /\ sent[c] \in Seq(Msg) /\ conn[c] \in ConType /\ z # 0
      /\ Tail(list) \in Seq(Ress) /\ Len(Tail(list)) = z - 1 /\ r = list[1]
      /\ \A k \in 1 .. Len(Tail(list)) : Tail(list)[k] = list[k + 1]
  <2>1. /\ list \in Seq(Ress) /\ sent[c] \in Seq(Msg) /\ conn[c] \in ConType
    BY Sizes, ConTyped DEF IInv
  <2>2. list # <<>> /\ Len(list) # 0
    BY <1>a, <2>1, EmptySeq
  <2>3. /\ Tail(list) \in Seq(Ress) /\ Len(Tail(list)) = Len(list) - 1 /\ Head(list) = list[1]
        /\ \A k \in 1 .. Len(Tail(list)) : Tail(list)[k] = list[k + 1]
    BY <2>1, <2>2, HeadTailProperties
  <2> QED  BY <1>2, <1>b, <2>1, <2>2, <2>3
<1>4. PICK y \in Nat : z = y + 1 /\ Len(Tail(list)) = y /\ DOMAIN Tail(list) = 1 .. y
  <2>1. z - 1 \in Nat /\ z = (z - 1) + 1
    BY <1>3
  <2> QED  BY <1>3, <2>1, LenProperties
<1>5. Speaks(r, c, b + 1)
  <2>1. 1 \in DOMAIN list
    BY <1>2, <1>4
  <2> QED  BY <1>2, <1>3, <2>1 DEF HintInv, Ordered
<1>6. /\ conn'[c].list = Tail(list) /\ conn'[c].dead = conn[c].dead
      /\ conn'[c].closing = conn[c].closing /\ \A d \in Conns : d # c => conn'[d] = conn[d]
  BY <1>3, <1>c DEF IInv, TypeOK, ConType
<1>7. loop'.at = "sent" /\ loop'.held = r /\ loop'.con = c /\ loop'.hup = loop.hup
  <2>1. loop \in LoopType
    BY DEF IInv, TypeOK
  <2> QED  BY <1>0, <1>c, <2>1 DEF LoopType
<1>8. /\ InHand' /\ Held(c)' /\ \A d \in Conns : d # c => ~Held(d)'
  BY <1>7 DEF InHand, Held
<1>9. PICK m \in Msg : /\ m = Head(res[r].msgs) /\ m.req = <<c, b + 1>>
                       /\ m.final => res[r].final /\ Len(res[r].msgs) = 1
  <2>1. res[r].msgs \in Seq(Msg)
    BY DEF IInv, TypeOK, ResType
  <2>2. Head(res[r].msgs) \in Msg /\ Head(res[r].msgs) = res[r].msgs[1]
    BY <1>a, <1>b, <2>1, HeadTailProperties
  <2>3. 1 \in DOMAIN res[r].msgs
    <3>1. Len(res[r].msgs) \in Nat /\ Len(res[r].msgs) # 0
      BY <1>a, <1>b, <2>1, EmptySeq, LenProperties
    <3>2. DOMAIN res[r].msgs = 1 .. Len(res[r].msgs)
      BY <2>1, LenProperties
    <3> QED  BY <3>1, <3>2
  <2> QED  BY <1>5, <2>2, <2>3 DEF Speaks
<1>23. m.req[1] = c /\ m.req[2] = b + 1
  <2>1. <<c, b + 1>>[1] = c /\ <<c, b + 1>>[2] = b + 1
    OBVIOUS
  <2> QED  BY <1>9, <2>1
<1>10. PICK x \in Nat : x = Len(sent[c]) /\ DOMAIN sent[c] = 1 .. x
  BY Sizes DEF IInv
<1>11. /\ DOMAIN sent'[c] = 1 .. x + 1 /\ sent'[c][x + 1] = m
       /\ \A i \in 1 .. x : sent'[c][i] = sent[c][i]
       /\ \A d \in Conns : d # c => sent'[d] = sent[d]
  <2>1. /\ sent'[c] = Append(sent[c], m) /\ \A d \in Conns : d # c => sent'[d] = sent[d]
    BY <1>9, <1>c DEF IInv, TypeOK
  <2>2. /\ Len(Append(sent[c], m)) = x + 1 /\ Append(sent[c], m)[x + 1] = m
        /\ Append(sent[c], m) \in Seq(Msg)
        /\ \A i \in 1 .. x : Append(sent[c], m)[i] = sent[c][i]
    <3>1. sent[c] \in Seq(Msg) /\ m \in Msg
      BY <1>3
    <3> QED  BY <1>10, <3>1, AppendProperties
  <2>3. DOMAIN Append(sent[c], m) = 1 .. x + 1
    BY <2>2, LenProperties
  <2> QED  BY <2>1, <2>2, <2>3
<1>22. \A i \in DOMAIN sent'[c] : i \in 1 .. x \/ i = x + 1
  <2>1. \A i \in 1 .. x + 1 : i \in 1 .. x \/ i = x + 1
    OBVIOUS
  <2> QED  BY <1>11, <2>1
<1>12. list = conn[c].list
  OBVIOUS
<1> HIDE DEF list
<1>13. JobInv' /\ Busy' = Busy
  BY <1>c, JobFrame DEF HintInv, JobsPlaced
<1>14. Past(c)' = b + 1 /\ \A d \in Conns : d # c => Past(d)' = Past(d)
  <2>1. (b + (y + 1)) - y = b + 1
    OBVIOUS
  <2> QED  BY <1>2, <1>4, <1>6, <1>c, <2>1 DEF Past
<1>15. Living'
  BY <1>6, <1>7, <1>c DEF HintInv, Living
<1>16. JobsPlaced'
  <2>1. /\ OnList(c) = OnList(c)' \cup {r} /\ \A d \in Conns : d # c => OnList(d)' = OnList(d)
    <3>1. Range(list) = Range(Tail(list)) \cup {Head(list)}
      BY <1>3, <1>12, <1>a, TailOwns
    <3> QED  BY <1>6, <1>12, <1>b, <3>1 DEF OnList
  <2>2. \A j \in Busy : j.res \in OnList(j.req[1]) /\ j.req[1] \in Conns
    <3>1. \A j \in Busy : j.res \in InUse(j.req[1]) /\ j.req[1] \in Conns
      BY BusyTyped DEF HintInv, JobsPlaced, IInv
    <3> QED  BY <1>1, <3>1
  <2>3. \A j \in Busy : j.res \in InUse(j.req[1])'
    BY <1>7, <1>8, <2>1, <2>2 DEF InUse
  <2> QED  BY <1>13, <2>3 DEF JobsPlaced
<1>17. ASSUME NEW q, NEW d, NEW n, Speaks(q, d, n) PROVE Speaks(q, d, n)'
  BY <1>13, <1>17, <1>c DEF Speaks
<1>18. Ordered'
  <2> SUFFICES ASSUME NEW d \in Conns
               PROVE  /\ Len(conn'[d].list) <= Len(asked'[d])
                      /\ \A k \in DOMAIN conn'[d].list : Speaks(conn[d].list[k], d, Past(d) + k)'
                      /\ Held(d)' => Len(conn'[d].list) < Len(asked'[d]) /\ Speaks(loop.held, d, Past(d))'
    BY DEF Ordered
  <2>1. CASE d # c
    <3>1. conn'[d] = conn[d] /\ Past(d)' = Past(d) /\ ~Held(d)' /\ asked' = asked
      BY <1>6, <1>8, <1>14, <1>c, <2>1
    <3>2. ASSUME NEW k \in DOMAIN conn'[d].list PROVE Speaks(conn[d].list[k], d, Past(d) + k)'
      <4>1. PICK q, n : q = conn[d].list[k] /\ n = Past(d) + k
        OBVIOUS
      <4>2. Speaks(q, d, n)
        BY <3>1, <3>2, <4>1 DEF HintInv, Ordered
      <4>3. Speaks(q, d, n)'
        BY <1>17, <4>2
      <4>4. q = conn'[d].list[k] /\ n = Past(d)' + k
        BY <3>1, <4>1
      <4> QED  BY <4>3, <4>4 DEF Speaks
    <3> QED  BY <3>1, <3>2 DEF HintInv, Ordered
  <2>2. CASE d = c
    <3>1. /\ Len(conn'[c].list) = y /\ Len(asked'[c]) = b + (y + 1) /\ y < b + (y + 1) /\ y <= b + (y + 1)
      BY <1>2, <1>4, <1>6, <1>c
    <3>2. Speaks(loop.held, c, Past(c))'
      <4>1. PICK n : n = b + 1
        OBVIOUS
      <4>2. Speaks(r, c, n)'
        BY <1>5, <1>17, <4>1
      <4>3. r = loop'.held /\ n = Past(c)'
        BY <1>7, <1>14, <4>1
      <4> QED  BY <4>2, <4>3 DEF Speaks
    <3>3. ASSUME NEW k \in DOMAIN conn'[c].list PROVE Speaks(conn[c].list[k], c, Past(c) + k)'
      <4>0. k \in 1 .. y
        BY <1>4, <1>6, <3>3 DEF list
      <4>1. k + 1 \in 1 .. y + 1 /\ b + (k + 1) = (b + 1) + k
        BY <4>0
      <4>2. /\ k + 1 \in DOMAIN conn[c].list /\ conn'[c].list[k] = conn[c].list[k + 1]
            /\ Past(c) + (k + 1) = Past(c)' + k
        BY <1>2, <1>3, <1>4, <1>6, <1>12, <1>14, <4>0, <4>1
      <4>3. PICK q, n : q = conn[c].list[k + 1] /\ n = Past(c) + (k + 1)
        OBVIOUS
      <4>4. Speaks(q, c, n)
        BY <4>2, <4>3 DEF HintInv, Ordered
      <4>5. Speaks(q, c, n)'
        BY <1>17, <4>4
      <4>6. q = conn'[c].list[k] /\ n = Past(c)' + k
        BY <4>2, <4>3
      <4> QED  BY <4>5, <4>6 DEF Speaks
    <3> QED  BY <2>2, <3>1, <3>2, <3>3
  <2> QED  BY <2>1, <2>2
<1>19. \A i \in 1 .. x : /\ sent[c][i].req[1] = c /\ sent[c][i].req \in Conns \X Nat
                         /\ \/ sent[c][i].req[2] <= b
                            \/ sent[c][i].req[2] = b + 1 /\ ~sent[c][i].final
  <2> SUFFICES ASSUME NEW i \in 1 .. x
               PROVE  /\ sent[c][i].req[1] = c /\ sent[c][i].req \in Conns \X Nat
                      /\ \/ sent[c][i].req[2] <= b
                         \/ sent[c][i].req[2] = b + 1 /\ ~sent[c][i].final
    OBVIOUS
  <2>1. ToldOf(c, sent[c][i]) /\ sent[c][i] \in Msg
    BY <1>3, <1>10, ElementOfSeq DEF HintInv, Told
  <2>2. sent[c][i].req \in Conns \X Nat
    BY <2>1, BoundAssumption DEF Msg, Req
  <2> QED  BY <1>1, <1>2, <2>1, <2>2 DEF ToldOf
<1>20. Told'
  <2> SUFFICES ASSUME NEW d \in Conns, NEW i \in DOMAIN sent'[d] PROVE ToldOf(d, sent[d][i])'
    BY DEF Told
  <2>1. CASE d # c
    <3>1. ToldOf(d, sent[d][i]) /\ sent'[d][i] = sent[d][i] /\ Past(d)' = Past(d) /\ ~Held(d) /\ ~Held(d)'
      BY <1>1, <1>8, <1>11, <1>14, <2>1 DEF HintInv, Told
    <3> QED  BY <3>1 DEF ToldOf
  <2>2. CASE d = c /\ i = x + 1
    <3>1. sent'[c][i] = m /\ m.req[1] = c /\ m.req[2] = b + 1
      BY <1>11, <1>23, <2>2
    <3>2. m.final => Ending'
      BY <1>7, <1>9, <1>c DEF Ending
    <3>3. m.req[2] <= Past(c)'
      BY <1>14, <3>1
    <3> QED  BY <2>2, <3>1, <3>2, <3>3 DEF ToldOf
  <2>3. CASE d = c /\ i # x + 1
    <3>1. i \in 1 .. x
      BY <1>11, <2>3
    <3>2. sent'[c][i] = sent[c][i]
      BY <1>11, <3>1
    <3>3. PICK a \in Nat : a = sent[c][i].req[2] /\ (a <= b \/ (a = b + 1 /\ ~sent[c][i].final))
      BY <1>19, <3>1
    <3>4. a <= b + 1 /\ (a = b + 1 => ~sent[c][i].final)
      BY <3>3
    <3> QED  BY <1>14, <1>19, <2>3, <3>1, <3>2, <3>3, <3>4 DEF ToldOf
  <2> QED  BY <2>1, <2>2, <2>3
<1>21. HintsInOrder'
  <2> SUFFICES ASSUME NEW d \in Conns, NEW i \in DOMAIN sent'[d], NEW j \in DOMAIN sent'[d]
               PROVE  /\ sent'[d][i].req[1] = d
                      /\ i < j => \/ sent'[d][i].req[2] < sent'[d][j].req[2]
                                  \/ sent'[d][i].req = sent'[d][j].req /\ ~sent'[d][i].final
    BY DEF HintsInOrder
  <2>1. CASE d # c
    BY <1>11, <2>1 DEF HintInv, HintsInOrder
  <2>2. CASE d = c
    <3>1. sent'[c][i].req[1] = c
      <4>1. CASE i \in 1 .. x
        BY <1>11, <1>19, <4>1
      <4>2. CASE i = x + 1
        BY <1>11, <1>23, <4>2
      <4> QED  BY <1>22, <2>2, <4>1, <4>2
    <3>2. ASSUME i < j
          PROVE  \/ sent'[c][i].req[2] < sent'[c][j].req[2]
                 \/ sent'[c][i].req = sent'[c][j].req /\ ~sent'[c][i].final
      <4>1. i \in 1 .. x /\ (j \in 1 .. x \/ j = x + 1)
        <5>1. (i \in 1 .. x \/ i = x + 1) /\ (j \in 1 .. x \/ j = x + 1)
          BY <1>22, <2>2
        <5> QED  BY <3>2, <5>1
      <4>2. CASE j \in 1 .. x
        <5>1. sent'[c][i] = sent[c][i] /\ sent'[c][j] = sent[c][j]
          BY <1>11, <4>1, <4>2
        <5>2. i \in DOMAIN sent[c] /\ j \in DOMAIN sent[c]
          BY <1>10, <4>1, <4>2
        <5>3. \/ sent[c][i].req[2] < sent[c][j].req[2]
              \/ sent[c][i].req = sent[c][j].req /\ ~sent[c][i].final
          BY <3>2, <5>2 DEF HintInv, HintsInOrder
        <5> QED  BY <5>1, <5>3
      <4>3. CASE j = x + 1
        <5>4. sent'[c][j] = m /\ sent'[c][i] = sent[c][i]
          BY <1>11, <4>1, <4>3
        <5>1. sent'[c][j].req = <<c, b + 1>> /\ sent'[c][j].req[2] = b + 1 /\ sent'[c][i] = sent[c][i]
          BY <1>9, <1>23, <5>4
        <5>2. PICK a \in Nat : /\ sent[c][i].req = <<c, a>> /\ a = sent[c][i].req[2]
                               /\ a <= b \/ (a = b + 1 /\ ~sent[c][i].final)
          BY <1>19, <4>1
        <5>3. a < b + 1 \/ (a = b + 1 /\ ~sent[c][i].final)
          BY <5>2
        <5> QED  BY <5>1, <5>2, <5>3
      <4> QED  BY <4>1, <4>2, <4>3
    <3> QED  BY <2>2, <3>1, <3>2
  <2> QED  BY <2>1, <2>2
<1> QED  BY <1>15, <1>16, <1>18, <1>20, <1>21 DEF HintInv

LEMMA WritePieceHints == ASSUME IInv, HintInv, WritePiece PROVE HintInv'
<1>0. PICK c \in Conns : c = loop.con
  BY AtWork DEF WritePiece
<1>1. /\ loop.at = "write" /\ conn[c].list # <<>> /\ res[Head(conn[c].list)].msgs # <<>>
      /\ UNCHANGED <<res, evalv, asked, gone>>
  BY <1>0 DEF WritePiece, resv, evalv, IInv, LoopInv, Writing
<1>2. \/ conn' = [conn EXCEPT ![c].wcnt = @ + 1] /\ loop' = AfterWrite /\ UNCHANGED sent
      \/ loop' = [loop EXCEPT !.at = "sent", !.held = Head(conn[c].list)]
  BY <1>0, <1>1 DEF WritePiece
<1>3. [loop EXCEPT !.at = "sent", !.held = Head(conn[c].list)].at = "sent"
  BY DEF IInv, TypeOK, LoopType
<1> QED  BY <1>1, <1>2, <1>3, PieceHints, TakeHints

LEMMA MessageNextHints == ASSUME IInv, HintInv, MessageNext PROVE HintInv'
<1>0. PICK c \in Conns : c = loop.con
  BY AtWork DEF MessageNext
<1>1. loop.at = "sent" /\ InHand /\ Held(c) /\ \A d \in Conns : d # c => ~Held(d)
  BY <1>0 DEF MessageNext, InHand, Held
<1>2. PICK r \in Ress : r = loop.held /\ res[r].msgs # <<>>
  BY <1>1, UsedTyped, <1>0 DEF IInv, LoopInv
<1>3. /\ res' = [res EXCEPT ![r].msgs = Tail(@)]
      /\ loop' = [loop EXCEPT !.at = "finished", !.more = Len(res[r].msgs) > 1]
      /\ conn' = [conn EXCEPT ![c].wcnt = 0]
      /\ UNCHANGED <<evalv, asked, sent, gone>>
  BY <1>0, <1>2 DEF MessageNext
<1>4. \A d \in Conns : /\ conn'[d].dead = conn[d].dead /\ conn'[d].list = conn[d].list
                       /\ conn'[d].closing = conn[d].closing
  <2>1. \A d \in Conns : conn[d] \in ConType
    BY ConTyped DEF IInv
  <2> QED  BY <1>3, <2>1 DEF IInv, TypeOK, ConType
<1>5. /\ \A q \in Ress : q # r => res'[q] = res[q]
      /\ res'[r].msgs = Tail(res[r].msgs)
      /\ res'[r].final = res[r].final /\ res'[r].close = res[r].close
  <2>1. res[r] \in ResType /\ res' = [res EXCEPT ![r] = [res[r] EXCEPT !.msgs = Tail(@)]]
    BY <1>3 DEF IInv, TypeOK
  <2>2. res'[r] = [res[r] EXCEPT !.msgs = Tail(@)] /\ \A q \in Ress : q # r => res'[q] = res[q]
    BY <2>1 DEF IInv, TypeOK
  <2>3. LET x == [res[r] EXCEPT !.msgs = Tail(@)]
        IN x.msgs = Tail(res[r].msgs) /\ x.final = res[r].final /\ x.close = res[r].close
    BY <2>1 DEF ResType
  <2> QED  BY <2>2, <2>3
<1>6. /\ loop'.at = "finished" /\ loop'.held = r /\ loop'.con = c /\ loop'.hup = loop.hup
      /\ (loop'.more <=> Len(res[r].msgs) > 1)
  <2>1. loop \in LoopType
    BY DEF IInv, TypeOK
  <2> QED  BY <1>0, <1>2, <1>3, <2>1 DEF LoopType
<1>7. InHand' /\ \A d \in Conns : Held(d)' <=> Held(d)
  BY <1>0, <1>1, <1>6 DEF InHand, Held
<1>8. JobInv' /\ Busy' = Busy
  BY <1>3, JobFrame DEF HintInv, JobsPlaced, evalv
<1>9. Living'
  <2>1. \A q \in Ress : ~res'[q].close
    BY <1>5 DEF HintInv, Living
  <2> QED  BY <1>3, <1>4, <1>6, <2>1 DEF HintInv, Living
<1>10. Ending => Ending'
  <2>1. ASSUME Len(res[r].msgs) = 1 PROVE ~(Len(res[r].msgs) > 1)
    BY <2>1
  <2> QED  BY <1>1, <1>2, <1>5, <1>6, <2>1 DEF Ending
<1>11. \A j \in Busy' : j.res \in InUse(j.req[1])'
  <2>1. \A d \in Conns : InUse(d)' = InUse(d)
    BY <1>2, <1>4, <1>6, <1>7 DEF InUse, OnList
  <2>2. \A j \in Busy : j.res \in InUse(j.req[1]) /\ j.req[1] \in Conns
    BY BusyTyped DEF HintInv, JobsPlaced, IInv
  <2> QED  BY <1>8, <2>1, <2>2
<1>12. ASSUME NEW d \in Conns, NEW q \in InUse(d), NEW n \in Nat, Speaks(q, d, n)
       PROVE  Speaks(q, d, n)'
  <2>1. q \in Ress
    BY UsedTyped
  <2>2. CASE q # r
    <3>1. res'[q] = res[q]
      BY <1>5, <2>1, <2>2
    <3> QED  BY <1>8, <1>12, <3>1, SpeaksSame
  <2>3. CASE q = r
    <3>1. /\ res[r].msgs \in Seq(Msg)
          /\ DOMAIN res[r].msgs = 1 .. Len(res[r].msgs) /\ Len(res[r].msgs) \in Nat
          /\ Len(Tail(res[r].msgs)) = Len(res[r].msgs) - 1
          /\ DOMAIN Tail(res[r].msgs) = 1 .. Len(Tail(res[r].msgs))
          /\ Len(Tail(res[r].msgs)) \in Nat
          /\ \A i \in 1 .. Len(Tail(res[r].msgs)) : Tail(res[r].msgs)[i] = res[r].msgs[i + 1]
      <4>1. res[r].msgs \in Seq(Msg)
        BY DEF IInv, TypeOK, ResType
      <4>2. Tail(res[r].msgs) \in Seq(Msg)
        BY <1>2, <4>1, HeadTailProperties
      <4> QED  BY <1>2, <4>1, <4>2, HeadTailProperties, LenProperties
    <3>2. PICK x \in Nat : Len(res[r].msgs) = x + 1 /\ Len(Tail(res[r].msgs)) = x
      <4>1. \A a, b \in Nat : b = a - 1 => a = b + 1
        OBVIOUS
      <4> QED  BY <3>1, <4>1
    <3>3. \A i \in 1 .. x + 1 :
            /\ res[r].msgs[i].req = <<d, n>>
            /\ res[r].msgs[i].final => res[r].final /\ i = x + 1
      BY <1>12, <2>3, <3>1, <3>2 DEF Speaks
    <3>4. ASSUME NEW i \in 1 .. x
          PROVE  /\ res'[r].msgs[i].req = <<d, n>>
                 /\ res'[r].msgs[i].final => res'[r].final /\ i = x
      <4>1. i + 1 \in 1 .. x + 1 /\ (i + 1 = x + 1 => i = x)
        BY <3>4
      <4>2. res'[r].msgs[i] = res[r].msgs[i + 1]
        BY <1>5, <3>1, <3>2
      <4> QED  BY <1>5, <3>3, <4>1, <4>2
    <3>5. DOMAIN res'[r].msgs = 1 .. x /\ Len(res'[r].msgs) = x
      BY <1>5, <3>1, <3>2
    <3>6. \A j \in Busy' : j.res = r => j.req = <<d, n>> /\ ~res'[r].final
      BY <1>5, <1>8, <1>12, <2>3 DEF Speaks
    <3> QED  BY <2>3, <3>4, <3>5, <3>6 DEF Speaks
  <2> QED  BY <2>2, <2>3
<1>13. \A d \in Conns : Held(d)' => Held(d) /\ loop'.held = loop.held /\ (Ending => Ending')
  BY <1>2, <1>6, <1>7, <1>10
<1> QED  BY <1>3, <1>4, <1>8, <1>9, <1>11, <1>12, <1>13, HintFrame

\* The response is done, and no handler works on it any more.
LEMMA DestroyHints ==
  ASSUME IInv, HintInv, loop.at = "finished", NEW c \in Conns, c = loop.con,
         NEW r \in Ress, r = loop.held, res[r].final,
         Destroy(<<r>>), loop'.at = "idle", ~loop'.hup,
         UNCHANGED <<conn, evalv, asked, sent, gone>>
  PROVE  HintInv'
<1>1. InHand /\ Held(c) /\ ~InHand' /\ \A d \in Conns : ~Held(d)'
  BY DEF InHand, Held
<1>2. PICK b \in Nat : Past(c) = b
  BY PastIs DEF IInv, HintInv
<1>3. \A j \in Busy : j.res # r
  <2>1. Speaks(r, c, b)
    BY <1>1, <1>2 DEF HintInv, Ordered
  <2> QED  BY <2>1 DEF Speaks
<1>4. /\ \A q \in Ress : q # r => res'[q] = res[q]
      /\ \A q \in Ress : res'[q].close = res[q].close
  <2>1. Range(<<r>>) = {r}
    BY DEF Range
  <2>2. \A q \in Ress : res[q] \in ResType
    BY DEF IInv, TypeOK
  <2>3. \A q \in Ress : [res[q] EXCEPT !.msgs = <<>>].close = res[q].close
    BY <2>2 DEF ResType
  <2> QED  BY <2>1, <2>3 DEF Destroy
<1>5. JobInv' /\ Busy' = Busy
  BY JobFrame DEF HintInv, JobsPlaced, evalv
<1>6. Living'
  BY <1>4 DEF HintInv, Living
<1>7. \A j \in Busy' : j.res \in InUse(j.req[1])'
  <2>1. \A d \in Conns : InUse(d) \subseteq InUse(d)' \cup {r}
    BY DEF InUse, OnList
  <2>2. \A j \in Busy : j.res \in InUse(j.req[1]) /\ j.req[1] \in Conns
    BY BusyTyped DEF HintInv, JobsPlaced, IInv
  <2> QED  BY <1>3, <1>5, <2>1, <2>2
<1>8. ASSUME NEW d \in Conns PROVE Past(d)' = Past(d)
  BY DEF Past
<1>9. Ordered'
  <2> SUFFICES ASSUME NEW d \in Conns
               PROVE  /\ Len(conn'[d].list) <= Len(asked'[d])
                      /\ \A k \in DOMAIN conn'[d].list : Speaks(conn[d].list[k], d, Past(d) + k)'
    BY <1>1 DEF Ordered
  <2>1. ASSUME NEW k \in DOMAIN conn'[d].list PROVE Speaks(conn[d].list[k], d, Past(d) + k)'
    <3>1. PICK q, n : q \in OnList(d) /\ q = conn[d].list[k] /\ n = Past(d) + k
      BY <2>1, Sizes DEF IInv
    <3>2. Speaks(q, d, n)
      BY <2>1, <3>1 DEF HintInv, Ordered
    <3>3. q # r /\ q \in Ress
      <4>1. r \notin OnList(d)
        BY <1>1 DEF IInv, Places
      <4> QED  BY <3>1, <4>1, ConTyped DEF IInv
    <3>4. Speaks(q, d, n)'
      BY <1>4, <1>5, <3>2, <3>3, SpeaksSame
    <3>5. q = conn'[d].list[k] /\ n = Past(d)' + k
      BY <1>8, <3>1
    <3> QED  BY <3>4, <3>5 DEF Speaks
  <2> QED  BY <2>1 DEF HintInv, Ordered
<1>10. Told' /\ HintsInOrder'
  <2>1. ASSUME NEW d \in Conns, NEW i \in DOMAIN sent'[d] PROVE ToldOf(d, sent[d][i])'
    <3>1. ToldOf(d, sent[d][i]) /\ Past(d)' = Past(d) /\ ~Held(d)'
      BY <1>1, <1>8, <2>1 DEF HintInv, Told
    <3> QED  BY <3>1 DEF ToldOf
  <2> QED  BY <2>1 DEF Told, HintInv, HintsInOrder
<1> QED  BY <1>5, <1>6, <1>7, <1>9, <1>10 DEF HintInv, JobsPlaced

\* The response is to say more, and goes back to the head of its list.
LEMMA PutBackHints ==
  ASSUME IInv, HintInv, Finished, loop.more \/ ~res[loop.held].final
  PROVE  HintInv'
<1>0. PICK c \in Conns : c = loop.con
  BY AtWork DEF Finished
<1>a. PICK r \in Ress : r = loop.held /\ loop.at = "finished"
  BY <1>0, UsedTyped DEF Finished, InHand
<1>b. /\ conn' = [conn EXCEPT ![c].list = <<r>> \o @] /\ loop' = AfterWrite
      /\ UNCHANGED <<res, evalq, running, asked, sent, gone>>
  BY <1>0, <1>a DEF Finished, evalv
<1>c. loop'.at = "idle" /\ ~loop'.hup
  BY <1>b DEF HintInv, Living, AfterWrite, Idle
<1> DEFINE list == conn[c].list
           back == <<r>> \o list
<1>1. InHand /\ Held(c) /\ ~InHand' /\ \A d \in Conns : ~Held(d)' /\ (d # c => ~Held(d))
  BY <1>0, <1>a, <1>c DEF InHand, Held
<1>2. PICK b \in Nat, y \in Nat :
        /\ Len(list) = y /\ DOMAIN list = 1 .. y /\ Len(asked[c]) = b + y /\ Past(c) = b
  BY PastIs DEF IInv, HintInv
<1>3. Speaks(r, c, b) /\ b # 0
  <2>1. y < b + y /\ Speaks(r, c, b)
    BY <1>1, <1>2, <1>a DEF HintInv, Ordered
  <2> QED  BY <2>1
<1>4. PICK a \in Nat : b = a + 1
  <2>1. b - 1 \in Nat /\ b = (b - 1) + 1
    BY <1>3
  <2> QED  BY <2>1
<1>5. /\ list \in Seq(Ress) /\ Len(back) = y + 1 /\ DOMAIN back = 1 .. y + 1 /\ back[1] = r
      /\ \A k \in 2 .. y + 1 : back[k] = list[k - 1]
      /\ Range(back) = Range(list) \cup {r}
  <2>1. list \in Seq(Ress) /\ conn[c] \in ConType
    BY Sizes, ConTyped DEF IInv
  <2>2. back \in Seq(Ress) /\ Range(back) = Range(list) \cup {r}
    BY <2>1, PushOwns
  <2>3. /\ Len(back) = Len(list) + 1 /\ back[1] = r
        /\ \A k \in 2 .. Len(list) + 1 : back[k] = list[k - 1]
    BY <2>1
  <2> HIDE DEF back, list
  <2> QED  BY <1>2, <2>1, <2>2, <2>3, LenProperties
<1>6. /\ conn'[c].list = back /\ conn'[c].dead = conn[c].dead
      /\ conn'[c].closing = conn[c].closing /\ \A d \in Conns : d # c => conn'[d] = conn[d]
  <2>1. conn[c] \in ConType
    BY ConTyped DEF IInv
  <2> QED  BY <1>b, <2>1 DEF IInv, TypeOK, ConType
<1>7. list = conn[c].list
  OBVIOUS
<1> HIDE DEF list, back
<1>8. JobInv' /\ Busy' = Busy
  BY <1>b, JobFrame DEF HintInv, JobsPlaced
<1>9. Past(c)' = a /\ \A d \in Conns : d # c => Past(d)' = Past(d)
  <2>1. ((a + 1) + y) - (y + 1) = a
    OBVIOUS
  <2>2. Len(conn'[c].list) = y + 1 /\ Len(asked'[c]) = (a + 1) + y
    BY <1>2, <1>4, <1>5, <1>6, <1>b
  <2> QED  BY <1>6, <1>b, <2>1, <2>2 DEF Past
<1>10. Living'
  BY <1>6, <1>b, <1>c DEF HintInv, Living
<1>11. JobsPlaced'
  <2>1. \A d \in Conns : InUse(d) \subseteq OnList(d)'
    BY <1>1, <1>5, <1>6, <1>7, <1>a DEF InUse, OnList
  <2>2. \A j \in Busy : j.res \in InUse(j.req[1]) /\ j.req[1] \in Conns
    BY BusyTyped DEF HintInv, JobsPlaced, IInv
  <2>3. \A j \in Busy : j.res \in OnList(j.req[1])'
    BY <2>1, <2>2
  <2> QED  BY <1>8, <2>3 DEF JobsPlaced, InUse
<1>12. ASSUME NEW q, NEW d, NEW n, Speaks(q, d, n) PROVE Speaks(q, d, n)'
  BY <1>8, <1>12, <1>b DEF Speaks
<1>13. Ordered'
  <2> SUFFICES ASSUME NEW d \in Conns
               PROVE  /\ Len(conn'[d].list) <= Len(asked'[d])
                      /\ \A k \in DOMAIN conn'[d].list : Speaks(conn[d].list[k], d, Past(d) + k)'
    BY <1>1 DEF Ordered
  <2>1. Len(conn'[d].list) <= Len(asked'[d])
    <3>1. y + 1 <= (a + 1) + y
      OBVIOUS
    <3>2. CASE d = c
      BY <1>2, <1>4, <1>5, <1>6, <1>b, <3>1, <3>2
    <3>3. CASE d # c
      BY <1>6, <1>b, <3>3 DEF HintInv, Ordered
    <3> QED  BY <3>2, <3>3
  <2>2. ASSUME NEW k \in DOMAIN conn'[d].list
        PROVE  \E q, n : /\ Speaks(q, d, n) /\ q = conn'[d].list[k] /\ n = Past(d)' + k
    <3>1. CASE d # c
      BY <1>6, <1>9, <2>2, <3>1 DEF HintInv, Ordered
    <3>2. CASE d = c /\ k = 1
      BY <1>3, <1>4, <1>5, <1>6, <1>9, <3>2
    <3>3. CASE d = c /\ k # 1
      <4>1. k \in 1 .. y + 1
        BY <1>5, <1>6, <2>2, <3>3
      <4>2. k \in 2 .. y + 1 /\ k - 1 \in 1 .. y /\ (a + 1) + (k - 1) = a + k
        BY <3>3, <4>1
      <4>3. Speaks(list[k - 1], c, Past(c) + (k - 1))
        BY <1>2, <1>7, <4>2 DEF HintInv, Ordered
      <4>4. conn'[c].list[k] = list[k - 1] /\ Past(c) + (k - 1) = Past(c)' + k
        BY <1>2, <1>4, <1>5, <1>6, <1>9, <4>2
      <4> QED  BY <3>3, <4>3, <4>4
    <3> QED  BY <3>1, <3>2, <3>3
  <2>3. ASSUME NEW k \in DOMAIN conn'[d].list PROVE Speaks(conn[d].list[k], d, Past(d) + k)'
    <3>1. PICK q, n : /\ Speaks(q, d, n) /\ q = conn'[d].list[k] /\ n = Past(d)' + k
      BY <2>2, <2>3
    <3>2. Speaks(q, d, n)'
      BY <1>12, <3>1
    <3> QED  BY <3>1, <3>2 DEF Speaks
  <2> QED  BY <2>1, <2>3
<1>14. Told'
  <2> SUFFICES ASSUME NEW d \in Conns, NEW i \in DOMAIN sent[d] PROVE ToldOf(d, sent[d][i])'
    BY <1>b DEF Told
  <2>1. ToldOf(d, sent[d][i])
    BY DEF HintInv, Told
  <2>2. CASE d # c
    BY <1>1, <1>9, <1>b, <2>1, <2>2 DEF ToldOf
  <2>3. CASE d = c
    <3>1. PICK o \in Nat : o = sent[c][i].req[2]
      <4>1. sent[c][i] \in Msg
        BY <2>3, Sizes, ElementOfSeq DEF IInv
      <4> QED  BY <4>1, BoundAssumption DEF Msg, Req
    <3>0. ~Ending
      BY <1>a DEF Ending
    <3>2. o <= a + 1 /\ (o = a + 1 => ~sent[c][i].final)
      BY <3>0, <1>1, <1>2, <1>4, <2>1, <2>3, <3>1 DEF ToldOf
    <3>3. o <= a \/ (o = a + 1 /\ ~sent[c][i].final)
      BY <3>2
    <3> QED  BY <1>1, <1>9, <1>b, <2>1, <2>3, <3>1, <3>3 DEF ToldOf
  <2> QED  BY <2>2, <2>3
<1>15. HintsInOrder'
  BY <1>b DEF HintInv, HintsInOrder
<1> QED  BY <1>10, <1>11, <1>13, <1>14, <1>15 DEF HintInv

LEMMA FinishedHints == ASSUME IInv, HintInv, Finished PROVE HintInv'
<1>0. PICK c \in Conns : c = loop.con
  BY AtWork DEF Finished
<1>1. loop.at = "finished" /\ InHand
  BY DEF Finished, InHand
<1>2. PICK r \in Ress : r = loop.held
  BY <1>0, <1>1, UsedTyped
<1>3. ~res[r].close /\ AfterWrite.at = "idle" /\ ~AfterWrite.hup
  BY DEF HintInv, Living, AfterWrite, Idle
<1>4. CASE ~loop.more /\ res[r].final
  <2>1. Destroy(<<r>>) /\ loop' = AfterWrite /\ UNCHANGED <<conn, evalv, asked, sent, gone>>
    BY <1>0, <1>2, <1>3, <1>4 DEF Finished
  <2> QED  BY <1>0, <1>1, <1>2, <1>3, <1>4, <2>1, DestroyHints
<1>5. CASE loop.more \/ ~res[r].final
  BY <1>2, <1>5, PutBackHints
<1> QED  BY <1>4, <1>5

-----------------------------------------------------------------------------
(* The theorems *)

LEMMA NextHints == ASSUME Calm PROVE IInv /\ HintInv /\ [Next]_vars => HintInv'
<1> SUFFICES ASSUME IInv, HintInv, [Next]_vars PROVE HintInv'
  OBVIOUS
<1>1. CASE UNCHANGED vars
  <2>1. UNCHANGED <<conn, res, evalv, loop, asked, sent, gone>>
    BY <1>1 DEF vars, resv
  <2>2. Living'
    BY <2>1 DEF HintInv, Living
  <2>3. InHand' <=> InHand
    BY <2>1 DEF InHand
  <2> QED  BY <2>1, <2>2, <2>3, HintStays
<1>2. CASE \E e \in EvalThreads : EvalStep(e) \/ EvalEarly(e)
  BY <1>2, EvalTakeHints, EvalFinishHints, EvalEarlyHints DEF EvalStep
<1>3. CASE \E c \in Conns : \/ Leave(c)
                            \/ \E in, out, hup \in BOOLEAN : Poll(c, in, out, hup)
                            \/ \E expired \in BOOLEAN : Check(c, expired)
  BY <1>3, PollHints, NoneGivenUp
<1>4. CASE \E kind \in Kinds, more \in BOOLEAN : ReadRequest(kind, more)
  BY <1>4, ReadRequestHints
<1>5. CASE ReadFail \/ WritePiece \/ WriteFail \/ MessageNext \/ Finished \/ HangUp
  BY <1>5, WritePieceHints, MessageNextHints, FinishedHints, NoneGivenUp
<1> QED  BY <1>1, <1>2, <1>3, <1>4, <1>5 DEF Next, Dispatch

LEMMA HintInvariance == ASSUME Calm PROVE Spec => [](IInv /\ HintInv)
<1>1. Init => HintInv
  BY InitHints
<1>2. IInv /\ HintInv /\ [Next]_vars => HintInv'
  BY NextHints
<1> QED  BY <1>1, <1>2, Invariance, PTL DEF Spec

\* While connections stay, a client gets the hints of a request before its answer,
\* both after all that was sent for earlier requests and nothing of another
\* client's, whichever way the handlers race the loop (res.c:84-110, con.c:691-703).
THEOREM HintsBeforeAnswers == ASSUME Calm PROVE Spec => []HintsInOrder
<1>1. HintInv => HintsInOrder
  BY DEF HintInv
<1> QED  BY <1>1, HintInvariance, PTL

\* While connections stay, a response that returned to the cache is not one that a
\* handler still fills in, though with hints a response is written, and put back on
\* its list, while its handler works (con.c:691-703, res.c:42-59).
THEOREM RecycledUnderHints == ASSUME Calm PROVE Spec => []SafeRecycle
<1>1. IInv /\ HintInv => SafeRecycle
  <2> SUFFICES ASSUME IInv, HintInv, NEW r \in Range(cache), NEW j \in Busy, j.res = r
               PROVE  FALSE
    BY DEF SafeRecycle
  <2>1. j.req[1] \in Conns /\ r \in InUse(j.req[1])
    BY BusyTyped DEF HintInv, JobsPlaced, IInv
  <2>2. r \notin OnList(j.req[1]) /\ (InHand => r # loop.held)
    BY <2>1 DEF IInv, Places
  <2> QED  BY <2>1, <2>2 DEF InUse, Held
<1> QED  BY <1>1, HintInvariance, PTL
=============================================================================
