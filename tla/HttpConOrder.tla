---------------------------- MODULE HttpConOrder ----------------------------
(***************************************************************************)
(* The order of the answers, for any number of connections, responses,     *)
(* threads and requests that are Plain.  Time-outs may pass: a closing     *)
(* connection that times out drops the answers that are ready, and goes on *)
(* with those that are not (con.c:1158), so answers may be missing; but    *)
(* none is late, none is doubled, none goes to another client, and none    *)
(* follows the one that closes.  Without time-outs none is missing.        *)
(***************************************************************************)
EXTENDS HttpConProofs, FiniteSetTheorems

-----------------------------------------------------------------------------
(* The inductive invariant *)

\* Whether the n-th request of c is answered with "Connection: Close"
Closing(c, n) == asked[c][n].close \/ asked[c][n].by = "bad"

Held(c) == InHand /\ loop.con = c

\* How many requests of c have no response on the list: they were answered, or
\* given up.  A response leaves the list from the front, so the k-th on it is
\* that of request Past(c) + k, on a dead connection as on a living one.
Past(c) == Len(asked[c]) - Len(conn[c].list)

Counted == \A c \in Conns : Len(conn[c].list) <= Len(asked[c])

\* Response r is that of the n-th request of c.
Waiting(r, c, n) ==
  /\ res[r].msgs # <<>> => res[r].msgs = <<Answer(c, n)>> /\ res[r].final
  /\ res[r].close <=> Closing(c, n)
  /\ \A j \in Busy : j.res = r => j.req = <<c, n>>

Listed == \A c \in Conns : \A k \in DOMAIN conn[c].list : Waiting(conn[c].list[k], c, Past(c) + k)

\* The response in the hand of the loop is that of the request just answered.
Answering(r, c) ==
  /\ Len(sent[c]) # 0 /\ sent[c][Len(sent[c])] = Answer(c, Past(c))
  /\ res[r].final
  /\ res[r].close <=> Closing(c, Past(c))

\* The loop handles living connections.
Handled ==
  /\ loop.at \in {"read", "more", "write"} \/ InHand => ~conn[loop.con].dead
  /\ InHand => Answering(loop.held, loop.con)
  /\ loop.at = "finished" => ~loop.more

\* A client receives answers to requests of its own that have no response on the
\* list any more, each later than those before.
Received ==
  \A c \in Conns : \A i \in DOMAIN sent[c] :
    /\ \E n \in 1 .. Past(c) : sent[c][i] = Answer(c, n)
    /\ \A h \in DOMAIN sent[c] : h < i => sent[c][h].req[2] < sent[c][i].req[2]

\* An answer that closes is the last, and the loop is about to close the connection.
Closed ==
  \A c \in Conns : \A i \in DOMAIN sent[c] :
    Closing(c, sent[c][i].req[2]) => i = Len(sent[c]) /\ (conn[c].dead \/ Held(c))

\* On a living connection nothing is given up, and the i-th message a client
\* receives is the answer to its i-th request.
Exact ==
  \A c \in Conns : /\ ~conn[c].dead => Len(sent[c]) = Past(c)
                   /\ \A i \in DOMAIN sent[c] : sent[c][i] = Answer(c, i)

OrderInv == Counted /\ Listed /\ Handled /\ Received /\ Closed /\ (~Timeouts => Exact)

-----------------------------------------------------------------------------
(* What the steps have in common *)

LEMMA Sizes ==
  ASSUME TypeOK, NEW c \in Conns
  PROVE  /\ Len(sent[c]) \in Nat /\ DOMAIN sent[c] = 1 .. Len(sent[c]) /\ sent[c] \in Seq(Msg)
         /\ Len(asked[c]) \in Nat /\ asked[c] \in Seq(Kinds)
         /\ conn[c].list \in Seq(Ress)
         /\ Len(conn[c].list) \in Nat /\ DOMAIN conn[c].list = 1 .. Len(conn[c].list)
         /\ \A k \in DOMAIN conn[c].list : conn[c].list[k] \in OnList(c) /\ conn[c].list[k] \in Ress
<1>1. sent[c] \in Seq(Msg) /\ asked[c] \in Seq(Kinds)
  BY DEF TypeOK
<1>2. conn[c].list \in Seq(Ress)
  BY ConTyped
<1>3. \A k \in DOMAIN conn[c].list : conn[c].list[k] \in OnList(c) /\ conn[c].list[k] \in Ress
  BY <1>2, ConTyped DEF OnList, Range
<1> QED  BY <1>1, <1>2, <1>3, LenProperties

LEMMA Counts ==
  ASSUME TypeOK, Counted, NEW c \in Conns
  PROVE  \E b \in Nat, y \in Nat :
           /\ Len(conn[c].list) = y /\ DOMAIN conn[c].list = 1 .. y
           /\ Len(asked[c]) = b + y /\ Past(c) = b
<1>1. PICK x \in Nat, y \in Nat :
        x = Len(asked[c]) /\ y = Len(conn[c].list) /\ DOMAIN conn[c].list = 1 .. y
  BY Sizes
<1>2. y <= x
  BY <1>1 DEF Counted
<1>3. x - y \in Nat /\ x = (x - y) + y
  BY <1>2
<1> QED  BY <1>1, <1>3 DEF Past

\* The first k responses leave the list of c.
Cut(c, k) ==
  /\ Len(conn'[c].list) = Len(conn[c].list) - k
  /\ DOMAIN conn'[c].list = 1 .. Len(conn[c].list) - k
  /\ \A i \in 1 .. Len(conn[c].list) - k : conn'[c].list[i] = conn[c].list[i + k]

LEMMA CutNone ==
  ASSUME TypeOK, NEW c \in Conns, conn'[c].list = conn[c].list
  PROVE  Cut(c, 0)
<1>1. PICK y \in Nat : y = Len(conn[c].list) /\ DOMAIN conn[c].list = 1 .. y
  BY Sizes
<1>2. y - 0 = y /\ \A i \in 1 .. y : i + 0 = i
  OBVIOUS
<1> QED  BY <1>1, <1>2 DEF Cut

LEMMA CutSome ==
  ASSUME TypeOK, NEW c \in Conns, NEW k \in 0 .. Len(conn[c].list),
         conn'[c].list = SubSeq(conn[c].list, k + 1, Len(conn[c].list))
  PROVE  Cut(c, k)
<1> DEFINE s == conn[c].list
           b == SubSeq(s, k + 1, Len(s))
<1>1. s \in Seq(Ress) /\ Len(s) \in Nat /\ \A i \in 1 .. Len(s) : s[i] \in Ress
  BY Sizes
<1>2. k + 1 \in Int /\ Len(s) \in Int /\ \A i \in k + 1 .. Len(s) : s[i] \in Ress
  BY <1>1
<1>3. /\ b \in Seq(Ress) /\ Len(b) = IF k + 1 <= Len(s) THEN Len(s) - (k + 1) + 1 ELSE 0
      /\ \A i \in 1 .. Len(s) - (k + 1) + 1 : b[i] = s[(k + 1) + i - 1]
  BY <1>2, SubSeqProperties
<1>4. \A i \in 1 .. Len(s) - k : i \in 1 .. Len(s) - (k + 1) + 1 /\ (k + 1) + i - 1 = i + k
  BY <1>1
<1>5. conn'[c].list = b
  OBVIOUS
<1> HIDE DEF b
<1>6. Len(b) = Len(s) - k
  BY <1>1, <1>3, CutLength
<1>7. DOMAIN b = 1 .. Len(s) - k
  BY <1>3, <1>6, LenProperties
<1> QED  BY <1>3, <1>4, <1>5, <1>6, <1>7 DEF Cut

LEMMA CutFirst ==
  ASSUME TypeOK, NEW c \in Conns, conn[c].list # <<>>, conn'[c].list = Tail(conn[c].list)
  PROVE  Cut(c, 1) /\ 1 \in 0 .. Len(conn[c].list) /\ 1 \in DOMAIN conn[c].list
<1> DEFINE s == conn[c].list
<1>1. s \in Seq(Ress) /\ Len(s) \in Nat /\ DOMAIN s = 1 .. Len(s)
  BY Sizes
<1>2. /\ Tail(s) \in Seq(Ress) /\ Len(Tail(s)) = Len(s) - 1 /\ Len(s) # 0
      /\ \A i \in 1 .. Len(Tail(s)) : Tail(s)[i] = s[i + 1]
  BY <1>1, HeadTailProperties, EmptySeq
<1>3. DOMAIN Tail(s) = 1 .. Len(s) - 1
  BY <1>2, LenProperties
<1>4. \A n \in Nat : n # 0 => 1 \in 0 .. n /\ 1 \in 1 .. n
  OBVIOUS
<1> QED  BY <1>1, <1>2, <1>3, <1>4 DEF Cut

\* What is left keeps its numbers.
LEMMA CutPast ==
  ASSUME TypeOK, Counted, NEW c \in Conns, NEW k \in 0 .. Len(conn[c].list), Cut(c, k),
         UNCHANGED asked
  PROVE  \E b \in Nat, y \in Nat :
           /\ Past(c) = b /\ Past(c)' = b + k
           /\ Len(conn[c].list) = y + k /\ Len(conn'[c].list) = y /\ Len(asked[c]) = (b + k) + y
           /\ \A i \in DOMAIN conn'[c].list :
                /\ i \in 1 .. y /\ i + k \in DOMAIN conn[c].list /\ (b + k) + i = b + (i + k)
                /\ conn'[c].list[i] = conn[c].list[i + k]
<1>1. PICK b \in Nat, z \in Nat :
        /\ Len(conn[c].list) = z /\ DOMAIN conn[c].list = 1 .. z
        /\ Len(asked[c]) = b + z /\ Past(c) = b
  BY Counts
<1>2. PICK y \in Nat : y = z - k
  BY <1>1
<1>3. z = y + k /\ b + z = (b + k) + y /\ (b + z) - y = b + k
  BY <1>1, <1>2
<1>4. /\ Len(conn'[c].list) = y /\ DOMAIN conn'[c].list = 1 .. y
      /\ \A i \in 1 .. y : conn'[c].list[i] = conn[c].list[i + k]
  BY <1>1, <1>2 DEF Cut
<1>5. Past(c)' = b + k
  BY <1>1, <1>3, <1>4 DEF Past
<1>6. \A i \in 1 .. y : i + k \in 1 .. z /\ (b + k) + i = b + (i + k)
  BY <1>1, <1>3
<1>7. \A i \in DOMAIN conn'[c].list :
        /\ i \in 1 .. y /\ i + k \in DOMAIN conn[c].list /\ (b + k) + i = b + (i + k)
        /\ conn'[c].list[i] = conn[c].list[i + k]
  BY <1>1, <1>4, <1>6
<1>8. Len(conn[c].list) = y + k /\ Len(asked[c]) = (b + k) + y
  BY <1>1, <1>3
<1> QED  BY <1>1, <1>4, <1>5, <1>7, <1>8

LEMMA WaitingSame ==
  ASSUME NEW r, NEW c, NEW n, Waiting(r, c, n), res'[r] = res[r], asked'[c][n] = asked[c][n],
         \A j \in Busy' : j.res = r => j \in Busy
  PROVE  Waiting(r, c, n)'
BY DEF Waiting, Closing, Answer

\* A step that answers nothing and reads nothing, and leaves the responses that
\* stay on a list alone.
LEMMA OrderFrame ==
  ASSUME IInv, OrderInv, UNCHANGED <<asked, sent>>, Busy' \subseteq Busy, Handled',
         \A c \in Conns : conn[c].dead => conn'[c].dead,
         \A c \in Conns : \E k \in 0 .. Len(conn[c].list) :
           Cut(c, k) /\ (k = 0 \/ conn'[c].dead \/ Timeouts),
         \A c \in Conns : \A r \in OnList(c) : r \in OnList(c)' => res'[r] = res[r],
         \A c \in Conns : Held(c) => Held(c)' \/ conn'[c].dead \/ ~Closing(c, Past(c))
  PROVE  OrderInv'
<1> SUFFICES ASSUME NEW c \in Conns
             PROVE  /\ Len(conn'[c].list) <= Len(asked'[c])
                    /\ \A k \in DOMAIN conn'[c].list : Waiting(conn[c].list[k], c, Past(c) + k)'
                    /\ \A i \in DOMAIN sent'[c] :
                         /\ \E n \in 1 .. Past(c)' : sent'[c][i] = Answer(c, n)
                         /\ \A h \in DOMAIN sent'[c] : h < i => sent'[c][h].req[2] < sent'[c][i].req[2]
                    /\ \A i \in DOMAIN sent'[c] :
                         Closing(c, sent[c][i].req[2])' => i = Len(sent'[c]) /\ (conn'[c].dead \/ Held(c)')
                    /\ ~Timeouts => /\ ~conn'[c].dead => Len(sent'[c]) = Past(c)'
                                    /\ \A i \in DOMAIN sent'[c] : sent'[c][i] = Answer(c, i)
  BY DEF OrderInv, Counted, Listed, Received, Closed, Exact, Answer
<1>1. PICK k \in 0 .. Len(conn[c].list) : Cut(c, k) /\ (k = 0 \/ conn'[c].dead \/ Timeouts)
  OBVIOUS
<1>2. k \in Nat
  BY Sizes DEF IInv
<1>3. PICK b \in Nat, y \in Nat :
           /\ Past(c) = b /\ Past(c)' = b + k
           /\ Len(conn[c].list) = y + k /\ Len(conn'[c].list) = y /\ Len(asked[c]) = (b + k) + y
           /\ \A i \in DOMAIN conn'[c].list :
                /\ i \in 1 .. y /\ i + k \in DOMAIN conn[c].list /\ (b + k) + i = b + (i + k)
                /\ conn'[c].list[i] = conn[c].list[i + k]
  BY <1>1, CutPast DEF IInv, OrderInv
<1>4. Len(conn'[c].list) <= Len(asked'[c])
  BY <1>2, <1>3
<1>5. ASSUME NEW i \in DOMAIN conn'[c].list PROVE Waiting(conn[c].list[i], c, Past(c) + i)'
  <2>1. PICK r, n : r = conn[c].list[i + k] /\ n = b + (i + k)
    OBVIOUS
  <2>2. i + k \in DOMAIN conn[c].list /\ r = conn'[c].list[i] /\ n = Past(c)' + i
    BY <1>3, <1>5, <2>1
  <2>3. Waiting(r, c, n) /\ r \in OnList(c)
    BY <1>3, <2>1, <2>2, Sizes DEF OrderInv, Listed, IInv
  <2>4. r \in OnList(c)'
    BY <1>5, <2>2 DEF OnList, Range
  <2>5. Waiting(r, c, n)'
    BY <2>3, <2>4, WaitingSame
  <2> QED  BY <2>2, <2>5 DEF Waiting
<1>6. ASSUME NEW i \in DOMAIN sent[c]
      PROVE  /\ \E n \in 1 .. Past(c)' : sent[c][i] = Answer(c, n)
             /\ \A h \in DOMAIN sent[c] : h < i => sent[c][h].req[2] < sent[c][i].req[2]
  <2>1. PICK n \in 1 .. b : sent[c][i] = Answer(c, n)
    BY <1>3 DEF OrderInv, Received
  <2>2. n \in 1 .. b + k
    BY <1>2
  <2> QED  BY <1>3, <2>1, <2>2 DEF OrderInv, Received
<1>7. ASSUME NEW i \in DOMAIN sent[c], Closing(c, sent[c][i].req[2])'
      PROVE  i = Len(sent[c]) /\ (conn'[c].dead \/ Held(c)')
  <2>1. Closing(c, sent[c][i].req[2])
    BY <1>7 DEF Closing
  <2>2. i = Len(sent[c]) /\ (conn[c].dead \/ Held(c))
    BY <2>1 DEF OrderInv, Closed
  <2>3. CASE conn[c].dead
    BY <2>2, <2>3
  <2>4. CASE Held(c)
    <3>1. sent[c][i] = Answer(c, Past(c))
      BY <2>2, <2>4 DEF OrderInv, Handled, Held, Answering
    <3>2. Closing(c, Past(c))
      BY <2>1, <3>1 DEF Answer
    <3> QED  BY <2>2, <2>4, <3>2
  <2> QED  BY <2>2, <2>3, <2>4
<1>8. ASSUME ~Timeouts
      PROVE  /\ ~conn'[c].dead => Len(sent[c]) = Past(c)'
             /\ \A i \in DOMAIN sent[c] : sent[c][i] = Answer(c, i)
  <2>1. ~conn'[c].dead => Past(c)' = Past(c)
    BY <1>1, <1>3, <1>8
  <2> QED  BY <1>8, <2>1 DEF OrderInv, Exact
<1> QED  BY <1>4, <1>5, <1>6, <1>7, <1>8

\* The same, when no response moves
LEMMA OrderStays ==
  ASSUME IInv, OrderInv, UNCHANGED <<res, asked, sent>>, Busy' \subseteq Busy, Handled',
         \A c \in Conns : conn'[c].list = conn[c].list /\ (conn[c].dead => conn'[c].dead),
         \A c \in Conns : Held(c) => Held(c)'
  PROVE  OrderInv'
<1>1. \A c \in Conns : \E k \in 0 .. Len(conn[c].list) :
        Cut(c, k) /\ (k = 0 \/ conn'[c].dead \/ Timeouts)
  <2>1. \A c \in Conns : Cut(c, 0) /\ 0 \in 0 .. Len(conn[c].list)
    BY CutNone, Sizes DEF IInv
  <2> QED  BY <2>1
<1> QED  BY <1>1, OrderFrame

\* remove_dead_res takes the first responses of a list; the responses of other
\* connections stay.
LEMMA RemoveDeadOrder ==
  ASSUME IInv, OrderInv, NEW c \in Conns, NEW cn \in ConType, cn.list = conn[c].list,
         conn[c].dead => cn.dead, cn.dead \/ Timeouts,
         RemoveDead(c, cn), UNCHANGED <<evalv, asked, sent>>, ~InHand, loop'.at = "idle"
  PROVE  OrderInv'
<1> DEFINE list == conn[c].list
<1>0. list \in Seq(Ress) /\ IsInjective(list) /\ Len(list) \in Nat
  BY Sizes DEF IInv, Places
<1>1. PICK k \in 0 .. Len(list) : DeadRes(c) = SubSeq(list, 1, k) /\ Len(DeadRes(c)) = k
  BY DeadResIsPrefix DEF IInv
<1>2. /\ Range(DeadRes(c)) \subseteq OnList(c)
      /\ Range(DeadRes(c)) \cap Range(SubSeq(list, k + 1, Len(list))) = {}
  BY <1>0, <1>1, CutOwns DEF OnList
<1>3. PICK open : conn' = [conn EXCEPT ![c] = [cn EXCEPT !.list = SubSeq(list, k + 1, Len(list)),
                                                         !.open = open]]
  BY <1>1 DEF RemoveDead
<1>4. /\ conn'[c].dead = cn.dead /\ conn'[c].list = SubSeq(list, k + 1, Len(list))
      /\ \A d \in Conns : d # c => conn'[d] = conn[d]
  BY <1>3 DEF IInv, TypeOK, ConType
<1>5. ASSUME NEW d \in Conns, NEW r \in OnList(d), r \in OnList(d)' PROVE res'[r] = res[r]
  <2>1. r \in Ress
    BY ConTyped DEF IInv
  <2>2. r \notin Range(DeadRes(c))
    <3>1. CASE d = c
      BY <1>2, <1>4, <1>5, <3>1 DEF OnList
    <3>2. CASE d # c
      <4>1. OnList(d) \cap OnList(c) = {}
        BY <3>2 DEF IInv, Places
      <4> QED  BY <1>2, <1>5, <4>1
    <3> QED  BY <3>1, <3>2
  <2> QED  BY <2>1, <2>2 DEF RemoveDead, Destroy
<1>6. Handled' /\ Busy' = Busy
  BY DEF Handled, InHand, Busy, evalv
<1>7. \A d \in Conns : ~Held(d) /\ (conn[d].dead => conn'[d].dead)
  BY <1>4 DEF Held
<1>8. ASSUME NEW d \in Conns
      PROVE  \E h \in 0 .. Len(conn[d].list) : Cut(d, h) /\ (h = 0 \/ conn'[d].dead \/ Timeouts)
  <2>1. CASE d = c
    <3>1. Cut(c, k)
      BY <1>4, CutSome DEF IInv
    <3> QED  BY <1>4, <2>1, <3>1
  <2>2. CASE d # c
    <3>1. Cut(d, 0) /\ 0 \in 0 .. Len(conn[d].list)
      BY <1>4, <2>2, CutNone, Sizes DEF IInv
    <3> QED  BY <3>1
  <2> QED  BY <2>1, <2>2
<1> QED  BY <1>5, <1>6, <1>7, <1>8, OrderFrame

-----------------------------------------------------------------------------
(* Init, and the steps that neither read nor answer *)

LEMMA InitOrder == Init => OrderInv
<1> SUFFICES ASSUME Init PROVE OrderInv
  OBVIOUS
<1>1. Counted /\ Listed /\ Received /\ Closed
  BY DEF Init, Counted, Listed, Received, Closed
<1>2. Handled
  BY DEF Init, Handled, InHand, Idle
<1>3. Exact
  BY DEF Init, Exact, Past
<1> QED  BY <1>1, <1>2, <1>3 DEF OrderInv

\* What Handled says stays true when the loop, and what it holds, stay.
LEMMA HandledStays ==
  ASSUME Handled, UNCHANGED <<loop, asked, sent>>, loop.con \in Conns \/ loop.at = "idle",
         \A c \in Conns : conn'[c].list = conn[c].list /\ conn'[c].dead = conn[c].dead,
         InHand => res'[loop.held] = res[loop.held]
  PROVE  Handled'
<1>1. InHand' = InHand
  BY DEF InHand
<1>2. InHand => Answering(loop.held, loop.con)'
  <2>1. InHand => loop.con \in Conns /\ Answering(loop.held, loop.con)
    BY DEF InHand, Handled
  <2> QED  BY <2>1 DEF Answering, Past, Closing, Answer
<1> QED  BY <1>1, <1>2 DEF Handled, InHand

LEMMA EvalTakeOrder == ASSUME IInv, OrderInv, NEW e \in EvalThreads, EvalTake(e) PROVE OrderInv'
<1>1. UNCHANGED <<conn, res, loop, asked, sent>>
  BY DEF EvalTake, resv
<1>2. Busy' = Busy
  BY TakeJobs DEF IInv
<1>3. Handled' /\ \A c \in Conns : Held(c)' = Held(c)
  BY <1>1, HandledStays DEF OrderInv, IInv, LoopInv, Held, InHand
<1> QED  BY <1>1, <1>2, <1>3, OrderStays

LEMMA PollOrder ==
  ASSUME IInv, OrderInv, NEW c \in Conns, NEW in \in BOOLEAN, NEW out \in BOOLEAN, NEW hup \in BOOLEAN,
         Poll(c, in, out, hup)
  PROVE  OrderInv'
<1>1. /\ loop.at = "idle" /\ ~conn[c].dead
      /\ loop' = [Idle EXCEPT !.at = IF in THEN "read" ELSE IF out THEN "write" ELSE "hup",
                              !.con = c, !.out = out, !.hup = hup]
      /\ UNCHANGED <<conn, res, evalv, asked, sent>>
  BY DEF Poll, Events, resv
<1>2. loop'.con = c /\ loop'.at \in {"read", "write", "hup"}
  BY <1>1 DEF Idle
<1>3. Handled' /\ \A d \in Conns : ~Held(d)
  BY <1>1, <1>2 DEF Handled, Held, InHand
<1>4. Busy' = Busy
  BY <1>1 DEF Busy, evalv
<1> QED  BY <1>1, <1>3, <1>4, OrderStays

LEMMA CheckOrder ==
  ASSUME IInv, OrderInv, NEW c \in Conns, NEW expired \in BOOLEAN, Check(c, expired)
  PROVE  OrderInv'
<1>1. /\ loop.at = "idle" /\ UNCHANGED <<evalv, loop, asked, sent>> /\ conn[c] \in ConType
      /\ expired => Timeouts
  BY ConTyped DEF Check, IInv
<1>2. ~InHand /\ \A d \in Conns : ~Held(d)
  BY <1>1 DEF InHand, Held
<1>3. CASE (conn[c].dead \/ expired) /\ RemoveDead(c, conn[c])
  BY <1>1, <1>2, <1>3, RemoveDeadOrder
<1>4. CASE conn' = [conn EXCEPT ![c].closing = TRUE] /\ UNCHANGED res
  <2>1. \A d \in Conns : conn'[d].list = conn[d].list /\ conn'[d].dead = conn[d].dead
    <3>1. \A d \in Conns : conn[d] \in ConType
      BY ConTyped DEF IInv
    <3> QED  BY <1>4, <3>1 DEF IInv, TypeOK, ConType
  <2>2. Busy' = Busy /\ Handled'
    BY <1>1 DEF Busy, evalv, Handled, InHand
  <2> QED  BY <1>1, <1>2, <1>4, <2>1, <2>2, OrderStays
<1> QED  BY <1>3, <1>4 DEF Check

LEMMA FailOrder ==
  ASSUME IInv, OrderInv, NEW c \in Conns, Fail(c), UNCHANGED <<evalv, asked, sent>>, ~InHand
  PROVE  OrderInv'
<1> DEFINE cn == [conn[c] EXCEPT !.dead = TRUE]
<1>1. cn \in ConType /\ cn.list = conn[c].list /\ cn.dead /\ RemoveDead(c, cn)
  BY ConTyped DEF IInv, ConType, Fail
<1>2. loop'.at = "idle"
  BY DEF Fail, Idle
<1> HIDE DEF cn
<1> QED  BY <1>1, <1>2, RemoveDeadOrder

LEMMA ReadFailOrder == ASSUME IInv, OrderInv, ReadFail \/ HangUp PROVE OrderInv'
<1>1. loop.at \in {"read", "hup"} /\ Fail(loop.con) /\ UNCHANGED <<evalv, asked, sent>>
  BY DEF ReadFail, HangUp
<1>2. loop.con \in Conns /\ ~InHand
  BY <1>1, AtWork DEF InHand
<1> QED  BY <1>1, <1>2, FailOrder

-----------------------------------------------------------------------------
(* Answers are made *)

LEMMA EvalFinishOrder ==
  ASSUME Plain, IInv, OrderInv, NEW e \in EvalThreads, EvalFinish(e) PROVE OrderInv'
<1> DEFINE job == running[e]
           m == [req |-> job.req, final |-> TRUE]
<1>1. /\ job # NULL /\ res' = [res EXCEPT ![job.res] = Push(job.res, m)]
      /\ running' = [running EXCEPT ![e] = NULL]
      /\ UNCHANGED <<conn, evalq, loop, asked, sent>>
  BY DEF EvalFinish
<1>2. job \in Busy
  BY <1>1 DEF Busy
<1>3. /\ job.res \in Ress /\ job.req[1] \in Conns /\ job.res \in OnList(job.req[1])
      /\ res[job.res].msgs = <<>> /\ res[job.res] \in ResType
  BY <1>2, BusyTyped DEF IInv, BusyInv, TypeOK
<1>4. /\ Push(job.res, m).close = res[job.res].close
      /\ Push(job.res, m).msgs # <<>> => Push(job.res, m).msgs = <<m>> /\ Push(job.res, m).final
      /\ res[job.res].final => Push(job.res, m).final
  <2>1. CASE res[job.res].final
    BY <1>3, <2>1 DEF Push
  <2>2. CASE ~res[job.res].final
    <3>1. Push(job.res, m) = [res[job.res] EXCEPT !.msgs = Append(@, m), !.final = TRUE]
      BY <2>2 DEF Push
    <3>2. Append(<<>>, m) = <<m>>
      OBVIOUS
    <3> HIDE DEF m, job
    <3> QED  BY <1>3, <2>2, <3>1, <3>2 DEF ResType
  <2> QED  BY <2>1, <2>2
<1>5. PICK r \in Ress : r = job.res
  BY <1>3
<1> HIDE DEF job
<1>6. /\ res'[r] = Push(r, m) /\ \A q \in Ress : q # r => res'[q] = res[q]
  BY <1>1, <1>5 DEF IInv, TypeOK
<1>7. Busy' \subseteq Busy
  BY <1>1 DEF Busy
<1>8. Listed'
  <2> SUFFICES ASSUME NEW c \in Conns, NEW k \in DOMAIN conn[c].list
               PROVE  Waiting(conn[c].list[k], c, Past(c) + k)'
    BY <1>1 DEF Listed
  <2>1. PICK q, n : q = conn[c].list[k] /\ n = Past(c) + k
    OBVIOUS
  <2>2. Waiting(q, c, n) /\ q \in Ress
    BY <2>1, Sizes DEF OrderInv, Listed, IInv
  <2>3. q = conn'[c].list[k] /\ n = Past(c)' + k
    BY <1>1, <2>1 DEF Past
  <2>4. CASE q # r
    <3>1. Waiting(q, c, n)'
      BY <1>1, <1>6, <1>7, <2>2, <2>4, WaitingSame
    <3> QED  BY <2>3, <3>1 DEF Waiting
  <2>5. CASE q = r
    <3>1. m = Answer(c, n)
      BY <1>2, <1>5, <2>2, <2>5 DEF Waiting, Answer
    <3> HIDE DEF m
    <3>2. /\ res'[r].msgs # <<>> => res'[r].msgs = <<Answer(c, n)>> /\ res'[r].final
          /\ res'[r].close = res[r].close
      BY <1>4, <1>5, <1>6, <3>1
    <3>3. Waiting(q, c, n)'
      BY <1>1, <1>7, <2>2, <2>5, <3>2 DEF Waiting, Closing, Answer
    <3> QED  BY <2>3, <3>3 DEF Waiting
  <2> QED  BY <2>4, <2>5
<1>9. Handled'
  <2>1. InHand => loop.held \in Ress /\ loop.held # r
    BY <1>3, <1>5 DEF IInv, Places, TypeOK
  <2> QED  BY <1>1, <1>6, <2>1, HandledStays DEF OrderInv, IInv, LoopInv
<1>10. Counted' /\ Received' /\ Closed' /\ (~Timeouts => Exact')
  <2>1. ASSUME NEW c \in Conns PROVE Past(c)' = Past(c) /\ Held(c)' = Held(c)
    BY <1>1 DEF Past, Held, InHand
  <2> QED  BY <1>1, <2>1 DEF OrderInv, Counted, Received, Closed, Exact, Closing, Answer
<1> QED  BY <1>8, <1>9, <1>10 DEF OrderInv

-----------------------------------------------------------------------------
(* Requests are read *)

LEMMA ReadRequestOrder ==
  ASSUME Plain, IInv, OrderInv, NEW kind \in Kinds, NEW more \in BOOLEAN, ReadRequest(kind, more)
  PROVE  OrderInv'
<1>0. PICK c \in Conns : c = loop.con
  BY AtWork DEF ReadRequest
<1> DEFINE n == Len(asked[c]) + 1
           list == conn[c].list
           new == [Blank(c) EXCEPT !.close = kind.close \/ kind.by = "bad",
                                   !.final = kind.by # "eval",
                                   !.msgs = IF kind.by = "eval" THEN <<>>
                                            ELSE <<[req |-> <<c, n>>, final |-> TRUE]>>]
           job(r) == [req |-> <<c, n>>, res |-> r, early |-> 0]
<1>1. /\ loop.at \in {"read", "more"}
      /\ cache # <<>> \/ made # Ress
      /\ asked' = [asked EXCEPT ![c] = Append(@, kind)]
      /\ loop' = IF more THEN [loop EXCEPT !.at = "more"] ELSE AfterRead
      /\ UNCHANGED <<running, sent>>
  BY <1>0 DEF ReadRequest
<1>2. PICK r \in Created :
        /\ res' = [res EXCEPT ![r] = new]
        /\ evalq' = IF kind.by # "eval" THEN evalq ELSE Append(evalq, job(r))
        /\ conn' = [conn EXCEPT ![c].list = ResAppend(@, r),
                                ![c].closing = @ \/ (kind.close /\ kind.by # "bad")]
  BY <1>0 DEF ReadRequest
<1>3. ~conn[c].dead /\ ~InHand
  BY <1>0, <1>1 DEF OrderInv, Handled, InHand
<1>4. r \in Ress /\ \A d \in Conns : r \notin OnList(d)
  BY <1>1, <1>2, <1>3, CreatedIsFresh
<1>5. /\ list \in Seq(Ress) /\ Len(list) \in Nat /\ DOMAIN list = 1 .. Len(list)
      /\ asked[c] \in Seq(Kinds) /\ Len(asked[c]) \in Nat
  BY Sizes DEF IInv
<1>6. /\ conn'[c].dead = conn[c].dead /\ conn'[c].list = Append(list, r)
      /\ \A d \in Conns : d # c => conn'[d] = conn[d]
  <2>1. conn[c] \in ConType
    BY ConTyped DEF IInv
  <2> QED  BY <1>2, <2>1 DEF IInv, TypeOK, ConType, ResAppend
<1>7. /\ Len(Append(list, r)) = Len(list) + 1 /\ Append(list, r)[Len(list) + 1] = r
      /\ DOMAIN Append(list, r) = 1 .. Len(list) + 1
      /\ \A k \in 1 .. Len(list) : Append(list, r)[k] = list[k]
  BY <1>4, <1>5, AppendProperties, LenProperties
<1>8. /\ Len(asked'[c]) = n /\ asked'[c][n] = kind
      /\ \A i \in 1 .. Len(asked[c]) : asked'[c][i] = asked[c][i]
      /\ \A d \in Conns : d # c => asked'[d] = asked[d]
  BY <1>1, <1>5, AppendProperties DEF IInv, TypeOK
<1>9. /\ new.close = (kind.close \/ kind.by = "bad")
      /\ new.msgs # <<>> => new.msgs = <<Answer(c, n)>> /\ new.final
  BY DEF Blank, Answer
<1>10. /\ res'[r] = new /\ \A q \in Ress : q # r => res'[q] = res[q]
  BY <1>2, <1>4 DEF IInv, TypeOK
<1>11. \A j \in Busy' : j \in Busy \/ (j.res = r /\ j.req = <<c, n>>)
  <2>1. \A i \in DOMAIN evalq' : evalq'[i] \in {evalq[h] : h \in DOMAIN evalq} \cup {job(r)}
    <3>1. CASE evalq' = evalq
      BY <3>1
    <3>2. CASE evalq' = Append(evalq, job(r))
      <4> HIDE DEF job
      <4>1. evalq \in Seq(Job)
        BY DEF IInv, TypeOK
      <4>2. /\ DOMAIN evalq' = 1 .. Len(evalq) + 1 /\ DOMAIN evalq = 1 .. Len(evalq)
            /\ Len(evalq) \in Nat
        BY <3>2, <4>1
      <4>3. evalq'[Len(evalq) + 1] = job(r) /\ \A i \in 1 .. Len(evalq) : evalq'[i] = evalq[i]
        BY <3>2, <4>1
      <4> QED  BY <4>2, <4>3
    <3> QED  BY <1>2, <3>1, <3>2
  <2> QED  BY <1>1, <2>1 DEF Busy
<1>12. \A j \in Busy : j.res \in Ress /\ j.res # r
  BY <1>4, BusyTyped DEF IInv, BusyInv
<1>13. PICK b \in Nat, y \in Nat :
         Len(list) = y /\ Len(asked[c]) = b + y /\ Past(c) = b /\ DOMAIN list = 1 .. y
  BY Counts DEF IInv, OrderInv
<1>14. n = b + (y + 1) /\ b + (y + 1) - (y + 1) = b /\ y + 1 <= b + (y + 1)
  BY <1>13
<1> HIDE DEF new, job, n
<1>15. \A d \in Conns : Past(d)' = Past(d) /\ (Held(d) <=> FALSE)
  <2>1. Past(c)' = b
    BY <1>6, <1>7, <1>8, <1>13, <1>14 DEF Past
  <2> QED  BY <1>3, <1>6, <1>8, <1>13, <2>1 DEF Past, Held
<1>16. \A d \in Conns : \A i \in 1 .. Len(asked[d]) : asked'[d][i] = asked[d][i]
  BY <1>8
<1>17. Counted'
  <2> SUFFICES ASSUME NEW d \in Conns PROVE Len(conn'[d].list) <= Len(asked'[d])
    BY DEF Counted
  <2>1. CASE d = c
    BY <1>6, <1>7, <1>8, <1>13, <1>14, <2>1
  <2>2. CASE d # c
    BY <1>6, <1>8, <2>2 DEF OrderInv, Counted
  <2> QED  BY <2>1, <2>2
<1>18. Listed'
  <2> SUFFICES ASSUME NEW d \in Conns, NEW k \in DOMAIN conn'[d].list
               PROVE  Waiting(conn[d].list[k], d, Past(d) + k)'
    BY DEF Listed
  <2>1. CASE d = c /\ k = y + 1
    <3>0. PICK m : m = n
      OBVIOUS
    <3>1. conn'[d].list[k] = r /\ Past(d)' + k = m
      BY <1>6, <1>7, <1>13, <1>14, <1>15, <2>1, <3>0
    <3>2. Closing(c, m)' <=> res'[r].close
      BY <1>8, <1>9, <1>10, <3>0 DEF Closing
    <3>3. res'[r].msgs # <<>> => res'[r].msgs = <<Answer(c, m)>> /\ res'[r].final
      BY <1>9, <1>10, <3>0
    <3>4. \A j \in Busy' : j.res = r => j.req = <<c, m>>
      BY <1>11, <1>12, <3>0
    <3>5. Waiting(r, c, m)'
      BY <3>2, <3>3, <3>4 DEF Waiting, Answer
    <3> QED  BY <2>1, <3>1, <3>5 DEF Waiting
  <2>2. CASE ~(d = c /\ k = y + 1)
    <3>1. k \in DOMAIN conn[d].list /\ conn'[d].list[k] = conn[d].list[k]
      <4>1. CASE d # c
        BY <1>6, <4>1
      <4>2. CASE d = c
        <5>1. k \in 1 .. y + 1 /\ k # y + 1
          BY <1>6, <1>7, <1>13, <2>2, <4>2
        <5>2. k \in 1 .. y
          BY <5>1
        <5> QED  BY <1>6, <1>7, <1>13, <4>2, <5>2
      <4> QED  BY <4>1, <4>2
    <3>2. PICK q, m : q = conn[d].list[k] /\ m = Past(d) + k
      OBVIOUS
    <3>3. Waiting(q, d, m) /\ q \in Ress /\ q # r
      BY <1>4, <3>1, <3>2, Sizes DEF OrderInv, Listed, IInv
    <3>4. m \in 1 .. Len(asked[d])
      <4>1. PICK a \in Nat, z \in Nat :
              /\ DOMAIN conn[d].list = 1 .. z /\ Len(asked[d]) = a + z /\ Past(d) = a
        BY Counts DEF IInv, OrderInv
      <4>2. k \in 1 .. z
        BY <3>1, <4>1
      <4> QED  BY <3>2, <4>1, <4>2
    <3>5. asked'[d][m] = asked[d][m]
      BY <1>16, <3>4
    <3>6. Waiting(q, d, m)'
      BY <1>10, <1>11, <3>3, <3>5, WaitingSame
    <3>7. q = conn'[d].list[k] /\ m = Past(d)' + k
      BY <1>15, <3>1, <3>2
    <3> QED  BY <3>6, <3>7 DEF Waiting
  <2> QED  BY <2>1, <2>2
<1>19. Handled'
  <2>1. /\ loop' \in LoopType /\ loop'.at \in {"idle", "more", "write", "hup"}
        /\ loop'.at # "idle" => loop'.con = c
    <3>1. loop \in LoopType
      BY DEF IInv, TypeOK
    <3>2. CASE more
      <4>1. loop' = [loop EXCEPT !.at = "more"]
        BY <1>1, <3>2
      <4> QED  BY <1>0, <3>1, <4>1 DEF LoopType
    <3>3. CASE ~more
      <4>1. loop' = AfterRead
        BY <1>1, <3>3
      <4> QED  BY <1>0, <3>1, <4>1, AfterTyped DEF IInv
    <3> QED  BY <3>2, <3>3
  <2>2. ~InHand' /\ loop'.at # "finished"
    BY <2>1 DEF InHand
  <2>3. loop'.at \in {"read", "more", "write"} => ~conn'[loop'.con].dead
    BY <1>3, <1>6, <2>1
  <2> QED  BY <2>2, <2>3 DEF Handled
<1>20. Received' /\ (~Timeouts => Exact')
  <2>1. \A d \in Conns : conn'[d].dead = conn[d].dead /\ Past(d)' = Past(d) /\ sent' = sent
    BY <1>1, <1>6, <1>15
  <2>2. Received'
    BY <2>1 DEF OrderInv, Received, Answer
  <2>3. ~Timeouts => Exact'
    BY <2>1 DEF OrderInv, Exact, Answer
  <2> QED  BY <2>2, <2>3
<1>21. Closed'
  <2> SUFFICES ASSUME NEW d \in Conns, NEW i \in DOMAIN sent[d], Closing(d, sent[d][i].req[2])'
               PROVE  i = Len(sent[d]) /\ conn'[d].dead
    BY <1>1 DEF Closed
  <2>1. PICK a \in Nat, z \in Nat : Len(asked[d]) = a + z /\ Past(d) = a
    BY Counts DEF IInv, OrderInv
  <2>2. PICK m \in 1 .. a : sent[d][i] = Answer(d, m)
    BY <2>1 DEF OrderInv, Received
  <2>3. m \in 1 .. Len(asked[d]) /\ sent[d][i].req[2] = m
    BY <2>1, <2>2 DEF Answer
  <2>4. Closing(d, sent[d][i].req[2])
    BY <1>1, <1>16, <2>3 DEF Closing
  <2>5. i = Len(sent[d]) /\ conn[d].dead
    BY <1>15, <2>4 DEF OrderInv, Closed
  <2> QED  BY <1>6, <2>5
<1> QED  BY <1>17, <1>18, <1>19, <1>20, <1>21 DEF OrderInv

-----------------------------------------------------------------------------
(* Answers are written *)

LEMMA WriteFailOrder == ASSUME IInv, OrderInv, WriteFail PROVE OrderInv'
<1>0. PICK c \in Conns : c = loop.con
  BY AtWork DEF WriteFail
<1>1. /\ loop.at = "write" /\ conn' = [conn EXCEPT ![c].list = Tail(@), ![c].dead = TRUE]
      /\ loop' = [Idle EXCEPT !.at = "hup", !.con = c]
      /\ UNCHANGED <<res, evalq, running, asked, sent>>
  BY <1>0 DEF WriteFail, resv, evalv
<1>2. conn[c].list # <<>>
  BY <1>0, <1>1 DEF IInv, LoopInv, Writing
<1>3. /\ conn'[c].dead /\ conn'[c].list = Tail(conn[c].list)
      /\ \A d \in Conns : d # c => conn'[d] = conn[d]
  <2>1. conn[c] \in ConType
    BY ConTyped DEF IInv
  <2> QED  BY <1>1, <2>1 DEF IInv, TypeOK, ConType
<1>4. Handled'
  <2>1. loop'.at = "hup"
    BY <1>1 DEF Idle
  <2> QED  BY <2>1 DEF Handled, InHand
<1>5. \A d \in Conns : \E k \in 0 .. Len(conn[d].list) :
        Cut(d, k) /\ (k = 0 \/ conn'[d].dead \/ Timeouts)
  <2>1. Cut(c, 1) /\ 1 \in 0 .. Len(conn[c].list)
    BY <1>2, <1>3, CutFirst DEF IInv
  <2>2. \A d \in Conns : d # c => Cut(d, 0) /\ 0 \in 0 .. Len(conn[d].list)
    BY <1>3, CutNone, Sizes DEF IInv
  <2> QED  BY <1>3, <2>1, <2>2
<1>6. \A d \in Conns : ~Held(d) /\ (conn[d].dead => conn'[d].dead)
  BY <1>1, <1>3 DEF Held, InHand
<1>7. Busy' \subseteq Busy
  BY <1>1 DEF Busy
<1> QED  BY <1>1, <1>4, <1>5, <1>6, <1>7, OrderFrame

LEMMA OneLeft ==
  ASSUME NEW S, NEW s \in Seq(S), s # <<>>, Tail(s) = <<>>
  PROVE  Len(s) = 1 /\ ~(Len(s) > 1) /\ Head(s) = s[1]
<1>1. Len(s) \in Nat /\ Len(Tail(s)) = Len(s) - 1 /\ Head(s) = s[1]
  BY HeadTailProperties, LenProperties
<1>2. Tail(s) \in Seq(S) /\ Len(Tail(s)) = 0
  BY HeadTailProperties, EmptySeq
<1>3. \A n \in Nat : n - 1 = 0 => n = 1 /\ ~(n > 1)
  OBVIOUS
<1>4. Len(s) - 1 = 0
  BY <1>1, <1>2
<1> QED  BY <1>1, <1>3, <1>4

LEMMA MessageNextOrder == ASSUME Plain, IInv, OrderInv, MessageNext PROVE OrderInv'
<1>0. PICK c \in Conns : c = loop.con
  BY AtWork DEF MessageNext
<1>1. /\ loop.at = "sent" /\ InHand /\ loop.held \in made /\ \A d \in Conns : loop.held \notin OnList(d)
      /\ res[loop.held].msgs # <<>>
  BY <1>0 DEF MessageNext, InHand, IInv, Places, LoopInv
<1>2. PICK r \in Ress : r = loop.held
  BY <1>1 DEF IInv, TypeOK
<1>3. /\ res' = [res EXCEPT ![r].msgs = Tail(@)]
      /\ loop' = [loop EXCEPT !.at = "finished", !.more = Len(res[r].msgs) > 1]
      /\ conn' = [conn EXCEPT ![c].wcnt = 0]
      /\ UNCHANGED <<evalv, asked, sent>>
  BY <1>0, <1>2 DEF MessageNext
<1>4. \A d \in Conns : conn'[d].dead = conn[d].dead /\ conn'[d].list = conn[d].list
  <2>1. \A d \in Conns : conn[d] \in ConType
    BY ConTyped DEF IInv
  <2> QED  BY <1>3, <2>1 DEF IInv, TypeOK, ConType
<1>5. \A q \in Ress : /\ q # r => res'[q] = res[q]
                      /\ res'[q].final = res[q].final /\ res'[q].close = res[q].close
  <2>1. \A q \in Ress : res[q] \in ResType
    BY DEF IInv, TypeOK
  <2>2. res' = [res EXCEPT ![r] = [res[r] EXCEPT !.msgs = Tail(@)]]
    BY <1>3
  <2>3. LET y == [res[r] EXCEPT !.msgs = Tail(@)] IN y.final = res[r].final /\ y.close = res[r].close
    BY <2>1 DEF ResType
  <2>4. res'[r] = [res[r] EXCEPT !.msgs = Tail(@)] /\ \A q \in Ress : q # r => res'[q] = res[q]
    BY <2>2 DEF IInv, TypeOK
  <2> QED  BY <2>3, <2>4
<1>6. ~(Len(res[r].msgs) > 1)
  <2>1. res[r].msgs \in Seq(Msg) /\ Tail(res[r].msgs) = <<>>
    BY <1>1, <1>2 DEF IInv, TypeOK, ResType, MsgInv
  <2> QED  BY <1>1, <1>2, <2>1, OneLeft
<1>7. loop'.at = "finished" /\ loop'.held = r /\ loop'.con = c /\ (loop'.more <=> FALSE)
  <2>1. loop \in LoopType
    BY DEF IInv, TypeOK
  <2> QED  BY <1>0, <1>2, <1>3, <1>6, <2>1 DEF LoopType
<1>8. InHand'
  BY <1>7 DEF InHand
<1>9. Handled'
  <2>1. ~conn[c].dead /\ Answering(r, c)
    BY <1>0, <1>1, <1>2 DEF OrderInv, Handled
  <2>2. Answering(r, c)'
    BY <1>3, <1>4, <1>5, <2>1 DEF Answering, Past, Closing, Answer
  <2>3. Answering(loop.held, loop.con)'
    BY <1>7, <2>2 DEF Answering
  <2> QED  BY <1>4, <1>7, <1>8, <2>1, <2>3 DEF Handled
<1>10. \A d \in Conns : \A q \in OnList(d) : q \in OnList(d)' => res'[q] = res[q]
  <2>1. \A d \in Conns : \A q \in OnList(d) : q \in Ress
    BY ConTyped DEF IInv
  <2> QED  BY <1>1, <1>2, <1>5, <2>1
<1>11. \A d \in Conns : Held(d) => Held(d)'
  BY <1>0, <1>7, <1>8 DEF Held
<1>12. Busy' = Busy
  BY <1>3 DEF Busy, evalv
<1>13. \A d \in Conns : \E k \in 0 .. Len(conn[d].list) :
         Cut(d, k) /\ (k = 0 \/ conn'[d].dead \/ Timeouts)
  <2>1. \A d \in Conns : Cut(d, 0) /\ 0 \in 0 .. Len(conn[d].list)
    BY <1>4, CutNone, Sizes DEF IInv
  <2> QED  BY <2>1
<1> QED  BY <1>3, <1>4, <1>9, <1>10, <1>11, <1>12, <1>13, OrderFrame

LEMMA FinishedOrder == ASSUME Plain, IInv, OrderInv, Finished PROVE OrderInv'
<1>0. PICK c \in Conns : c = loop.con
  BY AtWork DEF Finished
<1>1. /\ loop.at = "finished" /\ InHand /\ loop.held \in made /\ \A d \in Conns : loop.held \notin OnList(d)
  BY <1>0 DEF Finished, InHand, IInv, Places
<1>2. PICK r \in Ress : r = loop.held
  BY <1>1 DEF IInv, TypeOK
<1>3. /\ ~loop.more /\ ~conn[c].dead /\ res[r].final
      /\ res[r].close <=> Closing(c, Past(c))
  BY <1>0, <1>1, <1>2 DEF OrderInv, Handled, Answering
<1>4. /\ Destroy(<<r>>) /\ UNCHANGED <<evalv, asked, sent>>
      /\ \/ /\ res[r].close /\ conn' = [conn EXCEPT ![c].dead = TRUE]
            /\ loop' = [Idle EXCEPT !.at = "hup", !.con = c]
         \/ ~res[r].close /\ loop' = AfterWrite /\ conn' = conn
  BY <1>0, <1>2, <1>3 DEF Finished
<1>5. \A d \in Conns : conn'[d].list = conn[d].list /\ (conn'[d].dead <=> conn[d].dead \/ (d = c /\ res[r].close))
  <2>1. \A d \in Conns : conn[d] \in ConType
    BY ConTyped DEF IInv
  <2>2. CASE conn' = conn /\ ~res[r].close
    BY <2>2
  <2>3. CASE res[r].close /\ conn' = [conn EXCEPT ![c].dead = TRUE]
    BY <2>1, <2>3 DEF IInv, TypeOK, ConType
  <2> QED  BY <1>4, <2>2, <2>3
<1>6. \A d \in Conns : \A q \in OnList(d) : res'[q] = res[q]
  <2>1. \A d \in Conns : \A q \in OnList(d) : q \in Ress
    BY ConTyped DEF IInv
  <2>2. Range(<<r>>) = {r}
    BY DEF Range
  <2> QED  BY <1>1, <1>2, <1>4, <2>1, <2>2 DEF Destroy
<1>7. loop'.at \in {"idle", "hup"}
  <2>1. [Idle EXCEPT !.at = "hup", !.con = c].at = "hup"
    BY DEF Idle
  <2> QED  BY <1>4, <2>1, AfterTyped DEF IInv
<1>8. Handled'
  BY <1>7 DEF Handled, InHand
<1>9. \A d \in Conns : Held(d) => conn'[d].dead \/ ~Closing(d, Past(d))
  BY <1>0, <1>3, <1>5 DEF Held
<1>10. Busy' = Busy
  BY <1>4 DEF Busy, evalv
<1>11. \A d \in Conns : \E k \in 0 .. Len(conn[d].list) :
         Cut(d, k) /\ (k = 0 \/ conn'[d].dead \/ Timeouts)
  <2>1. \A d \in Conns : Cut(d, 0) /\ 0 \in 0 .. Len(conn[d].list)
    BY <1>5, CutNone, Sizes DEF IInv
  <2> QED  BY <2>1
<1> QED  BY <1>4, <1>5, <1>6, <1>8, <1>9, <1>10, <1>11, OrderFrame

LEMMA WritePieceOrder == ASSUME Plain, IInv, OrderInv, WritePiece PROVE OrderInv'
<1>0. PICK c \in Conns : c = loop.con
  BY AtWork DEF WritePiece
<1> DEFINE list == conn[c].list
<1>1. /\ loop.at = "write" /\ list # <<>> /\ res[Head(list)].msgs # <<>>
      /\ UNCHANGED <<res, evalq, running, asked>>
  BY <1>0 DEF WritePiece, resv, evalv, IInv, LoopInv, Writing
<1>2. ~InHand /\ ~conn[c].dead /\ (\A d \in Conns : ~Held(d)) /\ Busy' = Busy
  BY <1>0, <1>1 DEF OrderInv, Handled, InHand, Held, Busy
<1>3. \A d \in Conns : conn[d] \in ConType
  BY ConTyped DEF IInv
<1>4. CASE conn' = [conn EXCEPT ![c].wcnt = @ + 1] /\ loop' = AfterWrite /\ UNCHANGED sent
  <2>1. \A d \in Conns : conn'[d].dead = conn[d].dead /\ conn'[d].list = conn[d].list
    BY <1>3, <1>4 DEF IInv, TypeOK, ConType
  <2>2. Handled'
    BY <1>4, AfterTyped DEF Handled, InHand, IInv
  <2> QED  BY <1>1, <1>2, <1>4, <2>1, <2>2, OrderStays
<1>5. CASE /\ conn' = [conn EXCEPT ![c].list = Tail(@)]
           /\ loop' = [loop EXCEPT !.at = "sent", !.held = Head(list)]
           /\ sent' = [sent EXCEPT ![c] = Append(@, Head(res[Head(list)].msgs))]
  <2>1. /\ conn'[c].list = Tail(list) /\ conn'[c].dead = conn[c].dead
        /\ \A d \in Conns : d # c => conn'[d] = conn[d]
    BY <1>3, <1>5 DEF IInv, TypeOK, ConType
  <2>2. Cut(c, 1) /\ 1 \in 0 .. Len(list) /\ 1 \in DOMAIN list
    BY <1>1, <2>1, CutFirst DEF IInv
  <2>3. PICK b \in Nat, y \in Nat :
           /\ Past(c) = b /\ Past(c)' = b + 1
           /\ Len(list) = y + 1 /\ Len(conn'[c].list) = y /\ Len(asked[c]) = (b + 1) + y
           /\ \A i \in DOMAIN conn'[c].list :
                /\ i \in 1 .. y /\ i + 1 \in DOMAIN list /\ (b + 1) + i = b + (i + 1)
                /\ conn'[c].list[i] = list[i + 1]
    BY <1>1, <2>2, CutPast DEF IInv, OrderInv
  <2>4. PICK r \in Ress : r = Head(list) /\ r = list[1]
    BY <1>1, <2>2, Sizes, HeadTailProperties DEF IInv
  <2>5. /\ res[r].msgs = <<Answer(c, b + 1)>> /\ res[r].final
        /\ res[r].close <=> Closing(c, b + 1)
    <3>1. Waiting(conn[c].list[1], c, Past(c) + 1)
      BY <2>2 DEF OrderInv, Listed
    <3>2. Waiting(r, c, b + 1)
      BY <2>3, <2>4, <3>1
    <3> QED  BY <1>1, <2>4, <3>2 DEF Waiting
  <2>6. PICK x \in Nat : x = Len(sent[c]) /\ DOMAIN sent[c] = 1 .. x
    BY Sizes DEF IInv
  <2>7. sent'[c] = Append(sent[c], Answer(c, b + 1)) /\ \A d \in Conns : d # c => sent'[d] = sent[d]
    <3>1. Head(res[r].msgs) = Answer(c, b + 1)
      BY <2>5
    <3> QED  BY <1>5, <2>4, <3>1 DEF IInv, TypeOK
  <2>8. /\ Len(sent'[c]) = x + 1 /\ DOMAIN sent'[c] = 1 .. x + 1 /\ sent'[c][x + 1] = Answer(c, b + 1)
        /\ \A i \in 1 .. x : sent'[c][i] = sent[c][i]
    <3>1. sent[c] \in Seq(Msg) /\ res[r].msgs \in Seq(Msg)
      BY DEF IInv, TypeOK, ResType
    <3>2. Answer(c, b + 1) \in Msg
      BY <2>5, <3>1, ElementOfSeq
    <3> QED  BY <2>6, <2>7, <3>1, <3>2, AppendProperties, LenProperties
  <2>9. loop'.at = "sent" /\ loop'.held = r /\ loop'.con = c
    <3>1. loop \in LoopType
      BY DEF IInv, TypeOK
    <3> QED  BY <1>0, <1>5, <2>4, <3>1 DEF LoopType
  <2>10. InHand' /\ Held(c)'
    BY <2>9 DEF InHand, Held
  <2> HIDE DEF list
  <2>11. \A d \in Conns : d # c => Past(d)' = Past(d)
    BY <1>1, <2>1 DEF Past
  <2>12. Counted'
    <3>1. y <= (b + 1) + y
      OBVIOUS
    <3> QED  BY <1>1, <2>1, <2>3, <3>1 DEF OrderInv, Counted
  <2>13. Listed'
    <3> SUFFICES ASSUME NEW d \in Conns, NEW k \in DOMAIN conn'[d].list
                 PROVE  Waiting(conn[d].list[k], d, Past(d) + k)'
      BY DEF Listed
    <3>1. CASE d # c
      <4>1. PICK q, n : q = conn[d].list[k] /\ n = Past(d) + k
        OBVIOUS
      <4>2. Waiting(q, d, n)
        BY <2>1, <3>1, <4>1 DEF OrderInv, Listed
      <4>3. Waiting(q, d, n)'
        BY <1>1, <1>2, <4>2, WaitingSame
      <4>4. q = conn'[d].list[k] /\ n = Past(d)' + k
        BY <2>1, <2>11, <3>1, <4>1
      <4> QED  BY <4>3, <4>4 DEF Waiting
    <3>2. CASE d = c
      <4>1. PICK q, n : q = conn[c].list[k + 1] /\ n = b + (k + 1)
        OBVIOUS
      <4>2. q = conn'[c].list[k] /\ n = Past(c)' + k /\ k + 1 \in DOMAIN conn[c].list
        BY <2>3, <3>2, <4>1 DEF list
      <4>3. Waiting(q, c, n)
        BY <2>3, <4>1, <4>2 DEF OrderInv, Listed
      <4>4. Waiting(q, c, n)'
        BY <1>1, <1>2, <4>3, WaitingSame
      <4> QED  BY <3>2, <4>2, <4>4 DEF Waiting
    <3> QED  BY <3>1, <3>2
  <2>14. Handled'
    <3>1. Answering(r, c)'
      BY <1>1, <2>3, <2>5, <2>8 DEF Answering, Closing, Answer
    <3>2. Answering(loop.held, loop.con)'
      BY <2>9, <3>1 DEF Answering
    <3> QED  BY <1>2, <2>1, <2>9, <3>2 DEF Handled
  <2>15. ASSUME NEW i \in DOMAIN sent[c]
         PROVE  /\ i \in 1 .. x /\ i # x + 1 /\ sent'[c][i] = sent[c][i]
                /\ \E n \in 1 .. b : sent[c][i] = Answer(c, n)
    <3>1. i \in 1 .. x /\ i # x + 1
      BY <2>6, <2>15
    <3> QED  BY <2>3, <2>8, <3>1 DEF OrderInv, Received
  <2>16. \A i \in DOMAIN sent'[c] : i = x + 1 \/ i \in DOMAIN sent[c]
    BY <2>6, <2>8
  <2>17. Received'
    <3> SUFFICES ASSUME NEW d \in Conns, NEW i \in DOMAIN sent'[d]
                 PROVE  /\ \E n \in 1 .. Past(d)' : sent'[d][i] = Answer(d, n)
                        /\ \A h \in DOMAIN sent'[d] : h < i => sent'[d][h].req[2] < sent'[d][i].req[2]
      BY DEF Received, Answer
    <3>1. CASE d # c
      BY <2>7, <2>11, <3>1 DEF OrderInv, Received
    <3>2. CASE d = c /\ i = x + 1
      <4>1. b + 1 \in 1 .. b + 1 /\ sent'[c][x + 1].req[2] = b + 1
        BY <2>8 DEF Answer
      <4>2. ASSUME NEW h \in DOMAIN sent[c] PROVE sent'[c][h].req[2] < b + 1
        <5>1. PICK n \in 1 .. b : sent'[c][h] = Answer(c, n)
          BY <2>15
        <5> QED  BY <5>1 DEF Answer
      <4>3. ASSUME NEW h \in DOMAIN sent'[c], h < i PROVE h \in DOMAIN sent[c]
        BY <2>16, <3>2, <4>3
      <4>4. sent'[c][i] = Answer(c, b + 1) /\ sent'[c][i].req[2] = b + 1
        BY <2>8, <3>2, <4>1
      <4>5. \E n \in 1 .. Past(c)' : sent'[c][i] = Answer(c, n)
        BY <2>3, <4>1, <4>4
      <4> QED  BY <3>2, <4>2, <4>3, <4>4, <4>5
    <3>3. CASE d = c /\ i \in DOMAIN sent[c]
      <4>1. PICK n \in 1 .. b : sent'[c][i] = Answer(c, n)
        BY <2>15, <3>3
      <4>2. n \in 1 .. b + 1
        OBVIOUS
      <4>3. ASSUME NEW h \in DOMAIN sent'[c], h < i PROVE sent'[c][h].req[2] < sent'[c][i].req[2]
        <5>1. h \in DOMAIN sent[c]
          BY <2>15, <2>16, <3>3, <4>3
        <5> QED  BY <2>15, <3>3, <4>3, <5>1 DEF OrderInv, Received
      <4> QED  BY <2>3, <3>3, <4>1, <4>2, <4>3
    <3> QED  BY <2>16, <3>1, <3>2, <3>3
  <2>18. Closed'
    <3> SUFFICES ASSUME NEW d \in Conns, NEW i \in DOMAIN sent'[d], Closing(d, sent[d][i].req[2])'
                 PROVE  i = Len(sent'[d]) /\ (conn'[d].dead \/ Held(d)')
      BY DEF Closed
    <3>1. CASE d # c
      <4>1. Closing(d, sent[d][i].req[2])
        BY <1>1, <2>7, <3>1 DEF Closing
      <4> QED  BY <1>2, <2>1, <2>7, <3>1, <4>1 DEF OrderInv, Closed
    <3>2. CASE d = c /\ i = x + 1
      BY <2>8, <2>10, <3>2
    <3>3. CASE d = c /\ i \in DOMAIN sent[c]
      <4>1. Closing(c, sent[c][i].req[2])
        BY <1>1, <2>15, <3>3 DEF Closing
      <4> QED  BY <1>2, <3>3, <4>1 DEF OrderInv, Closed
    <3> QED  BY <2>16, <3>1, <3>2, <3>3
  <2>19. ASSUME ~Timeouts PROVE Exact'
    <3>1. x = b /\ \A i \in DOMAIN sent[c] : sent[c][i] = Answer(c, i)
      BY <1>2, <2>3, <2>6, <2>19 DEF OrderInv, Exact
    <3> SUFFICES ASSUME NEW d \in Conns
                 PROVE  /\ ~conn'[d].dead => Len(sent'[d]) = Past(d)'
                        /\ \A i \in DOMAIN sent'[d] : sent'[d][i] = Answer(d, i)
      BY DEF Exact, Answer
    <3>2. CASE d # c
      BY <2>1, <2>7, <2>11, <2>19, <3>2 DEF OrderInv, Exact
    <3>3. CASE d = c
      BY <2>3, <2>8, <2>15, <2>16, <3>1, <3>3
    <3> QED  BY <3>2, <3>3
  <2> QED  BY <2>12, <2>13, <2>14, <2>17, <2>18, <2>19 DEF OrderInv
<1> QED  BY <1>0, <1>1, <1>4, <1>5 DEF WritePiece

-----------------------------------------------------------------------------
(* The theorems *)

LEMMA NextOrder ==
  ASSUME Plain
  PROVE  IInv /\ OrderInv /\ [Next]_vars => OrderInv'
<1> SUFFICES ASSUME IInv, OrderInv, [Next]_vars PROVE OrderInv'
  OBVIOUS
<1>0. ASSUME UNCHANGED <<conn, res, evalv, loop, asked, sent>> PROVE OrderInv'
  <2>1. Handled'
    BY <1>0, HandledStays DEF OrderInv, IInv, LoopInv
  <2>2. Busy' = Busy /\ \A d \in Conns : Held(d) => Held(d)'
    BY <1>0 DEF Busy, Held, InHand, evalv
  <2> QED  BY <1>0, <2>1, <2>2, OrderStays
<1>1. CASE UNCHANGED vars
  BY <1>0, <1>1 DEF vars, resv
<1>2. ASSUME NEW e \in EvalThreads, EvalStep(e) \/ EvalEarly(e) PROVE OrderInv'
  <2>1. CASE EvalStep(e)
    BY <2>1, EvalTakeOrder, EvalFinishOrder DEF EvalStep
  <2>2. CASE EvalEarly(e)
    <3>1. running[e] \in Job
      BY <2>2 DEF EvalEarly, IInv, TypeOK
    <3>2. running[e].early \in 0 .. 0 /\ running[e].early < 0
      BY <2>2, <3>1 DEF EvalEarly, Plain, Job
    <3> QED  BY <3>2
  <2> QED  BY <1>2, <2>1, <2>2
<1>3. CASE \E c \in Conns : Leave(c)
  BY <1>0, <1>3 DEF Leave, resv
<1>4. CASE \E c \in Conns : \/ \E in, out, hup \in BOOLEAN : Poll(c, in, out, hup)
                            \/ \E expired \in BOOLEAN : Check(c, expired)
  BY <1>4, PollOrder, CheckOrder
<1>5. CASE \E kind \in Kinds, more \in BOOLEAN : ReadRequest(kind, more)
  BY <1>5, ReadRequestOrder
<1>6. CASE ReadFail \/ WritePiece \/ WriteFail \/ MessageNext \/ Finished \/ HangUp
  BY <1>6, ReadFailOrder, WritePieceOrder, WriteFailOrder, MessageNextOrder, FinishedOrder
<1> QED  BY <1>1, <1>2, <1>3, <1>4, <1>5, <1>6 DEF Next, Dispatch

LEMMA OrderInvariance == ASSUME Plain PROVE Spec => [](IInv /\ OrderInv)
<1>1. Init => OrderInv
  BY InitOrder
<1>2. IInv /\ OrderInv /\ [Next]_vars => OrderInv'
  BY NextOrder
<1> QED  BY <1>1, <1>2, Invariance, PTL DEF Spec

\* With Plain requests and no time-outs a client gets the answers to its requests
\* in their order, each once and none left out before another, whatever other
\* connections do and however response objects are reused (con.c:599, 635-703).
THEOREM AnsweredInOrder == ASSUME Plain, ~Timeouts PROVE Spec => []InOrder
<1>1. IInv /\ OrderInv => InOrder
  <2> SUFFICES ASSUME IInv, OrderInv, NEW c \in Conns, NEW i \in DOMAIN sent[c]
               PROVE  sent[c][i].req = <<c, 1 + Cardinality({k \in 1 .. i - 1 : sent[c][k].final})>>
    BY DEF InOrder
  <2>1. PICK n \in Nat : DOMAIN sent[c] = 1 .. n
    BY Sizes DEF IInv
  <2>2. i \in 1 .. n /\ i - 1 \in Nat /\ 1 .. i - 1 \subseteq 1 .. n
    BY <2>1
  <2>3. \A k \in 1 .. n : sent[c][k].req = <<c, k>> /\ sent[c][k].final
    <3>1. \A k \in 1 .. n : sent[c][k] = Answer(c, k)
      BY <2>1 DEF OrderInv, Exact
    <3>2. \A k \in 1 .. n : Answer(c, k).req = <<c, k>> /\ Answer(c, k).final
      BY DEF Answer
    <3> QED  BY <3>1, <3>2
  <2>4. {k \in 1 .. i - 1 : sent[c][k].final} = 1 .. i - 1
    BY <2>2, <2>3
  <2>5. Cardinality(1 .. i - 1) = i - 1
    BY <2>2, FS_Interval
  <2>6. 1 + (i - 1) = i
    BY <2>2
  <2> QED  BY <2>2, <2>3, <2>4, <2>5, <2>6
<1> QED  BY <1>1, OrderInvariance, PTL

\* When time-outs pass too, answers that are ready may be given up, but a client
\* gets answers to requests of its own only, none twice and none late, also from
\* connections that go on after others were given up (con.c:599, 635-703, 1158).
THEOREM AnsweredNoneLate == ASSUME Plain PROVE Spec => []HintsInOrder
<1>1. IInv /\ OrderInv => HintsInOrder
  <2> SUFFICES ASSUME IInv, OrderInv, NEW c \in Conns, NEW i \in DOMAIN sent[c],
                      NEW j \in DOMAIN sent[c]
               PROVE  /\ sent[c][i].req[1] = c
                      /\ i < j => sent[c][i].req[2] < sent[c][j].req[2]
    BY DEF HintsInOrder
  <2>1. PICK n : sent[c][i] = Answer(c, n)
    BY DEF OrderInv, Received
  <2> QED  BY <2>1 DEF OrderInv, Received, Answer
<1> QED  BY <1>1, OrderInvariance, PTL

\* Under the same condition nothing is written after the answer to a request that
\* asked to close the connection or was refused (con.c:695-700, 1218).
THEOREM ClosedAfterAnswer == ASSUME Plain PROVE Spec => []CloseIsLast
<1>1. IInv /\ OrderInv => CloseIsLast
  <2> SUFFICES ASSUME IInv, OrderInv, NEW c \in Conns, NEW i \in 1 .. Len(sent[c]) - 1
               PROVE  ~Closing(c, sent[c][i].req[2])
    BY DEF CloseIsLast, Closing
  <2>1. PICK n \in Nat : n = Len(sent[c]) /\ DOMAIN sent[c] = 1 .. n
    BY Sizes DEF IInv
  <2>2. i \in 1 .. n /\ i # n
    BY <2>1
  <2> QED  BY <2>1, <2>2 DEF OrderInv, Closed
<1> QED  BY <1>1, OrderInvariance, PTL
=============================================================================
