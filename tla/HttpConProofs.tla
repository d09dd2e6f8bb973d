---------------------------- MODULE HttpConProofs ----------------------------
(***************************************************************************)
(* Where the responses of a connection loop are, for any number of         *)
(* connections, responses, threads and requests.  IInv is inductive.  What *)
(* it says of responses that are being evaluated holds for Plain requests  *)
(* only: the two findings of con.c:695 and con.c:1117 are about the others.*)
(***************************************************************************)
EXTENDS HttpCon, TLAPS, SequenceTheorems, WellFoundedInduction

\* No early hints, and a request that is evaluated does not ask to close.
Plain == MaxEarly = 0 /\ \A k \in Kinds : k.by = "eval" => ~k.close

-----------------------------------------------------------------------------
(* The inductive invariant *)

OnList(c) == Range(conn[c].list)
InHand    == loop.at \in {"sent", "finished"}

\* A response is in one place: on a list, in the cache, or in the hand of the loop.
Places ==
  /\ \A c \in Conns : IsInjective(conn[c].list) /\ OnList(c) \subseteq made
  /\ IsInjective(cache) /\ Range(cache) \subseteq made
  /\ \A c, d \in Conns : c # d => OnList(c) \cap OnList(d) = {}
  /\ \A c \in Conns : OnList(c) \cap Range(cache) = {}
  /\ \A c \in Conns : \A r \in OnList(c) : res[r].con = c
  /\ InHand => /\ loop.held \in made \ Range(cache)
               /\ \A c \in Conns : loop.held \notin OnList(c)

\* The loop works on a connection that exists, and where it is about to write
\* there is something to write.
Writing == loop.at = "write" \/ (loop.at \in {"read", "more"} /\ loop.out)
LoopInv ==
  /\ InHand <=> loop.held # NULL
  /\ loop.at = "idle" \/ (loop.con \in Conns /\ conn[loop.con].open)
  /\ Writing => conn[loop.con].list # <<>> /\ res[Head(conn[loop.con].list)].msgs # <<>>
  /\ loop.at = "sent" => res[loop.held].msgs # <<>>
  /\ InHand => res[loop.held].con = loop.con
  /\ \A c \in Conns : ~conn[c].open => conn[c].list = <<>>

\* A request is with one thread or in the queue, and has a response of its own.
JobInv ==
  /\ IsInjective(evalq)
  /\ \A d, e \in EvalThreads : running[d] # NULL /\ running[d] = running[e] => d = e
  /\ \A e \in EvalThreads : running[e] \notin Range(evalq)
  /\ \A i, j \in Busy : i.res = j.res => i = j

\* The response of a request that is evaluated is empty, and on the list of the
\* connection that the request came from.
BusyInv ==
  \A j \in Busy : /\ j.res \in OnList(j.req[1])
                  /\ res[j.res].msgs = <<>> /\ ~res[j.res].close

\* A response gets one message.
MsgInv ==
  /\ \A r \in Ress : res[r].msgs = <<>> \/ Tail(res[r].msgs) = <<>>
  /\ loop.at = "finished" => res[loop.held].msgs = <<>>

IInv == TypeOK /\ Places /\ LoopInv /\ (Plain => JobInv /\ BusyInv /\ MsgInv)

-----------------------------------------------------------------------------
(* Sequences whose elements are distinct *)

LEMMA AppendOwns ==
  ASSUME NEW S, NEW s \in Seq(S), NEW x \in S
  PROVE  /\ Append(s, x) \in Seq(S) /\ Append(s, x) # <<>>
         /\ Range(Append(s, x)) = Range(s) \cup {x}
         /\ IsInjective(s) /\ x \notin Range(s) => IsInjective(Append(s, x))
         /\ s # <<>> => Head(Append(s, x)) = Head(s)
<1>1. /\ Append(s, x) \in Seq(S) /\ Len(Append(s, x)) = Len(s) + 1 /\ Append(s, x)[Len(s) + 1] = x
      /\ \A i \in 1 .. Len(s) : Append(s, x)[i] = s[i]
  BY AppendProperties
<1>2. /\ Append(s, x) # <<>> /\ (s # <<>> => Head(Append(s, x)) = Head(s))
  BY AppendProperties, HeadTailAppend
<1> DEFINE t == Append(s, x)
<1>3. Len(s) \in Nat /\ DOMAIN s = 1 .. Len(s) /\ DOMAIN t = 1 .. Len(s) + 1
  BY <1>1, LenProperties
<1> HIDE DEF t
<1>4. Range(t) = Range(s) \cup {x}
  BY <1>1, <1>3 DEF Range, t
<1>5. IsInjective(s) /\ x \notin Range(s) => IsInjective(t)
  BY <1>1, <1>3 DEF Range, IsInjective, t
<1> QED  BY <1>1, <1>2, <1>4, <1>5 DEF t

LEMMA PushOwns ==
  ASSUME NEW S, NEW s \in Seq(S), NEW x \in S
  PROVE  /\ <<x>> \o s \in Seq(S) /\ <<x>> \o s # <<>>
         /\ Range(<<x>> \o s) = Range(s) \cup {x}
         /\ IsInjective(s) /\ x \notin Range(s) => IsInjective(<<x>> \o s)
<1> DEFINE t == <<x>> \o s
<1>1. /\ t \in Seq(S) /\ Len(t) = Len(s) + 1 /\ t[1] = x
      /\ \A i \in 1 .. Len(s) : t[i + 1] = s[i]
      /\ \A i \in 2 .. Len(s) + 1 : t[i] = s[i - 1]
  OBVIOUS
<1>2. Len(s) \in Nat /\ DOMAIN s = 1 .. Len(s) /\ DOMAIN t = 1 .. Len(s) + 1
  BY <1>1, LenProperties
<1>3. t # <<>>
  BY <1>1
<1> HIDE DEF t
<1>4. Range(t) = Range(s) \cup {x}
  <2>1. Range(t) \subseteq Range(s) \cup {x}
    <3> SUFFICES ASSUME NEW i \in DOMAIN t PROVE t[i] \in Range(s) \cup {x}
      BY DEF Range
    <3>1. CASE i = 1
      BY <3>1, <1>1
    <3>2. CASE i # 1
      <4>1. i - 1 \in DOMAIN s /\ t[i] = s[i - 1]
        BY <3>2, <1>1, <1>2
      <4> QED  BY <4>1 DEF Range
    <3> QED  BY <3>1, <3>2
  <2>2. x \in Range(t)
    BY <1>1, <1>2 DEF Range
  <2>3. \A i \in DOMAIN s : s[i] \in Range(t)
    BY <1>1, <1>2 DEF Range
  <2> QED  BY <2>1, <2>2, <2>3 DEF Range
<1>5. ASSUME IsInjective(s), x \notin Range(s), NEW i \in DOMAIN t, NEW j \in DOMAIN t, t[i] = t[j]
      PROVE  i = j
  <2>1. \A n \in DOMAIN t : n # 1 => n - 1 \in DOMAIN s /\ t[n] = s[n - 1]
    BY <1>1, <1>2
  <2>2. \A n \in DOMAIN s : s[n] # x
    BY <1>5 DEF Range
  <2>3. CASE i = 1 \/ j = 1
    BY <2>1, <2>2, <2>3, <1>1, <1>5
  <2>4. CASE i # 1 /\ j # 1
    <3>1. i - 1 = j - 1
      BY <2>1, <2>4, <1>5 DEF IsInjective
    <3> QED  BY <3>1, <1>2
  <2> QED  BY <2>3, <2>4
<1> QED  BY <1>1, <1>3, <1>4, <1>5 DEF t, IsInjective

LEMMA TailOwns ==
  ASSUME NEW S, NEW s \in Seq(S), s # <<>>
  PROVE  /\ Head(s) \in S /\ Tail(s) \in Seq(S)
         /\ Range(s) = Range(Tail(s)) \cup {Head(s)}
         /\ IsInjective(s) => IsInjective(Tail(s)) /\ Head(s) \notin Range(Tail(s))
<1> DEFINE t == Tail(s)
<1>1. /\ t \in Seq(S) /\ Len(t) = Len(s) - 1 /\ Head(s) = s[1] /\ s[1] \in S
      /\ \A i \in 1 .. Len(t) : t[i] = s[i + 1]
  BY HeadTailProperties
<1>2. /\ Len(s) \in Nat /\ DOMAIN s = 1 .. Len(s) /\ DOMAIN t = 1 .. Len(s) - 1
      /\ Len(s) > 0
  BY <1>1, LenProperties, EmptySeq
<1> HIDE DEF t
<1>3. Range(s) = Range(t) \cup {s[1]}
  <2>1. \A i \in DOMAIN s : i # 1 => i - 1 \in DOMAIN t /\ s[i] = t[i - 1]
    BY <1>1, <1>2
  <2>2. \A i \in DOMAIN t : i + 1 \in DOMAIN s /\ t[i] = s[i + 1]
    BY <1>1, <1>2
  <2>3. 1 \in DOMAIN s
    BY <1>2
  <2> QED  BY <2>1, <2>2, <2>3 DEF Range
<1>4. ASSUME IsInjective(s)
      PROVE  s[1] \notin Range(t) /\ \A i, j \in DOMAIN t : t[i] = t[j] => i = j
  <2>1. \A n \in DOMAIN t : n + 1 \in DOMAIN s /\ n + 1 # 1 /\ t[n] = s[n + 1]
    BY <1>1, <1>2
  <2>2. s[1] \notin Range(t)
    BY <1>2, <1>4, <2>1 DEF Range, IsInjective
  <2>3. ASSUME NEW i \in DOMAIN t, NEW j \in DOMAIN t, t[i] = t[j] PROVE i = j
    <3>1. i + 1 = j + 1
      BY <1>4, <2>1, <2>3 DEF IsInjective
    <3> QED  BY <1>2, <3>1
  <2> QED  BY <2>2, <2>3
<1> QED  BY <1>1, <1>3, <1>4 DEF t, IsInjective

LEMMA CutLength ==
  ASSUME NEW n \in Nat, NEW k \in 0 .. n
  PROVE  (IF k + 1 <= n THEN n - (k + 1) + 1 ELSE 0) = n - k
OBVIOUS

LEMMA CutPlace ==
  ASSUME NEW n \in Nat, NEW k \in 0 .. n, NEW i \in 1 .. n
  PROVE  i \in 1 .. k \/ (i - k \in 1 .. n - k /\ (i - k) + k = i)
OBVIOUS

LEMMA BeforeFirst ==
  ASSUME NEW n \in Nat, NEW k \in 1 .. n
  PROVE  /\ k # 0 /\ k - 1 \in 0 .. n /\ 1 .. k - 1 \subseteq 1 .. n
         /\ (IF 1 <= k - 1 THEN k - 1 - 1 + 1 ELSE 0) = k - 1
         /\ \A i \in 1 .. k - 1 : ~(k <= i)
OBVIOUS

LEMMA CutOwns ==
  ASSUME NEW S, NEW s \in Seq(S), NEW k \in 0 .. Len(s)
  PROVE  /\ SubSeq(s, 1, k) \in Seq(S) /\ SubSeq(s, k + 1, Len(s)) \in Seq(S)
         /\ Range(s) = Range(SubSeq(s, 1, k)) \cup Range(SubSeq(s, k + 1, Len(s)))
         /\ Range(SubSeq(s, 1, k)) = {s[i] : i \in 1 .. k}
         /\ IsInjective(s) =>
              /\ IsInjective(SubSeq(s, 1, k)) /\ IsInjective(SubSeq(s, k + 1, Len(s)))
              /\ Range(SubSeq(s, 1, k)) \cap Range(SubSeq(s, k + 1, Len(s))) = {}
<1> DEFINE a == SubSeq(s, 1, k)
           b == SubSeq(s, k + 1, Len(s))
<1>1. Len(s) \in Nat /\ DOMAIN s = 1 .. Len(s) /\ \A i \in 1 .. Len(s) : s[i] \in S
  BY LenProperties
<1>0. k \in Nat /\ k <= Len(s)
  BY <1>1
<1>2. a \in Seq(S) /\ Len(a) = k /\ \A i \in 1 .. k : a[i] = s[i]
  BY <1>1, SubSeqProperties
<1>3. b \in Seq(S) /\ Len(b) = Len(s) - k /\ \A i \in 1 .. Len(s) - k : b[i] = s[i + k]
  <2>1. k + 1 \in Int /\ Len(s) \in Int /\ \A i \in k + 1 .. Len(s) : s[i] \in S
    BY <1>1
  <2>2. /\ b \in Seq(S) /\ Len(b) = IF k + 1 <= Len(s) THEN Len(s) - (k + 1) + 1 ELSE 0
        /\ \A i \in 1 .. Len(s) - (k + 1) + 1 : b[i] = s[(k + 1) + i - 1]
    BY <2>1, SubSeqProperties
  <2>3. \A i \in 1 .. Len(s) - k : i \in 1 .. Len(s) - (k + 1) + 1 /\ (k + 1) + i - 1 = i + k
    BY <1>1
  <2> HIDE DEF a, b
  <2>4. Len(b) = Len(s) - k
    BY <1>1, <2>2, CutLength
  <2> QED  BY <2>2, <2>3, <2>4
<1>4. DOMAIN a = 1 .. k /\ DOMAIN b = 1 .. Len(s) - k
  BY <1>2, <1>3, LenProperties
<1> HIDE DEF a, b
<1>5. Range(a) = {s[i] : i \in 1 .. k}
  BY <1>2, <1>4 DEF Range
<1>6. /\ Range(s) = Range(a) \cup Range(b)
      /\ IsInjective(s) =>
           IsInjective(a) /\ IsInjective(b) /\ Range(a) \cap Range(b) = {}
  <2>1. \A i \in 1 .. Len(s) : \/ i \in DOMAIN a /\ s[i] = a[i]
                               \/ i - k \in DOMAIN b /\ s[i] = b[i - k]
    <3> TAKE i \in 1 .. Len(s)
    <3>1. CASE i \in 1 .. k
      BY <3>1, <1>2, <1>4
    <3>2. CASE i - k \in 1 .. Len(s) - k /\ (i - k) + k = i
      <4>1. b[i - k] = s[(i - k) + k]
        BY <3>2, <1>3
      <4> QED  BY <3>2, <4>1, <1>4
    <3> QED  BY <3>1, <3>2, <1>1, CutPlace
  <2>2. \A i \in DOMAIN a : i \in DOMAIN s /\ a[i] = s[i]
    BY <1>1, <1>2, <1>4
  <2>3. \A i \in DOMAIN b : i + k \in DOMAIN s /\ i + k > k /\ b[i] = s[i + k]
    BY <1>1, <1>3, <1>4
  <2>4. Range(s) \subseteq Range(a) \cup Range(b)
    <3> SUFFICES ASSUME NEW i \in 1 .. Len(s) PROVE s[i] \in Range(a) \cup Range(b)
      BY <1>1 DEF Range
    <3> QED  BY <2>1 DEF Range
  <2>5. Range(a) \subseteq Range(s) /\ Range(b) \subseteq Range(s)
    BY <2>2, <2>3 DEF Range
  <2>6. ASSUME IsInjective(s), NEW i \in DOMAIN a, NEW j \in DOMAIN a, a[i] = a[j] PROVE i = j
    BY <2>2, <2>6 DEF IsInjective
  <2>7. ASSUME IsInjective(s), NEW i \in DOMAIN b, NEW j \in DOMAIN b, b[i] = b[j] PROVE i = j
    <3>1. i + k = j + k
      BY <2>3, <2>7 DEF IsInjective
    <3> QED  BY <1>4, <3>1
  <2>8. ASSUME IsInjective(s), NEW i \in DOMAIN a, NEW j \in DOMAIN b PROVE a[i] # b[j]
    <3>1. i # j + k
      BY <1>4, <2>3
    <3> QED  BY <2>2, <2>3, <2>8, <3>1 DEF IsInjective
  <2>9. IsInjective(s) => Range(a) \cap Range(b) = {}
    BY <2>8 DEF Range
  <2> QED  BY <2>4, <2>5, <2>6, <2>7, <2>9 DEF IsInjective
<1> QED  BY <1>2, <1>3, <1>5, <1>6 DEF a, b

LEMMA JoinOwns ==
  ASSUME NEW S, NEW s \in Seq(S), NEW t \in Seq(S)
  PROVE  /\ s \o t \in Seq(S) /\ Range(s \o t) = Range(s) \cup Range(t)
         /\ IsInjective(s) /\ IsInjective(t) /\ Range(s) \cap Range(t) = {} => IsInjective(s \o t)
<1> DEFINE u == s \o t
<1>1. /\ u \in Seq(S) /\ Len(u) = Len(s) + Len(t)
      /\ \A i \in 1 .. Len(s) + Len(t) : u[i] = IF i <= Len(s) THEN s[i] ELSE t[i - Len(s)]
      /\ Range(u) = Range(s) \cup Range(t)
  BY ConcatProperties, RangeConcatenation
<1>2. /\ Len(s) \in Nat /\ DOMAIN s = 1 .. Len(s) /\ Len(t) \in Nat /\ DOMAIN t = 1 .. Len(t)
      /\ DOMAIN u = 1 .. Len(s) + Len(t)
  BY <1>1, LenProperties
<1> HIDE DEF u
<1>3. ASSUME IsInjective(s), IsInjective(t), Range(s) \cap Range(t) = {}, NEW i \in DOMAIN u, NEW j \in DOMAIN u, u[i] = u[j]
      PROVE  i = j
  <2>1. \A n \in DOMAIN u : \/ n \in DOMAIN s /\ u[n] = s[n]
                            \/ n - Len(s) \in DOMAIN t /\ u[n] = t[n - Len(s)]
    BY <1>1, <1>2
  <2>2. CASE i \in DOMAIN s /\ u[i] = s[i] /\ j \in DOMAIN s /\ u[j] = s[j]
    BY <2>2, <1>3 DEF IsInjective
  <2>3. CASE /\ i - Len(s) \in DOMAIN t /\ u[i] = t[i - Len(s)]
             /\ j - Len(s) \in DOMAIN t /\ u[j] = t[j - Len(s)]
    <3>1. i - Len(s) = j - Len(s)
      BY <2>3, <1>3 DEF IsInjective
    <3> QED  BY <1>2, <3>1
  <2>4. \A m \in DOMAIN s, n \in DOMAIN t : s[m] # t[n]
    BY <1>3 DEF Range
  <2> QED  BY <1>3, <2>1, <2>2, <2>3, <2>4
<1> QED  BY <1>1, <1>3 DEF u, IsInjective

LEMMA PutBackOwns ==
  ASSUME NEW S, NEW s \in Seq(S), NEW x \in S
  PROVE  /\ s \o <<x>> \in Seq(S) /\ Range(s \o <<x>>) = Range(s) \cup {x}
         /\ IsInjective(s) /\ x \notin Range(s) => IsInjective(s \o <<x>>)
<1> DEFINE t == <<x>>
<1>1. t \in Seq(S) /\ Range(t) = {x} /\ IsInjective(t)
  BY DEF Range, IsInjective
<1> HIDE DEF t
<1>2. /\ s \o t \in Seq(S) /\ Range(s \o t) = Range(s) \cup {x}
      /\ IsInjective(s) /\ x \notin Range(s) => IsInjective(s \o t)
  BY <1>1, JoinOwns
<1> QED  BY <1>2 DEF t

LEMMA SmallestOf ==
  ASSUME NEW I, I \subseteq Nat, I # {}
  PROVE  \E m \in I : \A i \in I : m <= i
<1>1. PICK m \in I : \A i \in I : ~(<<i, m>> \in OpToRel(<, Nat))
  BY NatLessThanWellFounded, WFMin
<1>2. \A i \in I : <<i, m>> \in Nat \X Nat
  OBVIOUS
<1>3. \A i \in I : ~(i < m)
  BY <1>1, <1>2 DEF OpToRel
<1> QED  BY <1>3

-----------------------------------------------------------------------------
(* What the steps have in common *)

LEMMA ConTyped ==
  ASSUME TypeOK, NEW c \in Conns
  PROVE  /\ conn[c] \in ConType /\ conn[c].list \in Seq(Ress) /\ OnList(c) \subseteq Ress
         /\ \A r \in OnList(c) : r \in Ress
<1>1. conn[c] \in ConType /\ conn[c].list \in Seq(Ress)
  BY DEF TypeOK, ConType
<1> QED  BY <1>1, RangeOfSeq DEF OnList

LEMMA BusyTyped ==
  ASSUME TypeOK
  PROVE  /\ Busy \subseteq Job /\ NULL \notin Busy
         /\ Busy = Range(evalq) \cup ({running[e] : e \in EvalThreads} \ {NULL})
         /\ \A j \in Busy : j.res \in Ress /\ j.req[1] \in Conns
<1>1. Range(evalq) \subseteq Job
  BY RangeOfSeq DEF TypeOK
<1>2. NULL \notin Job
  BY NullAssumption
<1>3. Busy = (Range(evalq) \cup {running[e] : e \in EvalThreads}) \ {NULL}
  BY DEF Busy, Range
<1>4. \A e \in EvalThreads : running[e] \in Job \cup {NULL}
  BY DEF TypeOK
<1>5. \A j \in Job : j.res \in Ress /\ j.req[1] \in Conns
  BY DEF Job, Req
<1> QED  BY <1>1, <1>2, <1>3, <1>4, <1>5

\* Places stays true when no response moves.
LEMMA PlacesFrame ==
  ASSUME TypeOK, Places, UNCHANGED <<made, cache>>,
         \A c \in Conns : conn'[c].list = conn[c].list,
         \A r \in Ress : res'[r].con = res[r].con,
         InHand' => InHand /\ loop'.held = loop.held
  PROVE  Places'
<1>1. \A c \in Conns : OnList(c)' = OnList(c) /\ OnList(c) \subseteq Ress
  BY ConTyped DEF OnList
<1> QED  BY <1>1 DEF Places

\* What remove_dead_res destroys: a first part of the list, of which no response
\* still waits for its message.
LEMMA DeadResIsPrefix ==
  ASSUME TypeOK, NEW c \in Conns
  PROVE  \E k \in 0 .. Len(conn[c].list) :
           /\ DeadRes(c) = SubSeq(conn[c].list, 1, k) /\ Len(DeadRes(c)) = k
           /\ \A i \in 1 .. k : LET r == conn[c].list[i] IN res[r].msgs # <<>> \/ res[r].close
<1> DEFINE list == conn[c].list
           Waits(r) == res[r].msgs = <<>> /\ ~res[r].close
           I == {i \in 1 .. Len(list) : Waits(list[i])}
           first == SelectInSeq(list, LAMBDA r : res[r].msgs = <<>> /\ ~res[r].close)
<1>1. list \in Seq(Ress) /\ Len(list) \in Nat
  BY ConTyped, LenProperties
<1>2. first = IF I # {} THEN Min(I) ELSE 0
  BY DEF SelectInSeq
<1>3. DeadRes(c) = IF first = 0 THEN list ELSE SubSeq(list, 1, first - 1)
  BY DEF DeadRes
<1>4. CASE I = {}
  <2>1. DeadRes(c) = list
    BY <1>2, <1>3, <1>4
  <2>2. list = SubSeq(list, 1, Len(list))
    BY <1>1, SubSeqFull
  <2>3. \A i \in 1 .. Len(list) : ~Waits(list[i])
    BY <1>4
  <2>4. Len(list) \in 0 .. Len(list)
    BY <1>1
  <2> HIDE DEF list
  <2> QED  BY <2>1, <2>2, <2>3, <2>4 DEF list
<1>5. CASE I # {}
  <2>1. I \subseteq Nat
    BY <1>1
  <2>2. PICK m \in I : \A i \in I : m <= i
    BY <1>5, <2>1, SmallestOf
  <2>3. Min(I) \in I /\ \A i \in I : Min(I) <= i
    BY <2>2 DEF Min
  <2>4. first \in 1 .. Len(list) /\ \A i \in 1 .. Len(list) : Waits(list[i]) => first <= i
    BY <1>2, <1>5, <2>3
  <2> HIDE DEF first
  <2>5. /\ first # 0 /\ first - 1 \in 0 .. Len(list) /\ 1 .. first - 1 \subseteq 1 .. Len(list)
        /\ (IF 1 <= first - 1 THEN first - 1 - 1 + 1 ELSE 0) = first - 1
        /\ \A i \in 1 .. first - 1 : ~(first <= i)
    BY <1>1, <2>4, BeforeFirst
  <2>6. DeadRes(c) = SubSeq(list, 1, first - 1)
    BY <1>3, <2>5 DEF first
  <2>7. Len(SubSeq(list, 1, first - 1)) = first - 1
    <3>1. 1 \in Int /\ first - 1 \in Int /\ \A i \in 1 .. first - 1 : list[i] \in Ress
      BY <1>1, <2>5, ElementOfSeq
    <3> QED  BY <2>5, <3>1, SubSeqProperties
  <2>8. \A i \in 1 .. first - 1 : ~Waits(list[i])
    BY <1>1, <2>4, <2>5
  <2> QED  BY <2>5, <2>6, <2>7, <2>8
<1> QED  BY <1>4, <1>5

\* The requests are as they were.
LEMMA JobFrame ==
  ASSUME JobInv, UNCHANGED <<evalq, running>>
  PROVE  JobInv' /\ Busy' = Busy
BY DEF JobInv, Busy

\* A thread takes a request from the queue.
LEMMA TakeJobs ==
  ASSUME TypeOK, NEW e \in EvalThreads, EvalTake(e)
  PROVE  /\ evalq' \in Seq(Job) /\ running' \in [EvalThreads -> Job \cup {NULL}]
         /\ Busy' = Busy /\ (JobInv => JobInv')
<1>1. /\ running[e] = NULL /\ evalq # <<>>
      /\ running' = [running EXCEPT ![e] = Head(evalq)] /\ evalq' = Tail(evalq)
  BY DEF EvalTake
<1>2. evalq \in Seq(Job) /\ running \in [EvalThreads -> Job \cup {NULL}]
  BY DEF TypeOK
<1>3. /\ Head(evalq) \in Job /\ evalq' \in Seq(Job)
      /\ Range(evalq) = Range(evalq') \cup {Head(evalq)}
      /\ IsInjective(evalq) => IsInjective(evalq') /\ Head(evalq) \notin Range(evalq')
  BY <1>1, <1>2, TailOwns
<1>4. /\ running' \in [EvalThreads -> Job \cup {NULL}] /\ running'[e] = Head(evalq)
      /\ \A d \in EvalThreads : d # e => running'[d] = running[d]
  BY <1>1, <1>2, <1>3
<1>5. Busy' = Busy
  <2>1. /\ Busy = (Range(evalq) \cup {running[d] : d \in EvalThreads}) \ {NULL}
        /\ Busy' = (Range(evalq') \cup {running'[d] : d \in EvalThreads}) \ {NULL}
    BY DEF Busy, Range
  <2>2. Head(evalq) # NULL
    BY <1>3, NullAssumption
  <2>3. {running'[d] : d \in EvalThreads} \ {NULL}
          = ({running[d] : d \in EvalThreads} \ {NULL}) \cup {Head(evalq)}
    BY <1>1, <1>4, <2>2
  <2> QED  BY <1>3, <2>1, <2>3
<1>6. JobInv => JobInv'
  BY <1>1, <1>3, <1>4, <1>5 DEF JobInv
<1> QED  BY <1>3, <1>4, <1>5, <1>6

\* A thread is done with its request.
LEMMA DoneJobs ==
  ASSUME TypeOK, JobInv, NEW e \in EvalThreads, running[e] # NULL,
         running' = [running EXCEPT ![e] = NULL], UNCHANGED evalq
  PROVE  JobInv' /\ \A j \in Busy' : j \in Busy /\ j.res # running[e].res
<1> DEFINE job == running[e]
<1>1. /\ running' \in [EvalThreads -> Job \cup {NULL}] /\ running'[e] = NULL
      /\ \A d \in EvalThreads : d # e => running'[d] = running[d] /\ running[d] # job
      /\ job \notin Range(evalq) /\ job \in Busy
  BY DEF TypeOK, JobInv, Busy
<1> HIDE DEF job
<1>2. Busy' \subseteq Busy \ {job}
  <2>1. /\ Busy = (Range(evalq) \cup {running[d] : d \in EvalThreads}) \ {NULL}
        /\ Busy' = (Range(evalq') \cup {running'[d] : d \in EvalThreads}) \ {NULL}
    BY DEF Busy, Range
  <2> QED  BY <1>1, <2>1
<1>3. JobInv'
  <2>1. NULL \notin Range(evalq)
    BY RangeOfSeq, NullAssumption DEF TypeOK
  <2> QED  BY <1>1, <1>2, <2>1 DEF JobInv
<1>4. \A j \in Busy' : j.res # job.res
  BY <1>1, <1>2 DEF JobInv
<1> QED  BY <1>2, <1>3, <1>4 DEF job

\* A request is put on the queue, with a response that no other request has.
LEMMA NewJob ==
  ASSUME TypeOK, JobInv, NEW job \in Job, \A j \in Busy : j.res # job.res,
         evalq' = Append(evalq, job), UNCHANGED running
  PROVE  JobInv' /\ Busy' = Busy \cup {job}
<1>1. evalq \in Seq(Job) /\ job # NULL
  BY NullAssumption DEF TypeOK
<1>2. job \notin Range(evalq) /\ \A e \in EvalThreads : running[e] # job
  BY <1>1, BusyTyped
<1>3. Range(evalq') = Range(evalq) \cup {job} /\ IsInjective(evalq')
  BY <1>1, <1>2, AppendOwns DEF JobInv
<1>4. Busy' = Busy \cup {job}
  <2>1. /\ Busy = (Range(evalq) \cup {running[d] : d \in EvalThreads}) \ {NULL}
        /\ Busy' = (Range(evalq') \cup {running'[d] : d \in EvalThreads}) \ {NULL}
    BY DEF Busy, Range
  <2> QED  BY <1>1, <1>3, <2>1
<1> QED  BY <1>2, <1>3, <1>4 DEF JobInv

LEMMA BusyFrame ==
  ASSUME TypeOK, BusyInv, Busy' \subseteq Busy,
         \A c \in Conns : OnList(c) \subseteq OnList(c)',
         \A j \in Busy' : res'[j.res] = res[j.res]
  PROVE  BusyInv'
BY BusyTyped DEF BusyInv

\* remove_dead_res: the responses that are destroyed go from the list to the cache.
LEMMA RemoveDeadKeeps ==
  ASSUME IInv, NEW c \in Conns, NEW cn \in ConType, cn.list = conn[c].list, RemoveDead(c, cn),
         UNCHANGED <<made, evalv, asked, sent, gone>>,
         loop' \in LoopType, loop'.at = "idle", loop'.held = NULL
  PROVE  IInv'
<1> USE DEF IInv
<1> DEFINE list == conn[c].list
           dead == DeadRes(c)
           left == SubSeq(list, Len(dead) + 1, Len(list))
<1>1. PICK k \in 0 .. Len(list) :
        /\ dead = SubSeq(list, 1, k) /\ Len(dead) = k
        /\ \A i \in 1 .. k : LET r == list[i] IN res[r].msgs # <<>> \/ res[r].close
  BY DeadResIsPrefix
<1>2. list \in Seq(Ress) /\ IsInjective(list)
  BY ConTyped DEF Places
<1>3. /\ dead \in Seq(Ress) /\ left \in Seq(Ress) /\ Range(list) = Range(dead) \cup Range(left)
      /\ IsInjective(dead) /\ IsInjective(left) /\ Range(dead) \cap Range(left) = {}
      /\ \A r \in Range(dead) : res[r].msgs # <<>> \/ res[r].close
  BY <1>1, <1>2, CutOwns
<1>4. /\ cache' = cache \o dead
      /\ res' = [r \in Ress |-> IF r \in Range(dead) THEN [res[r] EXCEPT !.msgs = <<>>] ELSE res[r]]
      /\ conn' = [conn EXCEPT ![c] = [cn EXCEPT !.list = left, !.open = left # <<>>]]
  BY DEF RemoveDead, Destroy
<1> HIDE DEF dead, left
<1>5. /\ conn' \in [Conns -> ConType]
      /\ conn'[c].list = left /\ conn'[c].open = (left # <<>>)
      /\ \A d \in Conns : d # c => conn'[d] = conn[d]
  <2>1. [cn EXCEPT !.list = left, !.open = left # <<>>] \in ConType
    BY <1>3 DEF ConType
  <2> QED  BY <1>4, <2>1 DEF TypeOK, ConType
<1>6. /\ res' \in [Ress -> ResType]
      /\ \A r \in Ress : res'[r].con = res[r].con /\ res'[r].close = res[r].close
      /\ \A r \in Ress : res'[r].msgs = <<>> \/ res'[r] = res[r]
      /\ \A r \in Ress : r \notin Range(dead) => res'[r] = res[r]
  <2>1. \A r \in Ress : res[r] \in ResType
    BY DEF TypeOK
  <2>2. ASSUME NEW x \in ResType
        PROVE  LET y == [x EXCEPT !.msgs = <<>>]
               IN y \in ResType /\ y.con = x.con /\ y.close = x.close /\ y.msgs = <<>>
    <3>1. <<>> \in Seq(Msg)
      BY EmptySeq
    <3> QED  BY <3>1 DEF ResType
  <2>3. ASSUME NEW r \in Ress
        PROVE  /\ res'[r] \in ResType /\ res'[r].con = res[r].con /\ res'[r].close = res[r].close
               /\ res'[r].msgs = <<>> \/ res'[r] = res[r]
               /\ r \notin Range(dead) => res'[r] = res[r]
    <3>1. CASE r \in Range(dead)
      <4>1. res'[r] = [res[r] EXCEPT !.msgs = <<>>]
        BY <1>4, <3>1
      <4> QED  BY <2>1, <2>2, <3>1, <4>1
    <3>2. CASE r \notin Range(dead)
      <4>1. res'[r] = res[r]
        BY <1>4, <3>2
      <4> QED  BY <2>1, <4>1
    <3> QED  BY <3>1, <3>2
  <2>4. DOMAIN res' = Ress /\ res' = [r \in Ress |-> res'[r]]
    BY <1>4
  <2> QED  BY <2>3, <2>4
<1>7. /\ OnList(c) = Range(dead) \cup Range(left) /\ OnList(c)' = Range(left)
      /\ \A d \in Conns : d # c => OnList(d)' = OnList(d)
      /\ \A d \in Conns : OnList(d) \subseteq Ress
  BY <1>3, <1>5, ConTyped DEF OnList
<1>8. /\ cache' \in Seq(Ress) /\ IsInjective(cache') /\ Range(cache') = Range(cache) \cup Range(dead)
  <2>1. IsInjective(cache) /\ Range(cache) \cap Range(dead) = {}
    BY <1>7 DEF Places
  <2>2. cache \in Seq(Ress)
    BY DEF TypeOK
  <2> QED  BY <1>3, <1>4, <2>1, <2>2, JoinOwns
<1>9. TypeOK'
  BY <1>5, <1>6, <1>8 DEF TypeOK, evalv
<1>10. Places'
  <2>1. /\ \A d \in Conns : IsInjective(conn'[d].list) /\ OnList(d)' \subseteq OnList(d)
        /\ \A d \in Conns : OnList(d)' \cap Range(dead) = {}
    BY <1>3, <1>5, <1>7 DEF Places
  <2>2. \A d \in Conns : OnList(d)' \subseteq made'
    BY <2>1 DEF Places
  <2>3. IsInjective(cache') /\ Range(cache') \subseteq made'
    BY <1>7, <1>8 DEF Places
  <2>4. \A d, e \in Conns : d # e => OnList(d)' \cap OnList(e)' = {}
    BY <2>1 DEF Places
  <2>5. \A d \in Conns : OnList(d)' \cap Range(cache') = {}
    BY <1>8, <2>1 DEF Places
  <2>6. \A d \in Conns : \A r \in OnList(d)' : res'[r].con = d
    BY <1>6, <1>7, <2>1 DEF Places
  <2>7. ~InHand'
    BY DEF InHand
  <2> QED  BY <2>1, <2>2, <2>3, <2>4, <2>5, <2>6, <2>7 DEF Places
<1>11. LoopInv'
  BY <1>5 DEF LoopInv, InHand, Writing
<1>12. Plain => JobInv' /\ BusyInv' /\ MsgInv'
  <2> SUFFICES ASSUME Plain PROVE JobInv' /\ BusyInv' /\ MsgInv'
    OBVIOUS
  <2>1. JobInv' /\ Busy' = Busy
    BY JobFrame DEF evalv
  <2>2. BusyInv'
    <3> SUFFICES ASSUME NEW j \in Busy
                 PROVE  j.res \in OnList(j.req[1])' /\ res'[j.res].msgs = <<>> /\ ~res'[j.res].close
      BY <2>1 DEF BusyInv
    <3>1. /\ j.res \in OnList(j.req[1]) /\ res[j.res].msgs = <<>> /\ ~res[j.res].close
          /\ j.res \in Ress /\ j.req[1] \in Conns
      BY BusyTyped DEF BusyInv
    <3>2. j.res \notin Range(dead)
      BY <1>3, <3>1
    <3> QED  BY <1>6, <1>7, <3>1, <3>2
  <2>3. MsgInv'
    BY <1>6 DEF MsgInv
  <2> QED  BY <2>1, <2>2, <2>3
<1> QED  BY <1>9, <1>10, <1>11, <1>12

-----------------------------------------------------------------------------
(* Init *)

LEMMA InitInv == Init => IInv
<1> SUFFICES ASSUME Init PROVE IInv
  OBVIOUS
<1>1. TypeOK
  <2>1. conn \in [Conns -> ConType] /\ res \in [Ress -> ResType] /\ loop \in LoopType
    BY BoundAssumption DEF Init, ConType, ResType, LoopType, Blank, Idle
  <2>2. \A c \in Conns : Len(asked[c]) <= MaxReqs
    BY BoundAssumption DEF Init
  <2> QED  BY <2>1, <2>2 DEF Init, TypeOK
<1>2. Places
  BY DEF Init, Places, OnList, InHand, Idle, Range, IsInjective
<1>3. LoopInv
  BY DEF Init, LoopInv, InHand, Writing, Idle
<1>4. Busy = {}
  BY DEF Init, Busy
<1>5. JobInv /\ BusyInv
  BY <1>4 DEF JobInv, BusyInv, Init, IsInjective, Range
<1>6. MsgInv
  BY DEF MsgInv, Init, Blank, Idle
<1> QED  BY <1>1, <1>2, <1>3, <1>5, <1>6 DEF IInv

-----------------------------------------------------------------------------
(* The evaluation threads and the clients *)

LEMMA EvalTakeKeeps == ASSUME IInv, NEW e \in EvalThreads, EvalTake(e) PROVE IInv'
<1> USE DEF IInv
<1>1. /\ running[e] = NULL /\ evalq # <<>>
      /\ running' = [running EXCEPT ![e] = Head(evalq)] /\ evalq' = Tail(evalq)
      /\ UNCHANGED <<conn, res, made, cache, loop, asked, sent, gone>>
  BY DEF EvalTake, resv
<1>2. /\ evalq' \in Seq(Job) /\ running' \in [EvalThreads -> Job \cup {NULL}]
      /\ Busy' = Busy /\ (JobInv => JobInv')
  BY TakeJobs
<1>3. TypeOK'
  BY <1>1, <1>2 DEF TypeOK
<1>4. Places' /\ LoopInv'
  BY <1>1 DEF Places, LoopInv, OnList, InHand, Writing
<1>5. BusyInv => BusyInv'
  BY <1>1, <1>2 DEF BusyInv, OnList
<1>6. MsgInv => MsgInv'
  BY <1>1 DEF MsgInv
<1> QED  BY <1>2, <1>3, <1>4, <1>5, <1>6

\* A message is added to a response, while the loop is anywhere.
LEMMA PushKeeps ==
  ASSUME TypeOK, Places, LoopInv, NEW r \in Ress, NEW m \in Msg,
         res' = [res EXCEPT ![r] = Push(r, m)],
         UNCHANGED <<conn, made, cache, evalq, loop, asked, sent, gone>>,
         running' \in [EvalThreads -> Job \cup {NULL}]
  PROVE  /\ TypeOK' /\ Places' /\ LoopInv'
         /\ \A q \in Ress : q # r => res'[q] = res[q]
         /\ res[r].msgs = <<>> => res'[r].msgs = <<>> \/ Tail(res'[r].msgs) = <<>>
   <1>1. res[r] \in ResType /\ res[r].msgs \in Seq(Msg)
  BY DEF TypeOK, ResType
<1>2. /\ Push(r, m) \in ResType /\ Push(r, m).con = res[r].con
      /\ Push(r, m).msgs = IF res[r].final THEN res[r].msgs ELSE Append(res[r].msgs, m)
  <2>1. CASE res[r].final
    BY <1>1, <2>1 DEF Push
  <2>2. CASE ~res[r].final
    <3>1. Append(res[r].msgs, m) \in Seq(Msg) /\ m.final \in BOOLEAN
      BY <1>1, AppendProperties DEF Msg
    <3>2. Push(r, m) = [res[r] EXCEPT !.msgs = Append(@, m), !.final = m.final]
      BY <2>2 DEF Push
    <3> QED  BY <1>1, <2>2, <3>1, <3>2 DEF ResType
  <2> QED  BY <2>1, <2>2
<1>3. /\ res' \in [Ress -> ResType] /\ res'[r] = Push(r, m)
      /\ \A q \in Ress : q # r => res'[q] = res[q]
  BY <1>2 DEF TypeOK
<1>4. \A q \in Ress : res'[q].con = res[q].con
  BY <1>2, <1>3
<1>5. \A q \in Ress : res[q].msgs # <<>> => res'[q].msgs # <<>>
  <2>1. Append(res[r].msgs, m) # <<>>
    BY <1>1, AppendOwns
  <2>2. res[r].msgs # <<>> => res'[r].msgs # <<>>
    BY <1>2, <1>3, <2>1
  <2> QED  BY <1>3, <2>2
<1>6. TypeOK'
  BY <1>3 DEF TypeOK
<1>7. Places'
  BY <1>4, PlacesFrame DEF InHand
<1>8. LoopInv'
  <2>1. Writing => Head(conn[loop.con].list) \in Ress
    <3>1. Writing => loop.con \in Conns /\ conn[loop.con].list # <<>>
      BY DEF LoopInv, Writing
    <3>2. \A c \in Conns : conn[c].list \in Seq(Ress)
      BY ConTyped
    <3> QED  BY <3>1, <3>2, TailOwns
  <2>2. InHand => loop.held \in Ress
    BY DEF Places, TypeOK
  <2>3. Writing' = Writing /\ InHand' = InHand
    BY DEF Writing, InHand
  <2>4. Writing => conn[loop.con].list # <<>> /\ res'[Head(conn[loop.con].list)].msgs # <<>>
    BY <1>5, <2>1 DEF LoopInv
  <2>5. loop.at = "sent" => res'[loop.held].msgs # <<>>
    BY <1>5, <2>2 DEF LoopInv, InHand
  <2>6. InHand => res'[loop.held].con = loop.con
    BY <1>4, <2>2 DEF LoopInv
  <2> QED  BY <2>3, <2>4, <2>5, <2>6 DEF LoopInv
<1>9. res[r].msgs = <<>> => res'[r].msgs = <<>> \/ Tail(res'[r].msgs) = <<>>
  <2>1. Append(<<>>, m) = <<m>> /\ Tail(<<m>>) = <<>>
    OBVIOUS
  <2> QED  BY <1>2, <1>3, <2>1
<1> QED  BY <1>2, <1>3, <1>6, <1>7, <1>8, <1>9

LEMMA EvalEarlyKeeps == ASSUME IInv, NEW e \in EvalThreads, EvalEarly(e) PROVE IInv'
<1> USE DEF IInv
<1> DEFINE job == running[e]
           m == [req |-> job.req, final |-> FALSE]
<1>1. /\ job # NULL /\ job.early < MaxEarly
      /\ res' = [res EXCEPT ![job.res] = Push(job.res, m)]
      /\ running' = [running EXCEPT ![e].early = @ + 1]
      /\ UNCHANGED <<conn, made, cache, evalq, loop, asked, sent, gone>>
  BY DEF EvalEarly
<1>2. job \in Job /\ running \in [EvalThreads -> Job \cup {NULL}]
  BY <1>1 DEF TypeOK
<1>3. job.res \in Ress /\ m \in Msg /\ job.early \in 0 .. MaxEarly
  BY <1>2 DEF Job, Msg
<1>4. running' \in [EvalThreads -> Job \cup {NULL}]
  <2>1. [job EXCEPT !.early = @ + 1] \in Job
    BY <1>1, <1>2, <1>3, BoundAssumption DEF Job
  <2> QED  BY <1>1, <1>2, <2>1
<1> HIDE DEF job, m
<1>5. TypeOK' /\ Places' /\ LoopInv'
  BY <1>1, <1>3, <1>4, PushKeeps
<1>6. ~Plain
  BY <1>1, <1>3 DEF Plain
<1> QED  BY <1>5, <1>6

LEMMA EvalFinishKeeps == ASSUME IInv, NEW e \in EvalThreads, EvalFinish(e) PROVE IInv'
<1> USE DEF IInv
<1> DEFINE job == running[e]
           m == [req |-> job.req, final |-> TRUE]
<1>1. /\ job # NULL /\ res' = [res EXCEPT ![job.res] = Push(job.res, m)]
      /\ running' = [running EXCEPT ![e] = NULL]
      /\ UNCHANGED <<conn, made, cache, evalq, loop, asked, sent, gone>>
  BY DEF EvalFinish
<1>2. job \in Job /\ running \in [EvalThreads -> Job \cup {NULL}]
  BY <1>1 DEF TypeOK
<1>3. job.res \in Ress /\ m \in Msg
  BY <1>2 DEF Job, Msg
<1>4. /\ running' \in [EvalThreads -> Job \cup {NULL}] /\ running'[e] = NULL
      /\ \A d \in EvalThreads : d # e => running'[d] = running[d]
  BY <1>1, <1>2
<1>5. job \in Busy
  BY <1>1 DEF Busy
<1>6. Plain => JobInv' /\ \A j \in Busy' : j \in Busy /\ j.res # job.res
  BY <1>1, DoneJobs
<1> HIDE DEF job, m
<1>8. /\ TypeOK' /\ Places' /\ LoopInv'
      /\ \A q \in Ress : q # job.res => res'[q] = res[q]
      /\ res[job.res].msgs = <<>> =>
           res'[job.res].msgs = <<>> \/ Tail(res'[job.res].msgs) = <<>>
  BY <1>1, <1>3, <1>4, PushKeeps
<1>9. ASSUME Plain PROVE JobInv' /\ BusyInv' /\ MsgInv'
  <2> USE <1>9
  <2>1. JobInv' /\ Busy' \subseteq Busy
    BY <1>6
  <2>3. \A j \in Busy' : j.res \in Ress /\ j.res # job.res
    BY <1>6, <2>1, BusyTyped
  <2>4. BusyInv'
    <3>1. \A c \in Conns : OnList(c) \subseteq OnList(c)'
      BY <1>1 DEF OnList
    <3> QED  BY <1>8, <2>1, <2>3, <3>1, BusyFrame
  <2>5. res[job.res].msgs = <<>> /\ job.res \in OnList(job.req[1]) /\ job.req[1] \in Conns
    BY <1>5, BusyTyped DEF BusyInv
  <2>6. loop.at = "finished" => loop.held \in Ress /\ loop.held # job.res
    BY <2>5 DEF Places, InHand, TypeOK
  <2> QED  BY <1>1, <1>8, <2>1, <2>4, <2>5, <2>6 DEF MsgInv
<1> QED  BY <1>8, <1>9

LEMMA LeaveKeeps == ASSUME IInv, NEW c \in Conns, Leave(c) PROVE IInv'
<1>1. gone' \in [Conns -> BOOLEAN] /\ UNCHANGED <<conn, res, made, cache, evalq, running, loop, asked, sent>>
  BY DEF Leave, IInv, TypeOK, resv, evalv
<1>2. TypeOK'
  BY <1>1 DEF IInv, TypeOK
<1>3. Places' /\ LoopInv'
  BY <1>1 DEF IInv, Places, LoopInv, OnList, InHand, Writing
<1>4. JobInv => JobInv' /\ Busy' = Busy
  BY <1>1, JobFrame
<1>5. JobInv /\ BusyInv => BusyInv'
  BY <1>1, <1>4 DEF BusyInv, OnList
<1>6. MsgInv => MsgInv'
  BY <1>1 DEF MsgInv
<1> QED  BY <1>2, <1>3, <1>4, <1>5, <1>6 DEF IInv

\* The loop turns to another place with no response in its hand.
LEMMA LoopTurns ==
  ASSUME IInv, UNCHANGED <<conn, res, made, cache, evalv, asked, sent, gone>>,
         loop' \in LoopType, loop'.at \notin {"sent", "finished"}, loop'.held = NULL,
         loop'.at = "idle" \/ (loop'.con \in Conns /\ conn[loop'.con].open),
         Writing' => /\ conn[loop'.con].list # <<>>
                     /\ res[Head(conn[loop'.con].list)].msgs # <<>>
  PROVE  IInv'
<1> USE DEF IInv
<1>1. TypeOK'
  BY DEF TypeOK, evalv
<1>2. ~InHand'
  BY DEF InHand
<1>3. Places' /\ LoopInv'
  BY <1>2 DEF Places, OnList, LoopInv
<1>4. JobInv => JobInv' /\ Busy' = Busy
  BY JobFrame DEF evalv
<1>5. JobInv /\ BusyInv => BusyInv'
  BY <1>4 DEF BusyInv, OnList
<1>6. MsgInv => MsgInv'
  BY DEF MsgInv
<1> QED  BY <1>1, <1>3, <1>4, <1>5, <1>6

LEMMA PollKeeps ==
  ASSUME IInv, NEW c \in Conns, NEW in \in BOOLEAN, NEW out \in BOOLEAN, NEW hup \in BOOLEAN,
         Poll(c, in, out, hup)
  PROVE  IInv'
<1>1. /\ conn[c].open /\ (out => "out" \in Events(c)) /\ (in \/ out \/ hup)
      /\ loop' = [Idle EXCEPT !.at = IF in THEN "read" ELSE IF out THEN "write" ELSE "hup",
                              !.con = c, !.out = out, !.hup = hup]
      /\ UNCHANGED <<conn, res, made, cache, evalv, asked, sent, gone>>
  BY DEF Poll, resv
<1>2. /\ loop' \in LoopType /\ loop'.at \in {"read", "write", "hup"} /\ loop'.held = NULL
      /\ loop'.con = c /\ loop'.out = out /\ (loop'.at = "write" => out)
  BY <1>1 DEF LoopType, Idle
<1>3. "out" \in Events(c) => conn[c].list # <<>> /\ res[Head(conn[c].list)].msgs # <<>>
  BY DEF Events
<1> QED  BY <1>1, <1>2, <1>3, LoopTurns DEF Writing

-----------------------------------------------------------------------------
(* Removal and reading *)

LEMMA CheckKeeps ==
  ASSUME IInv, NEW c \in Conns, NEW expired \in BOOLEAN, Check(c, expired)
  PROVE  IInv'
<1> USE DEF IInv
<1>1. /\ loop.at = "idle" /\ conn[c] \in ConType /\ loop \in LoopType
      /\ UNCHANGED <<made, evalv, loop, asked, sent, gone>>
  BY ConTyped DEF Check, TypeOK
<1>2. loop.held = NULL
  BY <1>1 DEF LoopInv, InHand
<1>3. CASE RemoveDead(c, conn[c])
  BY <1>1, <1>2, <1>3, RemoveDeadKeeps
<1>4. CASE conn' = [conn EXCEPT ![c].closing = TRUE] /\ UNCHANGED <<res, cache>>
  <2>1. /\ conn' \in [Conns -> ConType]
        /\ \A d \in Conns : conn'[d].list = conn[d].list /\ conn'[d].open = conn[d].open
    <3>1. [conn[c] EXCEPT !.closing = TRUE] \in ConType
      BY <1>1 DEF ConType
    <3>2. conn' = [conn EXCEPT ![c] = [conn[c] EXCEPT !.closing = TRUE]]
      BY <1>4
    <3> QED  BY <1>1, <3>1, <3>2 DEF TypeOK, ConType
  <2>2. TypeOK'
    BY <1>1, <1>4, <2>1 DEF TypeOK, evalv
  <2>3. ~InHand /\ ~InHand' /\ ~Writing'
    BY <1>1 DEF InHand, Writing
  <2>4. Places'
    BY <1>1, <1>4, <2>1, <2>3, PlacesFrame
  <2>5. LoopInv'
    BY <1>1, <1>2, <2>1, <2>3 DEF LoopInv
  <2>6. JobInv => JobInv' /\ Busy' = Busy
    BY <1>1, JobFrame DEF evalv
  <2>7. JobInv /\ BusyInv => BusyInv'
    BY <1>4, <2>1, <2>6, BusyTyped DEF BusyInv, OnList
  <2>8. MsgInv => MsgInv'
    BY <1>1, <1>4 DEF MsgInv
  <2> QED  BY <2>2, <2>4, <2>5, <2>6, <2>7, <2>8
<1> QED  BY <1>3, <1>4 DEF Check

\* A handler failed: the connection is dead.
LEMMA FailKeeps ==
  ASSUME IInv, NEW c \in Conns, Fail(c), UNCHANGED <<made, evalv, asked, sent, gone>>
  PROVE  IInv'
<1> DEFINE cn == [conn[c] EXCEPT !.dead = TRUE]
<1>1. cn \in ConType /\ cn.list = conn[c].list
  BY ConTyped DEF IInv, ConType
<1>2. loop' \in LoopType /\ loop'.at = "idle" /\ loop'.held = NULL
  BY DEF Fail, Idle, LoopType
<1>3. RemoveDead(c, cn)
  BY DEF Fail
<1> HIDE DEF cn
<1> QED  BY <1>1, <1>2, <1>3, RemoveDeadKeeps

\* Outside "idle" the loop has a connection.
LEMMA AtWork == ASSUME IInv, loop.at # "idle"
                PROVE  loop.con \in Conns /\ conn[loop.con].open
BY DEF IInv, LoopInv

LEMMA ReadFailKeeps == ASSUME IInv, ReadFail PROVE IInv'
<1>1. Fail(loop.con) /\ loop.at # "idle" /\ UNCHANGED <<made, evalv, asked, sent, gone>>
  BY DEF ReadFail
<1> QED  BY <1>1, AtWork, FailKeeps

LEMMA HangUpKeeps == ASSUME IInv, HangUp PROVE IInv'
<1>1. Fail(loop.con) /\ loop.at # "idle" /\ UNCHANGED <<made, evalv, asked, sent, gone>>
  BY DEF HangUp
<1> QED  BY <1>1, AtWork, FailKeeps

\* Where the loop goes after reading and after writing
LEMMA AfterTyped ==
  ASSUME TypeOK
  PROVE  /\ AfterRead \in LoopType /\ AfterRead.at \in {"idle", "write", "hup"}
         /\ AfterRead.at # "idle" => AfterRead.con = loop.con /\ AfterRead.held = loop.held
         /\ AfterRead.at = "idle" => AfterRead.held = NULL
         /\ AfterRead.at = "write" => loop.out
         /\ AfterWrite \in LoopType /\ AfterWrite.at \in {"idle", "hup"}
         /\ AfterWrite.at # "idle" => AfterWrite.con = loop.con
         /\ AfterWrite.held = NULL
<1>1. loop \in LoopType
  BY DEF TypeOK
<1>2. Idle \in LoopType /\ Idle.at = "idle" /\ Idle.held = NULL
  BY DEF Idle, LoopType
<1>3. /\ AfterRead \in LoopType /\ AfterRead.at \in {"idle", "write", "hup"}
      /\ AfterRead.at # "idle" => AfterRead.con = loop.con /\ AfterRead.held = loop.held
      /\ AfterRead.at = "idle" => AfterRead.held = NULL
      /\ AfterRead.at = "write" => loop.out
  <2>1. /\ [loop EXCEPT !.at = "write"] \in LoopType /\ [loop EXCEPT !.at = "hup"] \in LoopType
        /\ [loop EXCEPT !.at = "write"].at = "write" /\ [loop EXCEPT !.at = "hup"].at = "hup"
        /\ [loop EXCEPT !.at = "write"].con = loop.con /\ [loop EXCEPT !.at = "hup"].con = loop.con
        /\ [loop EXCEPT !.at = "write"].held = loop.held
        /\ [loop EXCEPT !.at = "hup"].held = loop.held
    BY <1>1 DEF LoopType
  <2>2. CASE loop.out
    BY <2>1, <2>2 DEF AfterRead
  <2>3. CASE ~loop.out /\ loop.hup
    BY <2>1, <2>3 DEF AfterRead
  <2>4. CASE ~loop.out /\ ~loop.hup
    BY <1>2, <2>4 DEF AfterRead
  <2> QED  BY <2>2, <2>3, <2>4
<1>4. /\ AfterWrite \in LoopType /\ AfterWrite.at \in {"idle", "hup"}
      /\ AfterWrite.at # "idle" => AfterWrite.con = loop.con
      /\ AfterWrite.held = NULL
  <2> DEFINE hup == [Idle EXCEPT !.at = "hup", !.con = loop.con]
  <2>1. hup \in LoopType /\ hup.at = "hup" /\ hup.con = loop.con /\ hup.held = NULL
    BY <1>1 DEF Idle, LoopType
  <2>2. AfterWrite = IF loop.hup THEN hup ELSE Idle
    BY DEF AfterWrite
  <2> HIDE DEF hup
  <2> QED  BY <1>2, <2>1, <2>2
<1> QED  BY <1>3, <1>4

\* The response of agoo_res_create is in no other place.
LEMMA CreatedIsFresh ==
  ASSUME IInv, ~InHand, cache # <<>> \/ made # Ress, NEW r \in Created
  PROVE  /\ r \in Ress /\ CacheRest \in Seq(Ress) /\ IsInjective(CacheRest)
         /\ Range(CacheRest) \subseteq Range(cache) \ {r}
         /\ \A c \in Conns : r \notin OnList(c)
<1> USE DEF IInv
<1>1. cache \in Seq(Ress) /\ IsInjective(cache) /\ made \subseteq Ress
  BY DEF TypeOK, Places
<1>2. CASE cache # <<>>
  <2>1. r = Head(cache) /\ CacheRest = Tail(cache)
    BY <1>2 DEF Created, CacheRest
  <2>2. /\ r \in Ress /\ CacheRest \in Seq(Ress) /\ IsInjective(CacheRest)
        /\ r \in Range(cache) /\ Range(CacheRest) \subseteq Range(cache) \ {r}
    BY <1>1, <1>2, <2>1, TailOwns
  <2> QED  BY <2>2 DEF Places
<1>3. CASE cache = <<>>
  <2>1. r \in Ress \ made
    BY <1>1, <1>3 DEF Created
  <2>2. CacheRest = <<>> /\ Range(<<>>) = {} /\ IsInjective(<<>>) /\ <<>> \in Seq(Ress)
    BY <1>3 DEF CacheRest, Range, IsInjective
  <2> QED  BY <2>1, <2>2 DEF Places
<1> QED  BY <1>2, <1>3

LEMMA ReadRequestKeeps ==
  ASSUME IInv, NEW kind \in Kinds, NEW more \in BOOLEAN, ReadRequest(kind, more)
  PROVE  IInv'
<1> USE DEF IInv
<1>0. PICK c \in Conns : c = loop.con /\ conn[c].open
  BY AtWork DEF ReadRequest
<1> DEFINE req == <<c, Len(asked[c]) + 1>>
           job(r) == [req |-> req, res |-> r, early |-> 0]
           new == [Blank(c) EXCEPT !.close = kind.close \/ kind.by = "bad",
                                   !.final = kind.by # "eval",
                                   !.msgs = IF kind.by = "eval" THEN <<>>
                                            ELSE <<[req |-> req, final |-> TRUE]>>]
           cn(r) == [conn[c] EXCEPT !.list = Append(@, r),
                                    !.closing = @ \/ (kind.close /\ kind.by # "bad")]
<1>1. /\ loop.at \in {"read", "more"} /\ MaySend(c)
      /\ cache # <<>> \/ made # Ress
      /\ asked' = [asked EXCEPT ![c] = Append(@, kind)]
      /\ loop' = IF more THEN [loop EXCEPT !.at = "more"] ELSE AfterRead
      /\ UNCHANGED <<running, sent, gone>>
  BY <1>0 DEF ReadRequest
<1>2. PICK r \in Created :
        /\ made' = made \cup {r} /\ cache' = CacheRest
        /\ res' = [res EXCEPT ![r] = new]
        /\ evalq' = IF kind.by # "eval" THEN evalq ELSE Append(evalq, job(r))
        /\ conn' = [conn EXCEPT ![c].list = ResAppend(@, r),
                                ![c].closing = @ \/ (kind.close /\ kind.by # "bad")]
  BY <1>0 DEF ReadRequest
<1>3. c \in Conns /\ conn[c].open /\ conn[c] \in ConType /\ conn[c].list \in Seq(Ress)
  BY <1>0, ConTyped
<1>4. ~InHand /\ loop.held = NULL /\ loop \in LoopType
  BY <1>1 DEF InHand, LoopInv, TypeOK
<1>5. /\ r \in Ress /\ CacheRest \in Seq(Ress) /\ IsInjective(CacheRest)
      /\ Range(CacheRest) \subseteq Range(cache) \ {r}
      /\ \A d \in Conns : r \notin OnList(d)
  BY <1>1, <1>2, <1>4, CreatedIsFresh
<1>6. /\ Len(asked[c]) + 1 \in 1 .. MaxReqs /\ req \in Req /\ req[1] = c
      /\ asked' \in [Conns -> Seq(Kinds)] /\ \A d \in Conns : Len(asked'[d]) <= MaxReqs
  <2>1. asked[c] \in Seq(Kinds) /\ Len(asked[c]) \in Nat /\ Len(asked[c]) < MaxReqs
    BY <1>1, <1>3, LenProperties DEF MaySend, TypeOK
  <2>2. Append(asked[c], kind) \in Seq(Kinds) /\ Len(Append(asked[c], kind)) = Len(asked[c]) + 1
    BY <2>1, AppendProperties
  <2>3. Len(asked[c]) + 1 \in 1 .. MaxReqs /\ Len(asked[c]) + 1 <= MaxReqs
    BY <2>1, BoundAssumption
  <2>4. asked \in [Conns -> Seq(Kinds)] /\ \A d \in Conns : Len(asked[d]) <= MaxReqs
    BY DEF TypeOK
  <2> QED  BY <1>1, <1>3, <2>2, <2>3, <2>4 DEF Req
<1>7. kind.by \in {"eval", "page", "bad"} /\ kind.close \in BOOLEAN
  BY KindAssumption DEF Kind
<1>8. /\ new \in ResType /\ new.con = c
      /\ new.msgs = <<>> \/ Tail(new.msgs) = <<>>
      /\ kind.by = "eval" => new.msgs = <<>> /\ new.close = kind.close
  <2>1. <<>> \in Seq(Msg) /\ <<[req |-> req, final |-> TRUE]>> \in Seq(Msg)
    BY <1>6 DEF Msg
  <2>2. Tail(<<[req |-> req, final |-> TRUE]>>) = <<>>
    OBVIOUS
  <2> HIDE DEF req
  <2> QED  BY <1>3, <1>7, <2>1, <2>2 DEF Blank, ResType
<1>9. /\ cn(r) \in ConType /\ cn(r).list = Append(conn[c].list, r) /\ cn(r).open = conn[c].open
      /\ conn' = [conn EXCEPT ![c] = cn(r)]
  <2>1. Append(conn[c].list, r) \in Seq(Ress)
    BY <1>3, <1>5, AppendOwns
  <2> QED  BY <1>2, <1>3, <1>7, <2>1 DEF ConType, ResAppend
<1>10. job(r) \in Job /\ job(r).res = r /\ job(r).req[1] = c /\ job(r) # NULL
  <2> HIDE DEF req
  <2>1. 0 \in 0 .. MaxEarly
    BY BoundAssumption
  <2>2. job(r) \in Job
    BY <1>5, <1>6, <2>1 DEF Job
  <2> QED  BY <1>6, <2>2, NullAssumption
<1> HIDE DEF new, cn, req, job
<1>11. /\ conn' \in [Conns -> ConType] /\ conn'[c].list = Append(conn[c].list, r)
       /\ \A d \in Conns : conn'[d].open = conn[d].open
       /\ \A d \in Conns : d # c => conn'[d].list = conn[d].list
  BY <1>3, <1>9 DEF TypeOK
<1>12. /\ res' \in [Ress -> ResType] /\ res'[r] = new
       /\ \A q \in Ress : q # r => res'[q] = res[q]
  BY <1>2, <1>5, <1>8 DEF TypeOK
<1>13. /\ OnList(c)' = OnList(c) \cup {r} /\ IsInjective(conn'[c].list)
       /\ conn'[c].list # <<>>
       /\ conn[c].list # <<>> => Head(conn'[c].list) = Head(conn[c].list)
       /\ \A d \in Conns : d # c => OnList(d)' = OnList(d)
       /\ \A d \in Conns : OnList(d) \subseteq Ress
  <2>1. IsInjective(conn[c].list) /\ r \notin Range(conn[c].list)
    BY <1>3, <1>5 DEF Places, OnList
  <2>2. \A d \in Conns : OnList(d) \subseteq Ress
    BY ConTyped
  <2> QED  BY <1>3, <1>5, <1>11, <2>1, <2>2, AppendOwns DEF OnList
<1>14. /\ loop' \in LoopType /\ loop'.at \in {"idle", "more", "write", "hup"} /\ loop'.held = NULL
       /\ loop'.at # "idle" => loop'.con = c
       /\ Writing' => Writing
  <2>1. CASE more
    <3>1. loop' = [loop EXCEPT !.at = "more"]
      BY <1>1, <2>1
    <3>2. loop' \in LoopType /\ loop'.at = "more" /\ loop'.held = NULL /\ loop'.con = c
          /\ loop'.out = loop.out
      BY <1>0, <1>4, <3>1 DEF LoopType
    <3> QED  BY <1>1, <3>2 DEF Writing
  <2>2. CASE ~more
    <3>1. loop' = AfterRead
      BY <1>1, <2>2
    <3> QED  BY <1>0, <1>1, <1>4, <3>1, AfterTyped DEF Writing
  <2> QED  BY <2>1, <2>2
<1>15. evalq' \in Seq(Job)
  <2>1. evalq \in Seq(Job)
    BY DEF TypeOK
  <2> QED  BY <1>2, <1>10, <2>1, AppendProperties
<1>16. TypeOK'
  BY <1>1, <1>2, <1>5, <1>6, <1>11, <1>12, <1>14, <1>15 DEF TypeOK
<1>17. Places'
  <2>1. ~InHand'
    BY <1>14 DEF InHand
  <2>2. \A d \in Conns : IsInjective(conn'[d].list) /\ OnList(d)' \subseteq made'
    BY <1>2, <1>11, <1>13 DEF Places
  <2>3. IsInjective(cache') /\ Range(cache') \subseteq made'
    BY <1>2, <1>5 DEF Places
  <2>4. \A d, e \in Conns : d # e => OnList(d)' \cap OnList(e)' = {}
    BY <1>5, <1>13 DEF Places
  <2>5. \A d \in Conns : OnList(d)' \cap Range(cache') = {}
    BY <1>2, <1>5, <1>13 DEF Places
  <2>6. \A d \in Conns : \A q \in OnList(d)' : res'[q].con = d
    BY <1>3, <1>5, <1>8, <1>12, <1>13 DEF Places
  <2> QED  BY <2>1, <2>2, <2>3, <2>4, <2>5, <2>6 DEF Places
<1>18. LoopInv'
  <2>1. ~InHand'
    BY <1>14 DEF InHand
  <2>2. ASSUME Writing'
        PROVE  conn'[loop'.con].list # <<>> /\ res'[Head(conn'[loop'.con].list)].msgs # <<>>
    <3>1. Writing /\ loop'.con = c
      BY <1>14, <2>2 DEF Writing
    <3>2. conn[c].list # <<>> /\ res[Head(conn[c].list)].msgs # <<>>
      BY <1>0, <3>1 DEF LoopInv
    <3>3. Head(conn[c].list) \in Ress /\ Head(conn[c].list) # r
      BY <1>3, <1>5, <3>2, TailOwns DEF OnList
    <3> QED  BY <1>12, <1>13, <3>1, <3>2, <3>3
  <2>3. \A d \in Conns : ~conn'[d].open => conn'[d].list = <<>>
    BY <1>3, <1>11 DEF LoopInv
  <2>4. loop'.at = "idle" \/ (loop'.con \in Conns /\ conn'[loop'.con].open)
    BY <1>3, <1>11, <1>14
  <2> QED  BY <1>14, <2>1, <2>2, <2>3, <2>4 DEF LoopInv, InHand
<1>19. ASSUME Plain PROVE JobInv' /\ BusyInv' /\ MsgInv'
  <2> USE <1>19
  <2>1. MsgInv'
    BY <1>8, <1>12, <1>14 DEF MsgInv
  <2>2. \A j \in Busy : j.res \in Ress /\ j.req[1] \in Conns /\ j.res # r /\ j # job(r)
    BY <1>5, <1>10, BusyTyped DEF BusyInv
  <2>3. \A j \in Busy : /\ j.res \in OnList(j.req[1])' /\ res'[j.res].msgs = <<>>
                        /\ ~res'[j.res].close
    BY <1>12, <1>13, <2>2 DEF BusyInv
  <2>4. CASE kind.by # "eval"
    <3>1. JobInv' /\ Busy' = Busy
      BY <1>1, <1>2, <2>4, JobFrame
    <3> QED  BY <2>1, <2>3, <3>1 DEF BusyInv
  <2>5. CASE kind.by = "eval"
    <3>1. evalq' = Append(evalq, job(r))
      BY <1>2, <2>5
    <3>2. JobInv' /\ Busy' = Busy \cup {job(r)}
      BY <1>1, <1>10, <2>2, <3>1, NewJob
    <3>6. /\ r \in OnList(c)' /\ res'[r].msgs = <<>> /\ ~res'[r].close
      BY <1>8, <1>12, <1>13, <2>5 DEF Plain
    <3>7. BusyInv'
      BY <1>10, <2>3, <3>2, <3>6 DEF BusyInv
    <3> QED  BY <2>1, <3>2, <3>7
  <2> QED  BY <2>4, <2>5
<1> QED  BY <1>16, <1>17, <1>18, <1>19

-----------------------------------------------------------------------------
(* Writing *)

\* The head of the list, with a message, goes to the hand of the loop or is lost.
LEMMA PopKeeps ==
  ASSUME IInv, loop.at = "write", NEW c \in Conns, c = loop.con, NEW cn \in ConType,
         cn.list = Tail(conn[c].list), cn.open = conn[c].open,
         conn' = [conn EXCEPT ![c] = cn],
         UNCHANGED <<res, made, cache, evalv, asked, gone>>,
         sent' \in [Conns -> Seq(Msg)], loop' \in LoopType,
         loop'.con = c, ~Writing', loop'.at # "finished", InHand' <=> loop'.held # NULL,
         InHand' => loop'.held = Head(conn[c].list)
  PROVE  IInv'
<1> USE DEF IInv
<1> DEFINE r == Head(conn[c].list)
<1>1. conn[c].list \in Seq(Ress) /\ conn[c].open
  BY ConTyped, AtWork
<1>2. conn[c].list # <<>> /\ res[Head(conn[c].list)].msgs # <<>>
  BY DEF LoopInv, Writing
<1>3. /\ conn' \in [Conns -> ConType] /\ conn'[c].list = Tail(conn[c].list)
      /\ \A d \in Conns : conn'[d].open = conn[d].open
      /\ \A d \in Conns : d # c => conn'[d].list = conn[d].list
  BY DEF TypeOK
<1>4. /\ Head(conn[c].list) \in OnList(c) /\ OnList(c)' = OnList(c) \ {Head(conn[c].list)}
      /\ IsInjective(conn'[c].list) /\ Head(conn[c].list) \in Ress
  <2>1. /\ Head(conn[c].list) \in Ress
        /\ Range(conn[c].list) = Range(Tail(conn[c].list)) \cup {Head(conn[c].list)}
        /\ IsInjective(conn[c].list) =>
             /\ IsInjective(Tail(conn[c].list))
             /\ Head(conn[c].list) \notin Range(Tail(conn[c].list))
    BY <1>1, <1>2, TailOwns
  <2>2. IsInjective(conn[c].list)
    BY DEF Places
  <2> QED  BY <1>3, <2>1, <2>2 DEF OnList
<1>5. \A d \in Conns : d # c => OnList(d)' = OnList(d)
  BY <1>3 DEF OnList
<1>6. PICK head \in Ress : /\ head = Head(conn[c].list) /\ res[head].msgs # <<>>
                           /\ head \in OnList(c) /\ OnList(c)' = OnList(c) \ {head}
  BY <1>2, <1>4
<1>7. TypeOK'
  BY <1>3 DEF TypeOK, evalv
<1>8. Places'
  <2>1. \A d \in Conns : IsInjective(conn'[d].list) /\ OnList(d)' \subseteq OnList(d)
    BY <1>3, <1>4, <1>5 DEF Places
  <2>2. InHand' => loop'.held = head
    BY <1>6
  <2>3. head \in made \ Range(cache)
    BY <1>6 DEF Places
  <2>4. \A d \in Conns : d # c => head \notin OnList(d)
    BY <1>6 DEF Places
  <2>5. \A d \in Conns : head \notin OnList(d)'
    BY <1>5, <1>6, <2>4
  <2>6. \A d \in Conns : OnList(d)' \subseteq made /\ OnList(d)' \cap Range(cache) = {}
    BY <2>1 DEF Places
  <2>7. \A d, e \in Conns : d # e => OnList(d)' \cap OnList(e)' = {}
    BY <2>1 DEF Places
  <2> QED  BY <2>1, <2>2, <2>3, <2>5, <2>6, <2>7 DEF Places
<1>9. LoopInv'
  <2>1. InHand' => loop'.held = head /\ res[head].con = c /\ res[head].msgs # <<>>
    BY <1>6 DEF Places
  <2>2. \A d \in Conns : ~conn'[d].open => conn'[d].list = <<>>
    BY <1>1, <1>3 DEF LoopInv
  <2>3. loop'.at = "sent" => InHand'
    BY DEF InHand
  <2> QED  BY <1>1, <1>3, <2>1, <2>2, <2>3 DEF LoopInv
<1>10. JobInv => JobInv' /\ Busy' = Busy
  BY JobFrame DEF evalv
<1>11. JobInv /\ BusyInv => BusyInv'
  <2>1. ASSUME BusyInv, NEW j \in Busy PROVE j.res \in OnList(j.req[1])'
    BY <1>5, <1>6, <2>1, BusyTyped DEF BusyInv
  <2> QED  BY <1>10, <2>1 DEF BusyInv
<1>12. MsgInv => MsgInv'
  BY DEF MsgInv
<1> QED  BY <1>7, <1>8, <1>9, <1>10, <1>11, <1>12

LEMMA WritePieceKeeps == ASSUME IInv, WritePiece PROVE IInv'
<1> USE DEF IInv
<1>0. PICK c \in Conns : c = loop.con /\ conn[c].open
  BY AtWork DEF WritePiece
<1>1. /\ loop.at = "write" /\ conn[c] \in ConType /\ conn[c].list \in Seq(Ress) /\ loop \in LoopType
      /\ UNCHANGED <<res, made, cache, evalv, asked, gone>>
  BY ConTyped DEF WritePiece, resv, TypeOK
<1>2. conn[c].list # <<>> /\ res[Head(conn[c].list)].msgs # <<>>
  BY <1>0, <1>1 DEF LoopInv, Writing
<1>3. PICK r \in Ress : r = Head(conn[c].list) /\ res[r].msgs # <<>>
  BY <1>1, <1>2, TailOwns
<1>4. CASE /\ conn[c].wcnt + 1 < MsgLen /\ conn' = [conn EXCEPT ![c].wcnt = @ + 1]
           /\ loop' = AfterWrite /\ UNCHANGED sent
  <2>1. [conn[c] EXCEPT !.wcnt = @ + 1] \in ConType
    <3>1. conn[c].wcnt + 1 \in 0 .. MsgLen - 1
      BY <1>1, <1>4, BoundAssumption DEF ConType
    <3> QED  BY <1>1, <3>1 DEF ConType
  <2>2. conn' = [conn EXCEPT ![c] = [conn[c] EXCEPT !.wcnt = @ + 1]]
    BY <1>4
  <2>3. /\ conn' \in [Conns -> ConType]
        /\ \A d \in Conns : conn'[d].list = conn[d].list /\ conn'[d].open = conn[d].open
    BY <1>1, <2>1, <2>2 DEF TypeOK, ConType
  <2>4. /\ loop' \in LoopType /\ loop'.at \in {"idle", "hup"} /\ loop'.held = NULL
        /\ loop'.at # "idle" => loop'.con = c
    BY <1>0, <1>4, AfterTyped
  <2>5. ~InHand' /\ ~Writing'
    BY <2>4 DEF InHand, Writing
  <2>6. TypeOK'
    BY <1>1, <1>4, <2>3, <2>4 DEF TypeOK, evalv
  <2>7. Places'
    BY <1>1, <2>3, <2>5, PlacesFrame
  <2>8. LoopInv'
    BY <1>0, <2>3, <2>4, <2>5 DEF LoopInv, InHand
  <2>9. JobInv => JobInv' /\ Busy' = Busy
    BY <1>1, JobFrame DEF evalv
  <2>10. JobInv /\ BusyInv => BusyInv'
    BY <1>1, <2>3, <2>9, BusyTyped DEF BusyInv, OnList
  <2>11. MsgInv => MsgInv'
    BY <1>1, <2>4 DEF MsgInv
  <2> QED  BY <2>6, <2>7, <2>8, <2>9, <2>10, <2>11
<1>5. CASE /\ conn' = [conn EXCEPT ![c].list = Tail(@)]
           /\ loop' = [loop EXCEPT !.at = "sent", !.held = r]
           /\ sent' = [sent EXCEPT ![c] = Append(@, Head(res[r].msgs))]
  <2> DEFINE cn == [conn[c] EXCEPT !.list = Tail(@)]
  <2>1. cn \in ConType /\ cn.list = Tail(conn[c].list) /\ cn.open = conn[c].open
        /\ conn' = [conn EXCEPT ![c] = cn]
    <3>1. Tail(conn[c].list) \in Seq(Ress)
      BY <1>1, <1>2, TailOwns
    <3> QED  BY <1>1, <1>5, <3>1 DEF ConType
  <2>2. sent' \in [Conns -> Seq(Msg)]
    <3>1. res[r].msgs \in Seq(Msg) /\ sent[c] \in Seq(Msg)
      BY DEF TypeOK, ResType
    <3>2. Append(sent[c], Head(res[r].msgs)) \in Seq(Msg)
      BY <1>3, <3>1, TailOwns, AppendProperties
    <3> QED  BY <1>5, <3>2 DEF TypeOK
  <2>3. loop' \in LoopType /\ loop'.con = c /\ loop'.at = "sent" /\ loop'.held = r
    BY <1>0, <1>1, <1>5 DEF LoopType
  <2>4. r # NULL
    BY NullAssumption
  <2>5. InHand' /\ ~Writing'
    BY <2>3 DEF InHand, Writing
  <2> HIDE DEF cn
  <2> QED  BY <1>0, <1>1, <1>3, <2>1, <2>2, <2>3, <2>4, <2>5, PopKeeps
<1> QED  BY <1>0, <1>3, <1>4, <1>5 DEF WritePiece

LEMMA WriteFailKeeps == ASSUME IInv, WriteFail PROVE IInv'
<1> USE DEF IInv
<1>0. PICK c \in Conns : c = loop.con /\ conn[c].open
  BY AtWork DEF WriteFail
<1> DEFINE cn == [conn[c] EXCEPT !.list = Tail(@), !.dead = TRUE]
<1>1. /\ loop.at = "write" /\ conn[c] \in ConType /\ conn[c].list \in Seq(Ress)
      /\ conn' = [conn EXCEPT ![c] = cn] /\ loop' = [Idle EXCEPT !.at = "hup", !.con = c]
      /\ UNCHANGED <<res, made, cache, evalv, asked, sent, gone>>
  BY <1>0, ConTyped DEF WriteFail, resv, TypeOK
<1>2. conn[c].list # <<>>
  BY <1>0, <1>1 DEF LoopInv, Writing
<1>3. cn \in ConType /\ cn.list = Tail(conn[c].list) /\ cn.open = conn[c].open
  <2>1. Tail(conn[c].list) \in Seq(Ress)
    BY <1>1, <1>2, TailOwns
  <2> QED  BY <1>1, <2>1 DEF ConType
<1>4. loop' \in LoopType /\ loop'.con = c /\ loop'.at = "hup" /\ loop'.held = NULL
  BY <1>1 DEF Idle, LoopType
<1>5. ~InHand' /\ ~Writing'
  BY <1>4 DEF InHand, Writing
<1>6. sent' \in [Conns -> Seq(Msg)]
  BY <1>1 DEF TypeOK
<1> HIDE DEF cn
<1> QED  BY <1>0, <1>1, <1>3, <1>4, <1>5, <1>6, PopKeeps

LEMMA MessageNextKeeps == ASSUME IInv, MessageNext PROVE IInv'
<1> USE DEF IInv
<1>0. PICK c \in Conns : c = loop.con /\ conn[c].open
  BY AtWork DEF MessageNext
<1>1. /\ loop.at = "sent" /\ InHand /\ loop.held \in made
      /\ res[loop.held].msgs # <<>> /\ res[loop.held].con = c
  BY <1>0 DEF MessageNext, InHand, Places, LoopInv
<1>2. PICK r \in Ress : r = loop.held
  BY <1>1 DEF TypeOK
<1>3. /\ res' = [res EXCEPT ![r].msgs = Tail(@)]
      /\ loop' = [loop EXCEPT !.at = "finished", !.more = Len(res[r].msgs) > 1]
      /\ conn' = [conn EXCEPT ![c].wcnt = 0]
      /\ UNCHANGED <<made, cache, evalv, asked, sent, gone>>
  BY <1>0, <1>2 DEF MessageNext
<1>4. /\ res' \in [Ress -> ResType] /\ res'[r].msgs = Tail(res[r].msgs)
      /\ \A q \in Ress : res'[q].con = res[q].con /\ (q # r => res'[q] = res[q])
  <2>1. res[r] \in ResType
    BY DEF TypeOK
  <2>2. res[r].msgs \in Seq(Msg) /\ Tail(res[r].msgs) \in Seq(Msg)
    BY <1>1, <1>2, <2>1, TailOwns DEF ResType
  <2>3. [res[r] EXCEPT !.msgs = Tail(@)] \in ResType
    BY <2>1, <2>2 DEF ResType
  <2>4. res' = [res EXCEPT ![r] = [res[r] EXCEPT !.msgs = Tail(@)]]
    BY <1>3
  <2>5. /\ [res[r] EXCEPT !.msgs = Tail(@)].msgs = Tail(res[r].msgs)
        /\ [res[r] EXCEPT !.msgs = Tail(@)].con = res[r].con
    BY <2>1 DEF ResType
  <2> QED  BY <2>3, <2>4, <2>5 DEF TypeOK
<1>5. /\ conn' \in [Conns -> ConType]
      /\ \A d \in Conns : conn'[d].list = conn[d].list /\ conn'[d].open = conn[d].open
  <2>1. conn[c] \in ConType /\ 0 \in 0 .. MsgLen - 1
    BY ConTyped, BoundAssumption
  <2>2. [conn[c] EXCEPT !.wcnt = 0] \in ConType
    BY <2>1 DEF ConType
  <2>3. conn' = [conn EXCEPT ![c] = [conn[c] EXCEPT !.wcnt = 0]]
    BY <1>3
  <2> QED  BY <2>1, <2>2, <2>3 DEF TypeOK, ConType
<1>6. loop' \in LoopType /\ loop'.at = "finished" /\ loop'.held = r /\ loop'.con = c
  <2>1. loop \in LoopType /\ (Len(res[r].msgs) > 1) \in BOOLEAN
    BY DEF TypeOK
  <2> QED  BY <1>0, <1>2, <1>3, <2>1 DEF LoopType
<1>7. InHand' /\ ~Writing'
  BY <1>6 DEF InHand, Writing
<1>8. TypeOK'
  BY <1>3, <1>4, <1>5, <1>6 DEF TypeOK, evalv
<1>9. Places'
  BY <1>1, <1>2, <1>3, <1>4, <1>5, <1>6, PlacesFrame
<1>10. LoopInv'
  <2>1. r # NULL
    BY NullAssumption
  <2> QED  BY <1>0, <1>1, <1>2, <1>4, <1>5, <1>6, <1>7, <2>1 DEF LoopInv
<1>11. JobInv => JobInv' /\ Busy' = Busy
  BY <1>3, JobFrame DEF evalv
<1>12. JobInv /\ BusyInv => BusyInv'
  <2> SUFFICES ASSUME JobInv, BusyInv PROVE BusyInv'
    OBVIOUS
  <2>1. \A j \in Busy : j.res \in Ress /\ j.req[1] \in Conns /\ j.res # r
    BY <1>1, <1>2, BusyTyped DEF BusyInv, Places
  <2>2. \A d \in Conns : OnList(d)' = OnList(d)
    BY <1>5 DEF OnList
  <2> QED  BY <1>4, <1>11, <2>1, <2>2 DEF BusyInv
<1>13. MsgInv => MsgInv'
  BY <1>1, <1>2, <1>4, <1>6 DEF MsgInv
<1> QED  BY <1>8, <1>9, <1>10, <1>11, <1>12, <1>13

LEMMA FinishedKeeps == ASSUME IInv, Finished PROVE IInv'
<1> USE DEF IInv
<1>0. PICK c \in Conns : c = loop.con /\ conn[c].open
  BY AtWork DEF Finished
<1>1. /\ loop.at = "finished" /\ InHand /\ loop.held \in made \ Range(cache)
      /\ res[loop.held].con = c /\ \A d \in Conns : loop.held \notin OnList(d)
      /\ UNCHANGED <<made, evalv, asked, sent, gone>>
  BY <1>0 DEF Finished, InHand, Places, LoopInv
<1>2. PICK r \in Ress : r = loop.held
  BY <1>1 DEF TypeOK
<1>3. /\ loop' \in LoopType /\ loop'.at \in {"idle", "hup"} /\ loop'.held = NULL
      /\ loop'.at # "idle" => loop'.con = c
  <2>1. CASE loop' = AfterWrite
    BY <1>0, <2>1, AfterTyped
  <2>2. CASE loop' = [Idle EXCEPT !.at = "hup", !.con = c]
    BY <2>2 DEF Idle, LoopType
  <2> QED  BY <1>0, <2>1, <2>2 DEF Finished
<1>4. ~InHand' /\ ~Writing'
  BY <1>3 DEF InHand, Writing
<1>5. JobInv => JobInv' /\ Busy' = Busy
  BY <1>1, JobFrame DEF evalv
<1>6. ASSUME BusyInv, NEW j \in Busy
      PROVE  j.res \in Ress /\ j.req[1] \in Conns /\ j.res # r /\ j.res \in OnList(j.req[1])
  BY <1>1, <1>2, <1>6, BusyTyped DEF BusyInv
<1>7. \A d \in Conns : conn[d].list \in Seq(Ress) /\ conn[d] \in ConType
  BY ConTyped
<1>8. CASE /\ Destroy(<<r>>)
           /\ \/ conn' = [conn EXCEPT ![c].dead = TRUE]
              \/ conn' = conn
  <2>1. /\ res' = [q \in Ress |-> IF q \in Range(<<r>>) THEN [res[q] EXCEPT !.msgs = <<>>]
                                  ELSE res[q]]
        /\ cache' = cache \o <<r>>
    BY <1>8 DEF Destroy
  <2>2. Range(<<r>>) = {r}
    BY DEF Range
  <2>3. cache' \in Seq(Ress) /\ IsInjective(cache') /\ Range(cache') = Range(cache) \cup {r}
    <3>1. cache \in Seq(Ress) /\ IsInjective(cache) /\ r \notin Range(cache)
      BY <1>1, <1>2 DEF TypeOK, Places
    <3> QED  BY <2>1, <3>1, PutBackOwns
  <2>4. /\ res' \in [Ress -> ResType] /\ res'[r].msgs = <<>>
        /\ \A q \in Ress : res'[q].con = res[q].con /\ (q # r => res'[q] = res[q])
    <3>1. \A q \in Ress : res[q] \in ResType
      BY DEF TypeOK
    <3>2. <<>> \in Seq(Msg)
      BY EmptySeq
    <3>3. /\ [res[r] EXCEPT !.msgs = <<>>] \in ResType /\ [res[r] EXCEPT !.msgs = <<>>].msgs = <<>>
          /\ [res[r] EXCEPT !.msgs = <<>>].con = res[r].con
      BY <3>1, <3>2 DEF ResType
    <3>4. res'[r] = [res[r] EXCEPT !.msgs = <<>>] /\ \A q \in Ress : q # r => res'[q] = res[q]
      BY <2>1, <2>2
    <3>5. \A q \in Ress : res'[q] \in ResType
      BY <3>1, <3>3, <3>4
    <3>6. res' = [q \in Ress |-> res'[q]]
      BY <2>1
    <3> QED  BY <3>3, <3>4, <3>5, <3>6
  <2>5. /\ conn' \in [Conns -> ConType]
        /\ \A d \in Conns : conn'[d].list = conn[d].list /\ conn'[d].open = conn[d].open
    <3>1. [conn[c] EXCEPT !.dead = TRUE] \in ConType
      BY <1>7 DEF ConType
    <3>2. CASE conn' = [conn EXCEPT ![c].dead = TRUE]
      <4>1. conn' = [conn EXCEPT ![c] = [conn[c] EXCEPT !.dead = TRUE]]
        BY <3>2
      <4> QED  BY <1>7, <3>1, <4>1 DEF TypeOK, ConType
    <3>3. CASE conn' = conn
      BY <3>3 DEF TypeOK
    <3> QED  BY <1>8, <3>2, <3>3
  <2>6. TypeOK'
    BY <1>1, <1>3, <2>3, <2>4, <2>5 DEF TypeOK, evalv
  <2>7. \A d \in Conns : OnList(d)' = OnList(d) /\ OnList(d) \subseteq Ress
    BY <2>5, ConTyped DEF OnList
  <2>8. Places'
    <3>1. \A d \in Conns : OnList(d)' \cap Range(cache') = {}
      BY <1>1, <1>2, <2>3, <2>7 DEF Places
    <3>2. \A d \in Conns : \A q \in OnList(d)' : res'[q].con = d
      BY <2>4, <2>7 DEF Places
    <3>3. Range(cache') \subseteq made'
      BY <1>1, <1>2, <2>3 DEF Places
    <3> QED  BY <1>1, <1>4, <2>3, <2>5, <2>7, <3>1, <3>2, <3>3 DEF Places
  <2>9. LoopInv'
    BY <1>0, <1>3, <1>4, <2>5 DEF LoopInv, InHand
  <2>10. JobInv /\ BusyInv => BusyInv'
    BY <1>5, <1>6, <2>4, <2>7 DEF BusyInv
  <2>11. MsgInv => MsgInv'
    BY <1>3, <2>4 DEF MsgInv
  <2> QED  BY <1>5, <2>6, <2>8, <2>9, <2>10, <2>11
<1>9. CASE conn' = [conn EXCEPT ![c].list = <<r>> \o @] /\ UNCHANGED <<res, cache>>
  <2> DEFINE cn == [conn[c] EXCEPT !.list = <<r>> \o @]
  <2>1. IsInjective(conn[c].list) /\ r \notin Range(conn[c].list)
    BY <1>1, <1>2 DEF Places, OnList
  <2>2. cn \in ConType /\ cn.list = <<r>> \o conn[c].list /\ cn.open = conn[c].open
        /\ conn' = [conn EXCEPT ![c] = cn]
    <3>1. <<r>> \o conn[c].list \in Seq(Ress)
      BY <1>7, PushOwns
    <3> QED  BY <1>7, <1>9, <3>1 DEF ConType
  <2> HIDE DEF cn
  <2>3. /\ conn' \in [Conns -> ConType] /\ conn'[c].list = <<r>> \o conn[c].list
        /\ \A d \in Conns : conn'[d].open = conn[d].open
        /\ \A d \in Conns : d # c => conn'[d].list = conn[d].list
    BY <2>2 DEF TypeOK
  <2>4. OnList(c)' = OnList(c) \cup {r} /\ IsInjective(conn'[c].list)
    BY <1>7, <2>1, <2>3, PushOwns DEF OnList
  <2>5. \A d \in Conns : d # c => OnList(d)' = OnList(d)
    BY <2>3 DEF OnList
  <2>6. TypeOK'
    BY <1>1, <1>3, <1>9, <2>3 DEF TypeOK, evalv
  <2>7. Places'
    <3>1. \A d \in Conns : IsInjective(conn'[d].list)
      BY <2>3, <2>4 DEF Places
    <3>5. \A d \in Conns : OnList(d)' \subseteq made'
      BY <1>1, <1>2, <2>4, <2>5 DEF Places
    <3>2. \A d, e \in Conns : d # e => OnList(d)' \cap OnList(e)' = {}
      BY <1>1, <1>2, <2>4, <2>5 DEF Places
    <3>3. \A d \in Conns : OnList(d)' \cap Range(cache') = {}
      BY <1>1, <1>2, <1>9, <2>4, <2>5 DEF Places
    <3>4. \A d \in Conns : \A q \in OnList(d)' : res'[q].con = d
      BY <1>1, <1>2, <1>9, <2>4, <2>5 DEF Places
    <3> QED  BY <1>1, <1>4, <1>9, <3>1, <3>2, <3>3, <3>4, <3>5 DEF Places
  <2>8. LoopInv'
    BY <1>0, <1>3, <1>4, <2>3 DEF LoopInv, InHand
  <2>9. JobInv /\ BusyInv => BusyInv'
    BY <1>5, <1>6, <1>9, <2>4, <2>5 DEF BusyInv
  <2>10. MsgInv => MsgInv'
    BY <1>3, <1>9 DEF MsgInv
  <2> QED  BY <1>5, <2>6, <2>7, <2>8, <2>9, <2>10
<1> QED  BY <1>0, <1>2, <1>8, <1>9 DEF Finished

-----------------------------------------------------------------------------
(* The theorems *)

LEMMA NextInv == IInv /\ [Next]_vars => IInv'
<1> SUFFICES ASSUME IInv, [Next]_vars PROVE IInv'
  OBVIOUS
<1>1. CASE UNCHANGED vars
  <2>1. UNCHANGED <<conn, res, made, cache, evalq, running, loop, asked, sent, gone>>
    BY <1>1 DEF vars, resv, evalv
  <2>2. TypeOK'
    BY <2>1 DEF IInv, TypeOK
  <2>3. Places' /\ LoopInv'
    BY <2>1 DEF IInv, Places, LoopInv, OnList, InHand, Writing
  <2>4. JobInv => JobInv' /\ Busy' = Busy
    BY <2>1, JobFrame
  <2>5. JobInv /\ BusyInv => BusyInv'
    BY <2>1, <2>4 DEF BusyInv, OnList
  <2>6. MsgInv => MsgInv'
    BY <2>1 DEF MsgInv
  <2> QED  BY <2>2, <2>3, <2>4, <2>5, <2>6 DEF IInv
<1>2. CASE \E e \in EvalThreads : EvalStep(e) \/ EvalEarly(e)
  BY <1>2, EvalTakeKeeps, EvalFinishKeeps, EvalEarlyKeeps DEF EvalStep
<1>3. CASE \E c \in Conns : \/ Leave(c)
                            \/ \E in, out, hup \in BOOLEAN : Poll(c, in, out, hup)
                            \/ \E expired \in BOOLEAN : Check(c, expired)
  BY <1>3, LeaveKeeps, PollKeeps, CheckKeeps
<1>4. CASE Dispatch
  <2>1. CASE \E kind \in Kinds, more \in BOOLEAN : ReadRequest(kind, more)
    BY <2>1, ReadRequestKeeps
  <2> QED  BY <1>4, <2>1, ReadFailKeeps, WritePieceKeeps, WriteFailKeeps, MessageNextKeeps,
              FinishedKeeps, HangUpKeeps DEF Dispatch
<1> QED  BY <1>1, <1>2, <1>3, <1>4 DEF Next

LEMMA Invariance == Spec => []IInv
<1>1. Init => IInv
  BY InitInv
<1>2. IInv /\ [Next]_vars => IInv'
  BY NextInv
<1> QED  BY <1>1, <1>2, PTL DEF Spec

\* Every variable of the connections, the responses, the queue and the loop keeps
\* its type, whatever the clients and the handlers do (con.c, res.c).
THEOREM TypeCorrect == Spec => []TypeOK
<1>1. IInv => TypeOK
  BY DEF IInv
<1> QED  BY <1>1, Invariance, PTL

\* A response object is on one list, in the cache, or in the hand of the loop:
\* whatever the requests, early hints and the removal of connections (res.c:11-59,
\* con.c:1117-1150).
THEOREM OwnedOnce == Spec => []OneOwner
<1>1. IInv => OneOwner
  <2> SUFFICES ASSUME IInv PROVE OneOwner
    OBVIOUS
  <2>1. /\ \A c \in Conns : OnList(c) \subseteq Ress
        /\ Range(cache) \subseteq Ress
    BY ConTyped, RangeOfSeq DEF IInv, TypeOK
  <2>2. loop.held \notin Range(cache) /\ \A c \in Conns : loop.held \notin OnList(c)
    BY <2>1, NullAssumption DEF IInv, LoopInv, Places
  <2> QED  BY <2>2 DEF OneOwner, OnList, IInv, Places
<1> QED  BY <1>1, Invariance, PTL

\* With Plain requests a response in the cache is not one that an evaluation thread
\* will still fill in (res.c:42-59).
THEOREM RecycledSafely == ASSUME Plain PROVE Spec => []SafeRecycle
<1>1. IInv => SafeRecycle
  <2> SUFFICES ASSUME IInv PROVE SafeRecycle
    OBVIOUS
  <2>1. \A j \in Busy : j.req[1] \in Conns /\ j.res \in OnList(j.req[1])
    BY BusyTyped DEF IInv, BusyInv
  <2> QED  BY <2>1 DEF SafeRecycle, IInv, Places
<1> QED  BY <1>1, Invariance, PTL

\* With Plain requests no evaluation thread works for a connection that is gone
\* (con.c:1117-1150).
THEOREM ClosedWhenReady == ASSUME Plain PROVE Spec => []ReadyToClose
<1>1. IInv => ReadyToClose
  <2> SUFFICES ASSUME IInv, NEW c \in Conns, ~conn[c].open, NEW j \in Busy, j.req[1] = c
               PROVE  FALSE
    BY DEF ReadyToClose
  <2>1. conn[c].list = <<>> /\ j.res \in OnList(c)
    BY DEF IInv, LoopInv, BusyInv
  <2>2. OnList(c) = {}
    BY <2>1 DEF OnList, Range
  <2> QED  BY <2>1, <2>2
<1> QED  BY <1>1, Invariance, PTL

\* What remove_dead_res destroys belongs to a connection that is dead.
LEMMA DestroyedIsDead ==
  ASSUME IInv, NEW c \in Conns, NEW cn \in ConType, cn.list = conn[c].list, cn.dead,
         RemoveDead(c, cn), NEW r \in Range(cache') \ Range(cache)
  PROVE  conn'[res[r].con].dead
<1>1. PICK k \in 0 .. Len(conn[c].list) : DeadRes(c) = SubSeq(conn[c].list, 1, k)
  BY DeadResIsPrefix DEF IInv
<1>2. DeadRes(c) \in Seq(Ress) /\ Range(DeadRes(c)) \subseteq OnList(c)
  BY <1>1, ConTyped, CutOwns DEF IInv, OnList
<1>3. cache \in Seq(Ress) /\ cache' = cache \o DeadRes(c)
  BY DEF IInv, TypeOK, RemoveDead, Destroy
<1>4. r \in OnList(c)
  BY <1>2, <1>3, JoinOwns
<1>5. res[r].con = c
  BY <1>4 DEF IInv, Places
<1>6. PICK list, open : conn' = [conn EXCEPT ![c] = [cn EXCEPT !.list = list, !.open = open]]
  BY DEF RemoveDead
<1>7. conn'[c].dead = cn.dead
  BY <1>6 DEF IInv, TypeOK, ConType
<1> QED  BY <1>5, <1>7

LEMMA FailDestroys ==
  ASSUME IInv, NEW c \in Conns, Fail(c), NEW r \in Range(cache') \ Range(cache)
  PROVE  conn'[res[r].con].dead
<1> DEFINE cn == [conn[c] EXCEPT !.dead = TRUE]
<1>1. cn \in ConType /\ cn.list = conn[c].list /\ cn.dead /\ RemoveDead(c, cn)
  BY ConTyped DEF IInv, ConType, Fail
<1> HIDE DEF cn
<1> QED  BY <1>1, DestroyedIsDead

\* With Plain requests and no time-outs, a response goes back to the cache from a
\* living connection only when all that its handler pushed was written (con.c:691).
THEOREM FinishedWhenSent == ASSUME Plain, ~Timeouts PROVE Spec => FinishedIsSent
<1> DEFINE Sent(r) == LET c == res[r].con
                      IN conn'[c].open /\ ~conn'[c].dead => res[r].msgs = <<>>
<1>1. ASSUME IInv, Next, NEW r \in Range(cache') \ Range(cache) PROVE Sent(r)
  <2> USE <1>1
  <2>1. CASE cache' = cache
    BY <2>1
  <2>2. ASSUME NEW c \in Conns, NEW expired \in BOOLEAN, Check(c, expired)
        PROVE  Sent(r)
    <3>1. CASE conn[c].dead /\ RemoveDead(c, conn[c])
      BY <3>1, ConTyped, DestroyedIsDead DEF IInv
    <3>2. CASE cache' = cache
      BY <3>2
    <3> QED  BY <2>2, <3>1, <3>2 DEF Check
  <2>3. CASE ReadFail \/ HangUp
    <3>1. loop.con \in Conns /\ Fail(loop.con)
      BY <2>3, AtWork DEF ReadFail, HangUp
    <3> QED  BY <3>1, FailDestroys
  <2>4. ASSUME NEW kind \in Kinds, NEW more \in BOOLEAN, ReadRequest(kind, more)
        PROVE  FALSE
    <3>1. ~InHand
      BY <2>4 DEF InHand, ReadRequest
    <3>2. PICK q \in Created : cache' = CacheRest /\ (cache # <<>> \/ made # Ress)
      BY <2>4 DEF ReadRequest
    <3> QED  BY <3>1, <3>2, CreatedIsFresh
  <2>5. CASE Finished
    <3>1. CASE Destroy(<<loop.held>>)
      <4>1. loop.held \in Ress /\ res[loop.held].msgs = <<>>
        BY <2>5 DEF Finished, IInv, Places, InHand, TypeOK, MsgInv
      <4>2. cache' = cache \o <<loop.held>> /\ cache \in Seq(Ress)
        BY <3>1 DEF Destroy, IInv, TypeOK
      <4>3. r = loop.held
        BY <4>1, <4>2, PutBackOwns
      <4> QED  BY <4>1, <4>3
    <3>2. CASE cache' = cache
      BY <3>2
    <3> QED  BY <2>5, <3>1, <3>2 DEF Finished
  <2>6. CASE \E e \in EvalThreads : EvalStep(e) \/ EvalEarly(e)
    BY <2>1, <2>6 DEF EvalStep, EvalTake, EvalFinish, EvalEarly, resv
  <2>7. CASE \E c \in Conns : Leave(c) \/ \E in, out, hup \in BOOLEAN : Poll(c, in, out, hup)
    BY <2>1, <2>7 DEF Leave, Poll, resv
  <2>8. CASE WritePiece \/ WriteFail \/ MessageNext
    BY <2>1, <2>8 DEF WritePiece, WriteFail, MessageNext, resv
  <2> QED  BY <2>2, <2>3, <2>4, <2>5, <2>6, <2>7, <2>8 DEF Next, Dispatch
<1> HIDE DEF Sent
<1>2. IInv /\ [Next]_vars => [\A r \in Range(cache') \ Range(cache) : Sent(r)]_vars
  BY <1>1
<1> USE DEF Sent
<1> QED  BY <1>2, Invariance, PTL DEF Spec, FinishedIsSent
===============================================================================
