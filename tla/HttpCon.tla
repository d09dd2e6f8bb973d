------------------------------- MODULE HttpCon -------------------------------
(***************************************************************************)
(* The life of HTTP responses on the connections of one connection loop:   *)
(* src/agoo/con.c (reading, writing, the poll events and the check that    *)
(* removes connections), src/agoo/res.c (the response objects and the      *)
(* loop's cache of them), the dispatch of src/agoo/ready.c and the         *)
(* evaluation threads of src/agoo.c that fill in the responses.            *)
(*                                                                         *)
(* The loop thread serves one connection at a time; loop.at says where it  *)
(* is in the dispatch of agoo_ready_go.  The evaluation threads run        *)
(* concurrently and touch the response objects under their lock only, so a *)
(* step of this model is at most one critical section of a response.       *)
(* The bytes of requests are abstracted: a read finds whole requests in    *)
(* the buffer.  A message is written in MsgLen pieces.                     *)
(***************************************************************************)
EXTENDS Integers, FiniteSets, Sequences, SequencesExt

CONSTANTS
  Conns,        \* the connections of the loop
  Ress,         \* the response objects malloc may return
  EvalThreads,  \* the threads that run eval_loop
  NULL,
  MaxReqs,      \* requests a client sends on one connection
  MsgLen,       \* pieces in which a message is written
  MaxEarly,     \* early hints a handler sends for one request
  Kinds,        \* the requests clients send, see Kind
  Pipelining,   \* do clients send a request before the response to the last
  Disconnects,  \* do clients go away
  Timeouts      \* does CON_TIMEOUT pass for an idle or stuck connection

\* What happens to a request: evaluated by an evaluation thread, answered at once
\* with a page (or by a quick hook), or refused with a bad_request response; and
\* whether its header says "Connection: Close".
Kind == [by : {"eval", "page", "bad"}, close : BOOLEAN]

ASSUME KindAssumption == Kinds \subseteq Kind
ASSUME BoundAssumption == /\ MaxReqs \in Nat /\ MaxEarly \in Nat
                          /\ MsgLen \in Nat \ {0}
ASSUME ClientAssumption == {Pipelining, Disconnects, Timeouts} \subseteq BOOLEAN

Req == Conns \X (1 .. MaxReqs)      \* the i-th request of a connection
Msg == [req : Req, final : BOOLEAN]
Job == [req : Req, res : Ress, early : 0 .. MaxEarly]

ASSUME NullAssumption == NULL \notin Conns \cup Ress \cup Job

VARIABLES
  conn,     \* the agooCon of each connection
  res,      \* the agooRes objects
  made,     \* the response objects malloc has returned
  cache,    \* loop->res_head .. res_tail
  evalq,    \* agoo_server.eval_queue
  running,  \* the request each evaluation thread works on, or NULL
  loop,     \* where the loop thread is, and its local variables
  asked,    \* the requests read on each connection
  sent,     \* the messages written to each client
  gone      \* the clients that closed their end

evalv == <<evalq, running>>
resv  == <<res, made, cache>>
vars  == <<conn, resv, evalv, loop, asked, sent, gone>>

Idle == [at |-> "idle", con |-> NULL, out |-> FALSE, hup |-> FALSE, held |-> NULL, more |-> FALSE]

Blank(c) == [con |-> c, msgs |-> <<>>, final |-> FALSE, close |-> FALSE]

Init ==
  /\ conn = [c \in Conns |-> [list |-> <<>>, wcnt |-> 0, closing |-> FALSE,
                             dead |-> FALSE, open |-> TRUE]]
  /\ res = [r \in Ress |-> Blank(NULL)]
  /\ made = {} /\ cache = <<>>
  /\ evalq = <<>> /\ running = [e \in EvalThreads |-> NULL]
  /\ loop = Idle
  /\ asked = [c \in Conns |-> <<>>]
  /\ sent = [c \in Conns |-> <<>>]
  /\ gone = [c \in Conns |-> FALSE]

\* Mutant: final is not set with the last message.
PushNotFinal(r, m) == [res[r] EXCEPT !.msgs = Append(@, m)]

\* Both pushes: nothing is added to a response that has its final message.
Push(r, m) == IF res[r].final THEN res[r]
              ELSE [res[r] EXCEPT !.msgs = Append(@, m), !.final = m.final]

-----------------------------------------------------------------------------
(* The evaluation threads *)

\* agoo_queue_pop of eval_loop
EvalTake(e) ==
  /\ running[e] = NULL /\ evalq # <<>>
  /\ running' = [running EXCEPT ![e] = Head(evalq)]
  /\ evalq' = Tail(evalq)
  /\ UNCHANGED <<conn, resv, loop, asked, sent, gone>>

\* The handler calls agoo_res_add_early.
EvalEarly(e) ==
  LET job == running[e]
  IN /\ job # NULL
     /\ job.early < MaxEarly
     /\ res' = [res EXCEPT ![job.res] = Push(job.res, [req |-> job.req, final |-> FALSE])]
     /\ running' = [running EXCEPT ![e].early = @ + 1]
     /\ UNCHANGED <<conn, made, cache, evalq, loop, asked, sent, gone>>

\* The handler calls agoo_res_message_push and returns.
EvalFinish(e) ==
  LET job == running[e]
  IN /\ job # NULL
     /\ res' = [res EXCEPT ![job.res] = Push(job.res, [req |-> job.req, final |-> TRUE])]
     /\ running' = [running EXCEPT ![e] = NULL]
     /\ UNCHANGED <<conn, made, cache, evalq, loop, asked, sent, gone>>

\* The client closes its end of the connection.
Leave(c) ==
  /\ Disconnects
  /\ ~gone[c] /\ conn[c].open
  /\ gone' = [gone EXCEPT ![c] = TRUE]
  /\ UNCHANGED <<conn, resv, evalv, loop, asked, sent>>

-----------------------------------------------------------------------------
(* The poll events and the removal of connections *)

Answer(c, k) == [req |-> <<c, k>>, final |-> TRUE]

\* What the client may do next: send a request, after all answers without pipelining
MaySend(c) == /\ Len(asked[c]) < MaxReqs
              /\ Pipelining \/ \A k \in DOMAIN asked[c] : Answer(c, k) \in Range(sent[c])

Readable(c) == gone[c] \/ MaySend(c)

\* agoo_con_http_events, and con_ready_io for a connection that is dead
Events(c) ==
  LET list == conn[c].list
  IN CASE conn[c].dead -> {}
       [] ~conn[c].dead /\ list # <<>> /\ res[Head(list)].msgs # <<>> -> {"in", "out"}
       [] OTHER -> IF conn[c].closing THEN {} ELSE {"in"}

\* agoo_ready_go finds the connection ready; the reading comes first, then the
\* writing, then the errors.
Poll(c, in, out, hup) ==
  /\ loop.at = "idle" /\ conn[c].open /\ Events(c) # {}
  /\ in \/ out \/ hup
  /\ in => "in" \in Events(c) /\ Readable(c)
  /\ out => "out" \in Events(c)
  /\ hup => gone[c]
  /\ loop' = [Idle EXCEPT !.at = IF in THEN "read" ELSE IF out THEN "write" ELSE "hup",
                          !.con = c, !.out = out, !.hup = hup]
  /\ UNCHANGED <<conn, resv, evalv, asked, sent, gone>>

AfterRead  == IF loop.out THEN [loop EXCEPT !.at = "write"]
              ELSE IF loop.hup THEN [loop EXCEPT !.at = "hup"] ELSE Idle
AfterWrite == IF loop.hup THEN [Idle EXCEPT !.at = "hup", !.con = loop.con] ELSE Idle

\* Mutants: remove_dead_res does not wait for outstanding answers; destroys nothing.
DeadResAll(c)  == conn[c].list
DeadResNone(c) == <<>>

\* The responses remove_dead_res destroys: the longest prefix of the list whose
\* members have a message or are to close the connection.
DeadRes(c) ==
  LET list == conn[c].list
      first == SelectInSeq(list, LAMBDA r : res[r].msgs = <<>> /\ ~res[r].close)
  IN IF first = 0 THEN list ELSE SubSeq(list, 1, first - 1)

\* agoo_res_destroy: the messages go and the objects return to the loop's cache.
Destroy(rs) ==
  /\ res' = [r \in Ress |-> IF r \in Range(rs) THEN [res[r] EXCEPT !.msgs = <<>>] ELSE res[r]]
  /\ cache' = cache \o rs

\* Mutant: the connection goes though responses are left.
RemoveDeadForce(c, cn) ==
  LET left == SubSeq(cn.list, Len(DeadRes(c)) + 1, Len(cn.list))
  IN /\ Destroy(DeadRes(c))
     /\ conn' = [conn EXCEPT ![c] = [cn EXCEPT !.list = left, !.open = FALSE]]

\* remove_dead_res on a connection whose new state is cn; the connection is
\* destroyed when no response is left.
RemoveDead(c, cn) ==
  LET left == SubSeq(cn.list, Len(DeadRes(c)) + 1, Len(cn.list))
  IN /\ Destroy(DeadRes(c))
     /\ conn' = [conn EXCEPT ![c] = [cn EXCEPT !.list = left, !.open = left # <<>>]]

\* A handler returned false: the connection is dead, and ready_check_remove.
Fail(c) ==
  /\ RemoveDead(c, [conn[c] EXCEPT !.dead = TRUE])
  /\ loop' = Idle

\* The periodic con_ready_check; expired says whether now is past c->timeout.
Check(c, expired) ==
  /\ loop.at = "idle" /\ conn[c].open
  /\ expired => Timeouts
  /\ CASE conn[c].dead -> RemoveDead(c, conn[c])
       [] ~conn[c].dead /\ expired /\ conn[c].closing -> RemoveDead(c, conn[c])
       [] ~conn[c].dead /\ expired /\ ~conn[c].closing ->
            conn' = [conn EXCEPT ![c].closing = TRUE] /\ UNCHANGED <<res, cache>>
       [] OTHER -> FALSE
  /\ UNCHANGED <<made, evalv, loop, asked, sent, gone>>

-----------------------------------------------------------------------------
(* agoo_con_http_read *)

\* The connection is closing, or recv returns 0 or an error.
ReadFail ==
  LET c == loop.con
  IN /\ loop.at = "read"
     /\ conn[c].closing \/ gone[c]
     /\ Fail(c)
     /\ UNCHANGED <<made, evalv, asked, sent, gone>>

\* agoo_res_create takes the first response of the cache, or a new one.
Created == IF cache # <<>> THEN {Head(cache)} ELSE {CHOOSE r \in Ress \ made : TRUE}

\* Mutant: the head of the cache is not unlinked.
CacheRestKeep == cache

\* The cache after agoo_res_create
CacheRest == IF cache # <<>> THEN Tail(cache) ELSE cache

\* Mutant: the new response goes first.
ResAppendFront(list, r) == <<r>> \o list

\* agoo_con_res_append
ResAppend(list, r) == Append(list, r)

\* One turn of the loop over the buffer: a request is read and given a response at
\* the end of the connection's list.  A page or a refusal is its message at once;
\* any other request goes to the evaluation queue.  more: the buffer holds another
\* request (a refusal discards it); closing is not looked at again.
ReadRequest(kind, more) ==
  LET c == loop.con
      req == <<c, Len(asked[c]) + 1>>
  IN /\ loop.at = "more" \/ (loop.at = "read" /\ ~conn[c].closing)
     /\ MaySend(c)
     /\ more => Len(asked[c]) + 1 < MaxReqs /\ Pipelining /\ kind.by # "bad"
     /\ cache # <<>> \/ made # Ress
     /\ \E r \in Created :
          /\ made' = made \cup {r}
          /\ cache' = CacheRest
          /\ res' = [res EXCEPT ![r] =
                       [Blank(c) EXCEPT !.close = kind.close \/ kind.by = "bad",
                                        !.final = kind.by # "eval",
                                        !.msgs = IF kind.by = "eval" THEN <<>>
                                                 ELSE <<[req |-> req, final |-> TRUE]>>]]
          /\ evalq' = IF kind.by # "eval" THEN evalq
                      ELSE Append(evalq, [req |-> req, res |-> r, early |-> 0])
          /\ conn' = [conn EXCEPT ![c].list = ResAppend(@, r),
                                  ![c].closing = @ \/ (kind.close /\ kind.by # "bad")]
     /\ asked' = [asked EXCEPT ![c] = Append(@, kind)]
     /\ loop' = IF more THEN [loop EXCEPT !.at = "more"] ELSE AfterRead
     /\ UNCHANGED <<running, sent, gone>>

-----------------------------------------------------------------------------
(* con_ready_write and agoo_con_http_write *)

\* The head of the list is popped and one more piece of its first message sent.  It
\* would be dropped if it had no message, but Events saw one and only the loop takes it.
WritePiece ==
  LET c == loop.con
      r == Head(conn[c].list)
  IN /\ loop.at = "write"
     /\ CASE res[r].msgs = <<>> ->
               /\ conn' = [conn EXCEPT ![c].list = Tail(@)]
               /\ loop' = AfterWrite
               /\ UNCHANGED sent
          [] res[r].msgs # <<>> /\ conn[c].wcnt + 1 < MsgLen ->
               /\ conn' = [conn EXCEPT ![c].wcnt = @ + 1]
               /\ loop' = AfterWrite
               /\ UNCHANGED sent
          [] OTHER ->
               /\ conn' = [conn EXCEPT ![c].list = Tail(@)]
               /\ loop' = [loop EXCEPT !.at = "sent", !.held = r]
               /\ sent' = [sent EXCEPT ![c] = Append(@, Head(res[r].msgs))]
     /\ UNCHANGED <<resv, evalv, asked, gone>>

\* send fails: the response popped from the list is not put back.
WriteFail ==
  LET c == loop.con
  IN /\ loop.at = "write"
     /\ gone[c]
     /\ conn' = [conn EXCEPT ![c].list = Tail(@), ![c].dead = TRUE]
     /\ loop' = [Idle EXCEPT !.at = "hup", !.con = c]
     /\ UNCHANGED <<resv, evalv, asked, sent, gone>>

\* Mutants: wcnt is not reset; the written message stays.
MessageNextNoReset ==
  LET r == loop.held
  IN /\ loop.at = "sent"
     /\ res' = [res EXCEPT ![r].msgs = Tail(@)]
     /\ loop' = [loop EXCEPT !.at = "finished", !.more = Len(res[r].msgs) > 1]
     /\ conn' = [conn EXCEPT ![loop.con].wcnt = MsgLen]
     /\ UNCHANGED <<made, cache, evalv, asked, sent, gone>>
MessageNextKeep ==
  /\ loop.at = "sent"
  /\ loop' = [loop EXCEPT !.at = "finished", !.more = Len(res[loop.held].msgs) > 1]
  /\ conn' = [conn EXCEPT ![loop.con].wcnt = 0]
  /\ UNCHANGED <<resv, evalv, asked, sent, gone>>

\* agoo_res_message_next
MessageNext ==
  LET r == loop.held
  IN /\ loop.at = "sent"
     /\ res' = [res EXCEPT ![r].msgs = Tail(@)]
     /\ loop' = [loop EXCEPT !.at = "finished", !.more = Len(res[r].msgs) > 1]
     /\ conn' = [conn EXCEPT ![loop.con].wcnt = 0]
     /\ UNCHANGED <<made, cache, evalv, asked, sent, gone>>

\* Mutants: res->final is not looked at; res->close is not looked at.
FinishedEmpty ==
  LET c == loop.con
      r == loop.held
  IN /\ loop.at = "finished"
     /\ IF ~loop.more
        THEN Destroy(<<r>>) /\ UNCHANGED conn
        ELSE /\ conn' = [conn EXCEPT ![c].list = <<r>> \o @]
             /\ UNCHANGED <<res, cache>>
     /\ loop' = AfterWrite
     /\ UNCHANGED <<made, evalv, asked, sent, gone>>
FinishedNoClose ==
  LET c == loop.con
      r == loop.held
  IN /\ loop.at = "finished"
     /\ IF ~loop.more /\ res[r].final
        THEN Destroy(<<r>>) /\ UNCHANGED conn
        ELSE /\ conn' = [conn EXCEPT ![c].list = <<r>> \o @]
             /\ UNCHANGED <<res, cache>>
     /\ loop' = AfterWrite
     /\ UNCHANGED <<made, evalv, asked, sent, gone>>

\* Only now is res->final looked at, outside the lock.
Finished ==
  LET c == loop.con
      r == loop.held
  IN /\ loop.at = "finished"
     /\ IF ~loop.more /\ res[r].final
        THEN /\ Destroy(<<r>>)
             /\ IF res[r].close
                THEN /\ conn' = [conn EXCEPT ![c].dead = TRUE]
                     /\ loop' = [Idle EXCEPT !.at = "hup", !.con = c]
                ELSE /\ loop' = AfterWrite
                     /\ UNCHANGED conn
        ELSE /\ conn' = [conn EXCEPT ![c].list = <<r>> \o @]
             /\ loop' = AfterWrite
             /\ UNCHANGED <<res, cache>>
     /\ UNCHANGED <<made, evalv, asked, sent, gone>>

\* The error handler, or a write that returned false: the connection is dead.
HangUp ==
  /\ loop.at = "hup"
  /\ Fail(loop.con)
  /\ UNCHANGED <<made, evalv, asked, sent, gone>>

-----------------------------------------------------------------------------
EvalStep(e) == EvalTake(e) \/ EvalFinish(e)

Dispatch == \/ ReadFail
            \/ \E kind \in Kinds, more \in BOOLEAN : ReadRequest(kind, more)
            \/ WritePiece \/ WriteFail \/ MessageNext \/ Finished \/ HangUp

Next == \/ \E e \in EvalThreads : EvalStep(e) \/ EvalEarly(e)
        \/ \E c \in Conns : \/ Leave(c)
                           \/ \E in, out, hup \in BOOLEAN : Poll(c, in, out, hup)
                           \/ \E expired \in BOOLEAN : Check(c, expired)
        \/ Dispatch

Spec == Init /\ [][Next]_vars

\* Every thread runs.  A pass of agoo_ready_go serves each ready connection and
\* clients read what they are sent, so a connection that is again and again
\* writable, or dead, is served; nothing makes a client send a request.  The time
\* of a closing connection runs out.
Fairness == /\ \A e \in EvalThreads : WF_vars(EvalStep(e))
            /\ WF_vars(Dispatch)
            /\ \A c \in Conns : SF_vars(\E in, hup \in BOOLEAN : Poll(c, in, TRUE, hup))
            /\ \A c \in Conns : SF_vars(gone[c] /\ \E in, out \in BOOLEAN : Poll(c, in, out, TRUE))
            /\ \A c \in Conns : SF_vars(conn[c].dead /\ Check(c, FALSE))
            /\ \A c \in Conns : SF_vars(conn[c].closing /\ Check(c, TRUE))

FairSpec == Spec /\ Fairness

-----------------------------------------------------------------------------
(* Properties *)

Busy == ({evalq[i] : i \in DOMAIN evalq} \cup {running[e] : e \in EvalThreads}) \ {NULL}

\* Every variable has its type.
ConType ==
  [list : Seq(Ress), wcnt : 0 .. MsgLen - 1, closing : BOOLEAN, dead : BOOLEAN, open : BOOLEAN]
ResType == [con : Conns \cup {NULL}, msgs : Seq(Msg), final : BOOLEAN, close : BOOLEAN]
LoopType ==
  [at : {"idle", "read", "more", "write", "sent", "finished", "hup"}, con : Conns \cup {NULL},
   out : BOOLEAN, hup : BOOLEAN, held : Ress \cup {NULL}, more : BOOLEAN]
TypeOK ==
  /\ conn \in [Conns -> ConType] /\ res \in [Ress -> ResType]
  /\ made \subseteq Ress /\ cache \in Seq(Ress)
  /\ evalq \in Seq(Job) /\ running \in [EvalThreads -> Job \cup {NULL}]
  /\ loop \in LoopType
  /\ asked \in [Conns -> Seq(Kinds)] /\ \A c \in Conns : Len(asked[c]) <= MaxReqs
  /\ sent \in [Conns -> Seq(Msg)] /\ gone \in [Conns -> BOOLEAN]

\* Every message goes to the client whose request it answers, one answer for each
\* request in the order of the requests, early hints before their answer: though
\* requests of many connections finish in any order and response objects are
\* reused (con.c:599, 635-703; res.c:11-59).
InOrder ==
  \A c \in Conns : \A i \in DOMAIN sent[c] :
    sent[c][i].req = <<c, 1 + Cardinality({k \in 1 .. i - 1 : sent[c][k].final})>>

\* A response that returned to the cache is not one an evaluation thread still
\* fills in, on behalf of the request it was created for (res.c:42-59).
SafeRecycle == \A r \in Range(cache) : \A j \in Busy : j.res # r

\* A response object is in one place: on the list of one connection, in the cache,
\* or in the hands of agoo_con_http_write.
OneOwner ==
  /\ IsInjective(cache) /\ \A c \in Conns : IsInjective(conn[c].list)
  /\ \A c, d \in Conns : c # d => Range(conn[c].list) \cap Range(conn[d].list) = {}
  /\ \A c \in Conns : (Range(conn[c].list) \cup {loop.held}) \cap Range(cache) = {}
  /\ \A c \in Conns : loop.held \notin Range(conn[c].list)

\* A connection that is removed was "ready to close" (con.c:1147): no evaluation
\* thread still works on a request of it and will touch its responses.
ReadyToClose == \A c \in Conns : ~conn[c].open => \A j \in Busy : j.req[1] # c

\* After the answer to a request that asked to close the connection, or that was
\* refused, nothing more is written (con.c:695-700, 1218).
CloseIsLast ==
  \A c \in Conns : \A i \in 1 .. Len(sent[c]) - 1 :
    sent[c][i].final => LET kind == asked[c][sent[c][i].req[2]]
                        IN ~kind.close /\ kind.by # "bad"

\* While a connection lives, a response of it goes back to the cache only when
\* everything its handler pushed was written: "finished" (con.c:691).
FinishedIsSent ==
  [][\A r \in Range(cache') \ Range(cache) :
       LET c == res[r].con IN conn'[c].open /\ ~conn'[c].dead => res[r].msgs = <<>>]_vars

\* The same with early hints, as far as it holds: answers may be missing (see
\* FinishedIsSent), but none goes to another client, none is late, and the hints
\* of a request come before its answer (res.c:84-110, con.c:691-703).
HintsInOrder ==
  \A c \in Conns : \A i, j \in DOMAIN sent[c] :
    /\ sent[c][i].req[1] = c
    /\ i < j => \/ sent[c][i].req[2] < sent[c][j].req[2]
                \/ sent[c][i].req = sent[c][j].req /\ ~sent[c][i].final

\* A request is answered, unless the connection was given up before: its client
\* left, an earlier request closed it, or it timed out.
Answered ==
  \A c \in Conns : \A k \in 1 .. MaxReqs :
    Len(asked[c]) >= k ~>
      \/ Answer(c, k) \in Range(sent[c]) \/ gone[c] \/ conn[c].closing
      \/ \E i \in 1 .. k - 1 : i <= Len(asked[c]) /\ (asked[c][i].close \/ asked[c][i].by = "bad")

\* A connection whose client left is destroyed, however late its handlers are.
Reaped == \A c \in Conns : gone[c] ~> ~conn[c].open
=============================================================================
