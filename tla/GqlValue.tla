------------------------------ MODULE GqlValue ------------------------------
(* GraphQL values (gqlvalue.c), how they are written as SDL and as JSON, and  *)
(* how both are read back (doc.c, gqljson.c).  A text is a sequence of        *)
(* tokens: names, numbers, quoted strings, punctuation and Blank, a run of    *)
(* white space: it is where the code writes it, and is passed only where the  *)
(* code passes it.  Two names with nothing between them are one.              *)
EXTENDS Naturals, Sequences, SequencesExt

CONSTANTS
  Strings,  \* the quoted strings that occur in the texts
  Numbers   \* the numbers that occur in them

Punctuation == {"{", "}", "(", ")", "[", "]", ":", "=", "!", "@", "|", "&", "$", "%", "...", ","}
EndOfText == ""
Blank == " "
IsName(t) == t \notin Punctuation \cup Strings \cup Numbers \cup {EndOfText, Blank}

---------------------------------------------------------------------------
(* A value: its kind, the text of a scalar, and the keys and members of a     *)
(* list or an object.  A name read where an enum is expected keeps the enum   *)
(* as its type; it is written as any other token and is not told apart here.  *)
Value(k, s, ks, ms) == [kind |-> k, s |-> s, keys |-> ks, members |-> ms]
Null == Value("null", "null", <<>>, <<>>)
Bool(b) == Value("bool", IF b THEN "true" ELSE "false", <<>>, <<>>)
IntValue(n) == Value("int", n, <<>>, <<>>)
String(s) == Value("string", s, <<>>, <<>>)
Token(s) == Value("token", s, <<>>, <<>>)
Var(s) == Value("var", s, <<>>, <<>>)
EmptyList == Value("list", "", <<>>, <<>>)
EmptyObject == Value("object", "", <<>>, <<>>)

ListAppend(list, v) == [list EXCEPT !.members = Append(@, v)]
ObjectSet(obj, key, v) == [obj EXCEPT !.keys = Append(@, key), !.members = Append(@, v)]

\* The member of a key is the first that was set.
ObjectHas(obj, key) == obj.kind = "object" /\ \E i \in DOMAIN obj.keys : obj.keys[i] = key
ObjectGet(obj, key) ==
  obj.members[CHOOSE i \in DOMAIN obj.keys :
                /\ obj.keys[i] = key
                /\ \A j \in 1..(i - 1) : obj.keys[j] # key]

---------------------------------------------------------------------------
\* What is written after a member that is not the last.
Unless(last, ts) == IF last THEN <<>> ELSE ts
IsLast(seq, i) == i = Len(seq)

\* gql_value_sdl, without indent: a comma is white space in SDL; a variable is
\* written with a %.
RECURSIVE ValueSdl(_)
CommaSdl(v, i) == Unless(IsLast(v.members, i), <<Blank>>)
ListSdl(v) == <<"[">> \o FlattenSeq([i \in DOMAIN v.members |-> ValueSdl(v.members[i]) \o CommaSdl(v, i)]) \o <<"]">>
ObjectSdl(v) ==
  <<"{">> \o FlattenSeq([i \in DOMAIN v.members |->
               <<v.keys[i], ":">> \o ValueSdl(v.members[i]) \o CommaSdl(v, i)]) \o <<"}">>
ValueSdl(v) ==
  CASE v.kind = "list"   -> ListSdl(v)
    [] v.kind = "object" -> ObjectSdl(v)
    [] v.kind = "var"    -> <<"%", v.s>>
    [] OTHER             -> <<v.s>>

\* A token is a quoted string in JSON.
Quote(s) == "'" \o s \o "'"
Unquote(q) == SubSeq(q, 2, Len(q) - 1)

\* gql_value_json: with an indent, every member and what closes them is on a
\* line of its own.
RECURSIVE ValueJson(_, _)
NewLine(indent) == IF indent > 0 THEN <<Blank>> ELSE <<>>
Comma(v, i) == Unless(IsLast(v.members, i), <<",">>)
ListJson(v, indent) ==
  <<"[">> \o FlattenSeq([i \in DOMAIN v.members |->
               NewLine(indent) \o ValueJson(v.members[i], indent) \o Comma(v, i)]) \o NewLine(indent) \o <<"]">>
\* Mutant: a comma before every member.
ObjectJsonLate(v, indent) ==
  <<"{">> \o FlattenSeq([i \in DOMAIN v.members |->
               NewLine(indent) \o <<",", Quote(v.keys[i]), ":">> \o ValueJson(v.members[i], indent)])
    \o NewLine(indent) \o <<"}">>
ObjectJson(v, indent) ==
  <<"{">> \o FlattenSeq([i \in DOMAIN v.members |->
               NewLine(indent) \o <<Quote(v.keys[i]), ":">> \o ValueJson(v.members[i], indent) \o Comma(v, i)])
    \o NewLine(indent) \o <<"}">>
ValueJson(v, indent) ==
  CASE v.kind = "list"   -> ListJson(v, indent)
    [] v.kind = "object" -> ObjectJson(v, indent)
    [] v.kind = "var"    -> <<"%", v.s>>
    [] v.kind = "token"  -> <<Quote(v.s)>>
    [] OTHER             -> <<v.s>>

---------------------------------------------------------------------------
(* A text being read: its tokens, the place reached, whether it is still      *)
(* accepted, and what was read last.                                          *)
Doc(ts) == [toks |-> ts, at |-> 1, ok |-> TRUE, got |-> ""]

Cur(d) == IF d.at <= Len(d.toks) THEN d.toks[d.at] ELSE EndOfText
AtEnd(d) == d.at > Len(d.toks)
Step(d) == [d EXCEPT !.at = @ + 1]
Fail(d) == [d EXCEPT !.ok = FALSE]
Got(d, x) == [d EXCEPT !.got = x]
Expect(d, t) == IF d.ok /\ Cur(d) = t THEN Step(d) ELSE Fail(d)
ReadName(d) == IF d.ok /\ IsName(Cur(d)) THEN Got(Step(d), Cur(d)) ELSE Fail(d)

\* agoo_doc_skip_white, agoo_doc_skip_jwhite
RECURSIVE SkipWhite(_)
SkipWhite(d) == IF Cur(d) = Blank THEN SkipWhite(Step(d)) ELSE d

\* A token where none is: gql_token_create, gql_enum_append and gql_directive_on
\* take the length 0 for "to the end", and all the text that is left becomes the
\* token, without any of it being read.
RestOfText == "rest of the text"
NameOrRest(d) == IF IsName(Cur(d)) THEN Cur(d) ELSE IF AtEnd(d) THEN EndOfText ELSE RestOfText
PastName(d) == IF IsName(Cur(d)) THEN Step(d) ELSE d

\* agoo_doc_read_value: the kind, or the base kind of a list, that the value is
\* read for; AnyKind when there is none.
AnyKind == [kind |-> "any"]
RECURSIVE ReadValue(_, _), ReadMembers(_, _), ReadKeyed(_, _)
WithMember(list, m) == IF m.ok THEN Got(m, ListAppend(list, m.got)) ELSE m
MembersFrom(d, type) == IF Cur(d) = "]" THEN Step(d) ELSE ReadMembers(WithMember(d.got, ReadValue(d, type)), type)
ReadMembers(d, type) == IF ~d.ok \/ AtEnd(d) THEN d ELSE MembersFrom(SkipWhite(d), type)
\* The colon comes right behind the key.
WithKey(obj, key, m) == IF m.ok THEN Got(m, ObjectSet(obj, key, m.got)) ELSE m
KeyedFrom(d, type) ==
  IF Cur(d) = "}" THEN Step(d)
  ELSE ReadKeyed(WithKey(d.got, Cur(d), ReadValue(Expect(ReadName(d), ":"), type)), type)
ReadKeyed(d, type) == IF ~d.ok \/ AtEnd(d) THEN d ELSE KeyedFrom(SkipWhite(d), type)
ValueFrom(d, type) ==
  LET t == Cur(d)
  IN CASE ~d.ok -> d
       [] t = "$"         -> LET n == ReadName(Step(d)) IN Got(n, Var(n.got))
       [] t \in Strings   -> Got(Step(d), String(t))
       [] t \in Numbers   -> Got(Step(d), IntValue(t))
       [] t = "null"      -> Got(Step(d), Null)
       [] t \in {"true", "false"} -> Got(Step(d), Bool(t = "true"))
       [] t = "[" /\ type.kind \notin {"any", "list"} -> Fail(d)
       [] t = "[" -> ReadMembers(Got(Step(d), EmptyList), IF type.kind = "list" THEN type.base ELSE AnyKind)
       [] t = "{" -> ReadKeyed(Got(Step(d), EmptyObject), type)
       [] OTHER           -> Got(PastName(d), Token(NameOrRest(d)))
ReadValue(d, type) == ValueFrom(SkipWhite(d), type)

---------------------------------------------------------------------------
\* gql_json_parse.  The words true, false and null are recognised but not
\* passed: the next thing read is the same word.
RECURSIVE ParseJson(_), ParseArray(_), ParseObject(_)
ArrayNext(m) ==
  CASE ~m.ok        -> m
    [] Cur(m) = "]" -> Step(m)
    [] Cur(m) = "," -> ParseArray(Step(m))
    [] OTHER        -> Fail(m)
ParseArray(d) == ArrayNext(SkipWhite(WithMember(d.got, ParseJson(d))))
\* The next key must be right behind the comma.
ObjectNext(m) ==
  CASE ~m.ok        -> m
    [] Cur(m) = "}" -> Step(m)
    [] Cur(m) = "," -> ParseObject(Step(m))
    [] OTHER        -> Fail(m)
ParseObject(d) ==
  IF Cur(d) \in Strings
  THEN ObjectNext(SkipWhite(WithKey(d.got, Unquote(Cur(d)), ParseJson(Expect(SkipWhite(Step(d)), ":"))))) ELSE Fail(d)
JsonFrom(d) ==
  LET t == Cur(d)
  IN CASE ~d.ok -> d
       [] t = "{" -> LET o == SkipWhite(Got(Step(d), EmptyObject)) IN IF Cur(o) = "}" THEN Step(o) ELSE ParseObject(o)
       [] t = "[" -> LET a == SkipWhite(Got(Step(d), EmptyList)) IN IF Cur(a) = "]" THEN Step(a) ELSE ParseArray(a)
       [] t \in Strings -> Got(Step(d), String(t))
       [] t \in Numbers -> Got(Step(d), IntValue(t))
       [] t \in {"true", "false"} -> Got(d, Bool(t = "true"))
       [] t = "null" -> Got(d, Null)
       [] OTHER -> Fail(d)
ParseJson(d) == JsonFrom(SkipWhite(d))
=============================================================================
