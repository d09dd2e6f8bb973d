----------------------------- MODULE MCGqlQuery -----------------------------
(* A client that composes a request and asks for it, for TLC.  The schema and *)
(* what the application answers are those of a small example like             *)
(* example/graphql/songs: a query gives an A by name or the list of them, and *)
(* a mutation gives one.                                                      *)
EXTENDS GqlEval

CONSTANTS
  MaxParts   \* how many parts a request is put together from

Names == {"x", "y"}
MCStrings == {Quote(n) : n \in Names \cup {"data", "v", "n", "k", "a", "list", "up", "set", "__typename", "A", "Query", "Mutation"}}
Schema ==
  <<"type", " ", "Query", "{", "a", "(", "name", ":", "String", ")", ":", "A", " ", "list", ":", "[", "A", "]", "}",
    "type", " ", "Mutation", "{", "set", "(", "name", ":", "String", ")", ":", "A", "}",
    "type", " ", "A", "{", "n", ":", "String", " ", "up", ":", "Query", "}">>
Table == Setup(Schema).tb

\* query_artist, query_artists, artist_name, ... of the example
ByName(args) ==
  LET n == StringGet(ArgValue(args, "name"))
  IN IF n # None /\ n[1] \in Names THEN One(Obj("A", n[1])) ELSE Leaf(Null)
MCApp(class, item, field, args) ==
  CASE class = "schema" /\ field = "query"    -> One(Obj("Query", NoName))
    [] class = "schema" /\ field = "mutation" -> One(Obj("Mutation", NoName))
    [] class = "Query" /\ field = "a"         -> ByName(args)
    [] class = "Query" /\ field = "list"      -> Many(<<Obj("A", "x"), Obj("A", "y")>>)
    [] class = "Mutation" /\ field = "set"    -> ByName(args)
    [] class = "A" /\ field = "n"             -> Leaf(Str(item))
    [] class = "A" /\ field = "up"            -> One(Obj("Query", NoName))
    [] OTHER                                  -> NoField

VARIABLES doc, sent, resp
vars == <<doc, sent, resp>>

NotAsked == Answer(1, Null)
Init ==
  /\ \E kind \in {"query", "mutation"} : doc = [EmptyDoc(<<>>) EXCEPT !.ops = <<Op("q", kind)>>]
  /\ sent = NoVars
  /\ resp = NotAsked

---------------------------------------------------------------------------
\* The parts of a request: variables declared and sent, the selections of the
\* first operation and those in them, the fragments and the other operations.
Added(sels) == FoldLeft(LAMBDA n, s : n + (IF s.sels = <<>> THEN 1 ELSE Len(s.sels)), 0, sels)
Parts == Len(doc.ops[1].vars) + Len(doc.vars) + Added(doc.ops[1].sels) + Len(doc.frags) + Len(doc.ops) - 1
Composing == resp = NotAsked /\ Parts < MaxParts

\* Values and variables come first: a variable with or without a default, one
\* that decides about fragments, and the variables sent with the request.
Declared ==
  {OpVar("v", "String", value) : value \in {None, Some(Str("x"))}}
  \cup {OpVar("b", "Boolean", Some(Bool(b))) : b \in BOOLEAN}
DeclareVar(v) ==
  /\ Composing /\ doc.ops[1].sels = <<>> /\ doc.frags = <<>> /\ NamedIn(doc.ops[1].vars, v.name) = <<>>
  /\ doc' = [doc EXCEPT !.ops[1].vars = Append(@, v)]
  /\ UNCHANGED <<sent, resp>>
\* The text of the variables, and what it says.
SentJson == <<"{", "'v'", ":", "'y'", "}">>
SentVar == OpVar("v", NoName, Some(String("'y'")))
SendVars ==
  /\ Composing /\ sent = NoVars /\ doc.ops[1].sels = <<>> /\ doc.frags = <<>>
  /\ sent' = SentJson
  /\ doc' = [doc EXCEPT !.vars = <<SentVar>>]
  /\ UNCHANGED resp

Uses == {<<[DirUse(d) EXCEPT !.keys = <<"if">>, !.values = <<v>>]>> :
           d \in {"skip", "include"}, v \in {Bool(TRUE), Var("b")}}
\* A variable in an argument is only a name for the client.
Unbound == OpVar("v", NoName, None)
NameArgs == {<<>>, <<SelArg("name", Some(Str("x")), None)>>, <<SelArg("name", None, Some(Unbound))>>}
FieldN(alias) == Sel(alias, "n")
RootSels(kind) ==
  IF kind = "mutation"
  THEN {[Sel("k", "set") EXCEPT !.args = args, !.sels = <<FieldN(NoName)>>] : args \in NameArgs}
  ELSE {[Sel(NoName, "a") EXCEPT !.args = args, !.sels = <<FieldN(NoName)>>] : args \in NameArgs}
       \cup {[Sel("k", "list") EXCEPT !.sels = <<FieldN(NoName)>>], Sel(NoName, "__typename"), Spread("G")}
       \cup {Inline([Fragment(NoName, NoName) EXCEPT !.dir = u, !.sels = <<Sel(NoName, "__typename")>>]) : u \in Uses}
InnerSels ==
  {FieldN("k"), Sel(NoName, "__typename"), Spread("F"), Spread("G"),
   Inline([Fragment(NoName, "A") EXCEPT !.sels = <<FieldN("k")>>]),
   Inline([Fragment(NoName, "Query") EXCEPT !.sels = <<Sel("k", "__typename")>>]),
   [Sel(NoName, "up") EXCEPT !.sels = <<Spread("G"), Sel("k", "__typename")>>]}

AddSel(sel) ==
  /\ Composing
  /\ doc' = [doc EXCEPT !.ops[1].sels = Append(@, sel)]
  /\ UNCHANGED <<sent, resp>>
\* A selection in the last one, which is an A or a list of them.
AddInner(sel) ==
  LET last == Len(doc.ops[1].sels)
  IN /\ Composing /\ last > 0 /\ doc.ops[1].sels[last].name \in {"a", "list", "set"}
     /\ doc' = [doc EXCEPT !.ops[1].sels[last].sels = Append(@, sel)]
     /\ UNCHANGED <<sent, resp>>
AddFragment(frag) ==
  /\ Composing /\ NamedIn(doc.frags, frag.name) = <<>>
  /\ doc' = [doc EXCEPT !.frags = Append(@, frag)]
  /\ UNCHANGED <<sent, resp>>
Frags ==
  {[Fragment("F", "A") EXCEPT !.dir = u, !.sels = <<FieldN(NoName)>>] : u \in Uses \cup {<<>>}}
  \cup {[Fragment("G", "Query") EXCEPT !.sels = <<[Sel(NoName, "list") EXCEPT !.sels = <<FieldN(NoName), Spread("F")>>]>>]}
AddOp ==
  /\ Composing /\ Len(doc.ops) = 1 /\ doc.ops[1].sels # <<>>
  /\ doc' = [doc EXCEPT !.ops = Append(@, [Op("p", "query") EXCEPT !.sels = <<Sel(NoName, "__typename")>>])]
  /\ UNCHANGED <<sent, resp>>

\* gql_eval_get_hook, gql_eval_post_hook.  A client writes a variable with a $,
\* and the { behind a ) without a blank, as the code wants it (GqlDoc).
WithDollars(ts) == [i \in DOMAIN ts |-> IF ts[i] = "%" THEN "$" ELSE ts[i]]
Needed(ts, i) == ~(ts[i] = Blank /\ i \in 2..(Len(ts) - 1) /\ ts[i - 1] = ")" /\ ts[i + 1] = "{")
Tight(ts) == FlattenSeq([i \in DOMAIN ts |-> IF Needed(ts, i) THEN <<ts[i]>> ELSE <<>>])
ClientText(d) == Tight(WithDollars(DocSdl(Table, d)))
Request(d, method, opName) == [method |-> method, query |-> ClientText(d), vars |-> sent, opName |-> opName]
Ask(method, opName) ==
  /\ resp = NotAsked /\ doc.ops[1].sels # <<>>
  /\ resp' = EvalRequest(Table, Request(doc, method, opName))
  /\ UNCHANGED <<doc, sent>>

Next ==
  \/ \E v \in Declared : DeclareVar(v)
  \/ SendVars
  \/ \E sel \in RootSels(doc.ops[1].kind) : AddSel(sel)
  \/ \E sel \in InnerSels : AddInner(sel)
  \/ \E frag \in Frags : AddFragment(frag)
  \/ AddOp
  \/ Ask("GET", NoName)
  \/ Ask("POST", "q")

Spec == Init /\ [][Next]_vars

---------------------------------------------------------------------------
\* What a $v stands for: the default that the operation gives it, else what was
\* sent; the document with that in the place of the name.
Defaults == {v \in Range(doc.ops[1].vars) : v.name = "v" /\ v.value # None}
Meant == IF Defaults # {} THEN CHOOSE v \in Defaults : TRUE ELSE SentVar
Bound(arg) == IF arg.var = None THEN arg ELSE [arg EXCEPT !.var = Some(Meant)]
BoundSel(s) == [s EXCEPT !.args = [i \in DOMAIN @ |-> Bound(@[i])]]
MeantDoc == [doc EXCEPT !.ops[1].sels = [i \in DOMAIN @ |-> BoundSel(@[i])]]
Understood ==
  (\E i \in DOMAIN doc.ops[1].sels : \E j \in DOMAIN doc.ops[1].sels[i].args : doc.ops[1].sels[i].args[j].var # None)
  => Defaults # {} \/ sent # NoVars

\* What an operation asks for: the fields of an object in the order they are
\* selected, with those of the fragments that apply in their place.
RECURSIVE Fields(_, _), Wanted(_, _)
Decides(use, b) ==
  LET v == use.values[1]
      d == NamedIn(doc.ops[1].vars, v.s)
  IN IF v.kind = "var" THEN d # <<>> /\ d[1].value = Some(Bool(b)) ELSE v = Bool(b)
Applies(frag, ref) ==
  /\ frag.on \in {NoName, ref.class}
  /\ \A i \in DOMAIN frag.dir : ~Decides(frag.dir[i], frag.dir[i].dir = "skip")
Fields(sels, ref) ==
  LET Of(frags) == FlattenSeq([i \in DOMAIN frags |-> IF Applies(frags[i], ref) THEN Fields(frags[i].sels, ref) ELSE <<>>])
  IN FlattenSeq([i \in DOMAIN sels |->
       CASE sels[i].inline # None -> Of(sels[i].inline)
         [] sels[i].frag # NoName -> Of(NamedIn(doc.frags, sels[i].frag))
         [] OTHER                 -> <<sels[i]>>])
Wanted(sels, ref) ==
  LET fs == Fields(sels, ref)
      ValueOf(s) ==
        LET x == MCApp(ref.class, ref.item, s.name, s.args)
        IN CASE s.name = "__typename" -> Str(ref.class)
             [] x.kind = "leaf"   -> x.value
             [] x.kind = "object" -> Wanted(s.sels, x.obj)
             [] x.kind = "list"   -> [EmptyList EXCEPT !.members = [i \in DOMAIN x.objs |-> Wanted(s.sels, x.objs[i])]]
  IN [EmptyObject EXCEPT !.keys = [i \in DOMAIN fs |-> Key(fs[i])], !.members = [i \in DOMAIN fs |-> ValueOf(fs[i])]]

\* A document whose text the code does not read: a blank stands between the
\* arguments of a directive and the { of a fragment.
Spaced == \E i \in DOMAIN doc.frags : \E j \in DOMAIN doc.frags[i].dir : doc.frags[i].dir[j].keys # <<>>
RereadsAs(back) ==
  IF Understood /\ ~Spaced THEN back.ok /\ back.got = WithTypes(Table, RootType, MeantDoc) ELSE ~back.ok
Rereads(ts) == "%" \notin Range(ts) => RereadsAs(ParseDoc(ts, Table, RootType, doc.vars, "query"))
\* The text of a document (gql_doc_sdl) is read by sdl_parse_doc as the same
\* document, with the types of its fields, and behind every $ the variable that is
\* meant.  It is refused when there is no such variable, and when a fragment has a
\* directive with arguments: make_fragment does not pass the blank behind them.
\* A variable of a directive is left out: it is written as %.
DocRoundTrip == resp = NotAsked /\ doc.ops[1].sels # <<>> => Rereads(DocSdl(Table, doc))


\* The JSON of an answer without null (gql_value_json) is read by gql_json_parse
\* as the same value.  With an indent that is so when no object has two members;
\* otherwise it is refused: parse_object wants the next key right behind a comma.
RECURSIVE Readable(_), Narrow(_)
Readable(v) == v.kind \notin {"null", "bool"} /\ \A i \in DOMAIN v.members : Readable(v.members[i])
Narrow(v) == (v.kind = "object" => Len(v.members) < 2) /\ \A i \in DOMAIN v.members : Narrow(v.members[i])
JsonReadsBack ==
  resp.status = 200 /\ Readable(resp.data) =>
    \A indent \in {0, 2} :
      LET back == ParseJson(Doc(ResponseJson(resp, indent)))
      IN IF indent = 0 \/ Narrow(resp.data) THEN back.ok /\ ObjectGet(back.got, "data") = resp.data ELSE ~back.ok
=============================================================================
