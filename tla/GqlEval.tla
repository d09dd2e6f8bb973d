------------------------------ MODULE GqlEval ------------------------------
(* The evaluation of a document (gqleval.c, gqlcobj.c, the resolver of        *)
(* agoo.c) and the objects that answer an introspection (gqlintro.c).         *)
EXTENDS GqlIntro

CONSTANT
  App(_, _, _, _)  \* what the application has: class, object, field, arguments

(* An object is the item of a class.  The resolver of the application gives   *)
(* a value, another object or a list of objects for a field, or has no such   *)
(* field.                                                                     *)
Obj(class, item) == [class |-> class, item |-> item]
Leaf(v) == [kind |-> "leaf", value |-> v]
One(obj) == [kind |-> "object", obj |-> obj]
Many(objs) == [kind |-> "list", objs |-> objs]
NoField == [kind |-> "none"]

(* What is evaluated: a document and the operation that was picked.  How far  *)
(* it is: whether there was no error yet, whether doc->funcs are those of     *)
(* introspection, and the object being filled.                                *)
EvalEnv(tb, doc, op) == [tb |-> tb, doc |-> doc, op |-> op]
Start == [ok |-> TRUE, intro |-> FALSE, res |-> EmptyObject]
Stop(r) == [r EXCEPT !.ok = FALSE]

Key(sel) == IF sel.alias = NoName THEN sel.name ELSE sel.alias
Put(r, sel, v) == [r EXCEPT !.res = ObjectSet(@, Key(sel), v)]
Str(s) == String(Quote(s))
\* Mutant: no description is an empty one.
DescValueEmpty(desc) == IF desc = None THEN Str("") ELSE String(desc[1])
DescValue(desc) == IF desc = None THEN Null ELSE String(desc[1])

\* gql_cobj_ref_type: the type that has the name of the class.
RefType(tb, ref) == IF HasType(tb, ref.class) THEN ref.class ELSE NoName


\* doc_var_value: the variable of the operation even if it has no value.
DocVarValue(env, key) ==
  LET own == NamedIn(env.op.vars, key)
      sent == NamedIn(env.doc.vars, key)
  IN IF own # <<>> THEN own[1].value ELSE IF sent # <<>> THEN sent[1].value ELSE None

\* frag_include
IfIs(env, use, b) ==
  \E i \in DOMAIN use.keys :
    /\ use.keys[i] = "if"
    /\ \/ use.values[i] = Bool(b)
       \/ use.values[i].kind = "var" /\ DocVarValue(env, use.values[i].s) = Some(Bool(b))
FragInclude(env, frag, ref) ==
  /\ frag.on # NoName => frag.on = RefType(env.tb, ref)
  /\ \A i \in DOMAIN frag.dir :
       /\ frag.dir[i].dir = "skip" => ~IfIs(env, frag.dir[i], TRUE)
       /\ frag.dir[i].dir = "include" => ~IfIs(env, frag.dir[i], FALSE)

\* gql_extract_arg: the last argument of the name.  The conversion to the type
\* of the argument is left out: it is given with that type, or as another that
\* the answer does not take for it.
ArgValue(args, key) ==
  LET named == NamedIn(args, key)
      a == Last(named)
  IN IF named = <<>> THEN None ELSE IF a.var # None THEN a.var[1].value ELSE a.value
\* gql_string_get: a variable that was not replaced gives its name.
StringGet(v) ==
  CASE v = None -> None
    [] v[1].kind = "string" -> Some(Unquote(v[1].s))
    [] v[1].kind \in {"token", "var"} -> Some(v[1].s)
    [] OTHER -> None

\* is_deprecated, deprecation_reason
UsesOf(dir, name) == SelectSeq(dir, LAMBDA u : u.dir = name)
Deprecated(dir) == UsesOf(dir, "deprecated") # <<>>
Reason(dir) ==
  LET given == SelectSeq(UsesOf(dir, "deprecated"), LAMBDA u : \E i \in DOMAIN u.keys : u.keys[i] = "reason")
      u == Last(given)
      reason == StringGet(Some(ObjectGet([keys |-> u.keys, members |-> u.values], "reason")))
  IN IF given = <<>> \/ reason = None THEN Null ELSE Str(reason[1])

---------------------------------------------------------------------------
RECURSIVE EvalSels(_, _, _, _, _, _), Resolve(_, _, _, _, _, _), CobjResolve(_, _, _, _, _, _)

\* gql_eval_sels: the fields and fragments of an object, until one fails.  The
\* field is the one the object is the value of, or none.
EvalSel(env, ref, field, sel, r, depth) ==
  LET sf == IF field = None \/ sel.name = NoName THEN field
            ELSE LET fs == TypeGetField(env.tb, field[1].type, sel.name) IN IF fs = <<>> THEN None ELSE Some(fs[1])
      Within(q, frag) == IF q.ok /\ FragInclude(env, frag, ref) THEN EvalSels(env, ref, sf, frag.sels, q, depth) ELSE q
  IN CASE ~r.ok -> r
       [] sel.inline # None \/ sel.frag # NoName ->
            FoldLeft(Within, r, IF sel.inline # None THEN sel.inline ELSE NamedIn(env.doc.frags, sel.frag))
       [] OTHER -> Resolve(env, ref, sf, sel, r, depth)
EvalSels(env, ref, field, sels, r, depth) ==
  FoldLeft(LAMBDA q, s : EvalSel(env, ref, field, s, q, depth), r, sels)

\* The value of a field that is an object, or a list of them; the field of the
\* members is one that has the base type of the list.
PutFilled(r, sel, c) == Put([c EXCEPT !.res = r.res], sel, c.res)
AppendFilled(q, c) == IF q.ok THEN [c EXCEPT !.res = ListAppend(q.res, c.res)] ELSE q
EvalObject(env, ref, field, sel, r, depth) ==
  PutFilled(r, sel, EvalSels(env, ref, field, sel.sels, [r EXCEPT !.res = EmptyObject], depth))
EvalList(env, refs, sel, r, depth) ==
  LET cf == Some(F(NoName, env.tb.types[sel.type].base, FALSE))
      Member(q, ref) == AppendFilled(q, EvalSels(env, ref, cf, sel.sels, [q EXCEPT !.res = EmptyObject], depth))
  IN PutFilled(r, sel, FoldLeft(Member, [r EXCEPT !.res = EmptyList], refs))
Objs(class, items) == [i \in DOMAIN items |-> Obj(class, items[i])]

\* The types in the order they are met; the code takes the buckets one by one.
AllTypes(tb) ==
  LET all == {n \in DOMAIN tb.types : tb.types[n].kind # "list"}
  IN FoldSet(LAMBDA n, seq : Append(seq, n), <<>>, all)

\* A kind that has no name is an error.
KindToken ==
  "schema" :> "SCHEMA" @@ "object" :> "OBJECT" @@ "input" :> "INPUT_OBJECT" @@ "union" :> "UNION"
  @@ "interface" :> "INTERFACE" @@ "enum" :> "ENUM" @@ "scalar" :> "SCALAR" @@ "list" :> "LIST"

\* type_kind ... type_of_type.  What only some kinds have is left out of the
\* answer for the others.  Every list is that of another class of objects.
List(env, class, items, sel, r, depth) == EvalList(env, Objs(class, items), sel, r, depth + 1)
Shown(xs, sel) ==
  SelectSeq(xs, LAMBDA x : ArgValue(sel.args, "includeDeprecated") = Some(Bool(TRUE)) \/ ~Deprecated(x.dir))
TypeFields(env, t, sel, r, depth) ==
  IF t.kind \in {"object", "schema", "interface"} THEN List(env, "__Field", Shown(t.fields, sel), sel, r, depth) ELSE r
TypeInterfaces(env, t, sel, r, depth) == IF t.kind = "object" THEN List(env, "__Type", t.links, sel, r, depth) ELSE r
\* Whether a type implements an interface is looked up in every type
\* (has_interface), also in a scalar, where the code keeps two functions in that
\* place: no answer then.
TypePossibleTypes(env, t, sel, r, depth) ==
  CASE t.kind = "union"     -> List(env, "__Type", t.links, sel, r, depth)
    [] t.kind = "interface" -> Stop(r)
    [] OTHER                -> Put(r, sel, ListAppend(EmptyList, Null))
TypeEnumValues(env, t, sel, r, depth) ==
  IF t.kind = "enum" THEN List(env, "__EnumValue", Shown(t.choices, sel), sel, r, depth) ELSE r
TypeInputFields(env, t, sel, r, depth) == IF t.kind = "input" THEN List(env, "__InputValue", t.args, sel, r, depth) ELSE r
TypeOfType(env, t, field, sel, r, depth) ==
  IF t.kind = "list" THEN EvalObject(env, Obj("__Type", t.base), field, sel, r, depth + 1) ELSE Put(r, sel, Null)

TypeMethod(env, n, field, sel, r, depth) ==
  LET t == env.tb.types[n]
  IN CASE sel.name = "kind"          -> IF t.kind \in DOMAIN KindToken THEN Put(r, sel, Token(KindToken[t.kind])) ELSE Stop(r)
       [] sel.name = "name"          -> Put(r, sel, Str(n))
       [] sel.name = "description"   -> Put(r, sel, DescValue(t.desc))
       [] sel.name = "fields"        -> TypeFields(env, t, sel, r, depth)
       [] sel.name = "interfaces"    -> TypeInterfaces(env, t, sel, r, depth)
       [] sel.name = "possibleTypes" -> TypePossibleTypes(env, t, sel, r, depth)
       [] sel.name = "enumValues"    -> TypeEnumValues(env, t, sel, r, depth)
       [] sel.name = "inputFields"   -> TypeInputFields(env, t, sel, r, depth)
       [] sel.name = "ofType"        -> TypeOfType(env, t, field, sel, r, depth)
       [] OTHER                      -> Stop(r)

\* field_name ..., input_value_name ..., enum_value_name ...: a default value
\* that is a list, an object, null or a variable cannot be made a string.
MemberMethod(env, x, field, sel, r, depth) ==
  CASE sel.name = "name"         -> Put(r, sel, Str(x.name))
    [] sel.name = "description"  -> Put(r, sel, DescValue(x.desc))
    [] sel.name = "type"         -> EvalObject(env, Obj("__Type", x.type), field, sel, r, depth + 1)
    [] OTHER                     -> Stop(r)
FieldMethod(env, f, field, sel, r, depth) ==
  CASE sel.name = "args"              -> EvalList(env, Objs("__InputValue", f.args), sel, r, depth + 1)
    [] sel.name = "isDeprecated"      -> Put(r, sel, Bool(Deprecated(f.dir)))
    [] sel.name = "deprecationReason" -> Put(r, sel, Reason(f.dir))
    [] OTHER                          -> MemberMethod(env, f, field, sel, r, depth)
InputValueMethod(env, a, field, sel, r, depth) ==
  CASE sel.name # "defaultValue" -> MemberMethod(env, a, field, sel, r, depth)
    [] a.dval = None             -> Put(r, sel, Null)
    [] a.dval[1].kind \in {"list", "object", "null", "var"} -> Stop(r)
    [] a.dval[1].kind = "string" -> Put(r, sel, a.dval[1])
    [] OTHER                     -> Put(r, sel, Str(a.dval[1].s))
EnumValueMethod(c, sel, r) ==
  CASE sel.name = "name"              -> Put(r, sel, Str(c.value))
    [] sel.name = "description"       -> Put(r, sel, DescValue(c.desc))
    [] sel.name = "isDeprecated"      -> Put(r, sel, Bool(Deprecated(c.dir)))
    [] sel.name = "deprecationReason" -> Put(r, sel, Reason(c.dir))
    [] OTHER                          -> Stop(r)

\* directive_name ... directive_args
DirectiveMethod(env, d, sel, r, depth) ==
  CASE sel.name = "name"        -> Put(r, sel, Str(d.name))
    [] sel.name = "description" -> Put(r, sel, DescValue(d.desc))
    [] sel.name = "locations"   -> Put(r, sel, [EmptyList EXCEPT !.members = [i \in DOMAIN d.locs |-> Str(d.locs[i])]])
    [] sel.name = "args"        -> EvalList(env, Objs("__InputValue", d.args), sel, r, depth + 1)
    [] OTHER                    -> Stop(r)

\* schema_types ... schema_directives; the root of an operation is the object
\* that the application gave, and its type the one named as its class.
OpClass(env, kind) == App("schema", NoName, kind, <<>>)
SchemaMethod(env, field, sel, r, depth) ==
  LET OpMethod(kind) ==
        LET c == OpClass(env, kind)
        IN IF c.kind = "object" /\ RefType(env.tb, c.obj) # NoName
           THEN EvalObject(env, Obj("__Type", RefType(env.tb, c.obj)), field, sel, r, depth + 1)
           ELSE Put(r, sel, Null)
  IN CASE sel.name = "types"            -> EvalList(env, Objs("__Type", AllTypes(env.tb)), sel, r, depth + 1)
       [] sel.name = "queryType"        -> OpMethod("query")
       [] sel.name = "mutationType"     -> OpMethod("mutation")
       [] sel.name = "subscriptionType" -> OpMethod("subscription")
       [] sel.name = "directives"       -> EvalList(env, Objs("__Directive", env.tb.dirs), sel, r, depth + 1)
       [] OTHER                         -> Stop(r)

\* root_schema, root_type
RootMethod(env, field, sel, r, depth) ==
  LET name == StringGet(ArgValue(sel.args, "name"))
  IN CASE sel.name = "__schema" -> EvalObject(env, Obj("__Schema", NoName), field, sel, r, depth + 1)
       [] sel.name = "__type"   -> IF name # None /\ HasType(env.tb, name[1])
                                   THEN EvalObject(env, Obj("__Type", name[1]), field, sel, r, depth + 1) ELSE Stop(r)
       [] OTHER                 -> Stop(r)

\* The methods of the application: query and mutation of the root fill the
\* answer itself (schema_query, schema_mutation).
AppMethod(env, ref, field, sel, r, depth) ==
  LET x == App(ref.class, ref.item, sel.name, sel.args)
  IN CASE x.kind = "none" -> Stop(r)
       [] x.kind = "leaf" -> Put(r, sel, x.value)
       [] x.kind = "list" -> EvalList(env, x.objs, sel, r, depth + 1)
       [] ref.class = "schema" -> EvalSels(env, x.obj, field, sel.sels, r, depth + 1)
       [] OTHER           -> EvalObject(env, x.obj, field, sel, r, depth + 1)

\* gql_cobj_resolve
CobjResolve(env, ref, field, sel, r, depth) ==
  CASE ref.class = "__Query"      -> RootMethod(env, field, sel, r, depth)
    [] ref.class = "__Schema"     -> SchemaMethod(env, field, sel, r, depth)
    [] ref.class = "__Type"       -> TypeMethod(env, ref.item, field, sel, r, depth)
    [] ref.class = "__Field"      -> FieldMethod(env, ref.item, field, sel, r, depth)
    [] ref.class = "__InputValue" -> InputValueMethod(env, ref.item, field, sel, r, depth)
    [] ref.class = "__EnumValue"  -> EnumValueMethod(ref.item, sel, r)
    [] ref.class = "__Directive"  -> DirectiveMethod(env, ref.item, sel, r, depth)
    [] OTHER                      -> AppMethod(env, ref, field, sel, r, depth)

\* gql_intro_eval: from here on the fields are resolved by gql_cobj_resolve.
IntroEval(env, sel, r, depth) ==
  IF depth > 1 THEN Stop(r)
  ELSE CobjResolve(env, Obj("__Query", NoName), Some(F(sel.name, sel.type, FALSE)), sel, [r EXCEPT !.intro = TRUE], depth)
\* resolve, until then.
Resolve(env, ref, field, sel, r, depth) ==
  CASE r.intro -> CobjResolve(env, ref, field, sel, r, depth)
    [] sel.name = "__typename" -> IF RefType(env.tb, ref) = NoName THEN Stop(r) ELSE Put(r, sel, Str(RefType(env.tb, ref)))
    [] sel.name \in {"__type", "__schema"} -> IF env.op.kind = "query" THEN IntroEval(env, sel, r, depth) ELSE Stop(r)
    [] OTHER -> CobjResolve(env, ref, field, sel, r, depth)

---------------------------------------------------------------------------
\* gql_doc_eval: the operation is a selection on the root object.
DocEval(tb, doc, op) ==
  LET fs == TypeGetField(tb, RootType, op.kind)
      sel == [Sel(NoName, op.kind) EXCEPT !.type = RootType, !.dir = op.dir, !.sels = op.sels]
  IN IF fs = <<>> THEN Stop(Start)
     ELSE Resolve(EvalEnv(tb, doc, op), Obj("schema", NoName), Some(fs[1]), sel, Start, 0)

\* parse_query_vars: the members of a JSON object, the last one first.
NoVars == <<>>
VarsOf(d) ==
  IF ~d.ok \/ d.got.kind # "object" THEN Fail(d)
  ELSE Got(d, Reverse([i \in DOMAIN d.got.keys |-> OpVar(d.got.keys[i], NoName, Some(d.got.members[i]))]))
QueryVars(json) == VarsOf(ParseJson(Doc(json)))

\* set_doc_op: the operation of a name, or the first when there is no name.
SetDocOp(doc, name) ==
  IF name # NoName THEN NamedIn(doc.ops, name) ELSE IF doc.ops = <<>> THEN <<>> ELSE <<doc.ops[1]>>

(* A request that has a query: the status and the data of the answer.         *)
Answer(status, data) == [status |-> status, data |-> data]
SentVars(req) == IF req.vars = NoVars THEN Got(Doc(<<>>), <<>>) ELSE QueryVars(req.vars)

\* The document of a request, when its variables can be read
ReadRequest(vars, tb, req) == IF vars.ok THEN ParseDoc(req.query, tb, RootType, vars.got, "query") ELSE vars
Evaluated(r, failed) == IF r.ok THEN Answer(200, r.res) ELSE failed
RunOp(d, op, none, failed) == IF op = <<>> THEN none ELSE Evaluated(DocEval(d.tb, d.got, op[1]), failed)

\* gql_eval_get_hook
GetAnswer(d, req) ==
  CASE ~SentVars(req).ok -> Answer(400, Null)
    [] ~d.ok             -> Answer(500, Null)
    [] OTHER             -> RunOp(d, SetDocOp(d.got, req.opName), Answer(500, Null), Answer(500, Null))
EvalGet(tb, req) == GetAnswer(ReadRequest(SentVars(req), tb, req), req)

\* eval_post and gql_eval_post_hook: the kind of the operation is looked at even
\* when there is none of that name, and the process ends there.
NoAnswer == Answer(0, Null)
PostAnswer(d, req) ==
  IF d.ok THEN RunOp(d, SetDocOp(d.got, req.opName), NoAnswer, Answer(400, Null)) ELSE Answer(400, Null)
EvalPost(tb, req) == PostAnswer(ReadRequest(SentVars(req), tb, req), req)
EvalRequest(tb, req) == IF req.method = "POST" THEN EvalPost(tb, req) ELSE EvalGet(tb, req)

\* value_resp: the indent is one that the request gives.
ResponseJson(a, indent) == ValueJson(ObjectSet(EmptyObject, "data", a.data), indent)
=============================================================================
