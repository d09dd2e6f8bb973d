---------------------------- MODULE MCGqlSchema ----------------------------
(* A process that builds a schema call by call, for TLC: the calls that C     *)
(* code makes (graphql.h) and the loading of a further SDL text.              *)
EXTENDS GqlEval

CONSTANTS
  TypeNames,   \* the names that types are given
  ScalarName,  \* the scalar type that fields have
  MaxCalls     \* how many calls are made

Sorted == <<"A", "B", "schema">>
\* An application whose root of queries is of the type A.
QueryIsA(class, item, field, args) == IF class = "schema" /\ field = "query" THEN One(Obj("A", NoName)) ELSE NoField

VARIABLES table, calls
vars == <<table, calls>>

Call(tb) == calls < MaxCalls /\ table' = tb /\ calls' = calls + 1
KindOfName(n) == IF HasType(table, n) THEN table.types[n].kind ELSE "none"
Descs == {None, Some("'d'")}
DefaultValues ==
  {None, Some(IntValue("1")), Some(ListAppend(EmptyList, IntValue("1"))), Some(ObjectSet(EmptyObject, "k", Null))}
Uses == {DirUse("x"), DirUseArg(DirUse("x"), "k", Token("red"))}

Init == table = GqlInit /\ calls = 0

\* gql_schema_create, gql_type_create, gql_input_create, gql_interface_create,
\* gql_union_create, gql_enum_create, gql_scalar_create
CreateType(kind, n, desc) ==
  /\ CanCreate(table, n)
  /\ Call(TypeCreate(table, kind, n, desc))

\* Types that a field can have: a name is made known first, a list too.
FieldTypes(tb) ==
  {<<tb, ScalarName>>} \cup {<<AssureType(tb, n), n>> : n \in TypeNames}
    \cup {<<AssureList(AssureType(tb, n), n, b), ListName(n, b)>> : n \in TypeNames, b \in BOOLEAN}

\* gql_type_field; lists that are required are left to the arguments.
AddField(n, req) ==
  /\ KindOfName(n) \in {"schema", "object", "interface"}
  /\ Len(table.types[n].fields) < 2
  /\ \E ft \in {x \in FieldTypes(table) : req => x[2] \in TypeNames \cup {ScalarName}} :
       LET f == Field(IF table.types[n].fields = <<>> THEN "f" ELSE "g", ft[2], None, None, req)
       IN Call(TypeField(ft[1], n, f))
\* gql_field_arg
AddFieldArg(n) ==
  /\ KindOfName(n) \in {"object", "interface"}
  /\ \E i \in DOMAIN table.types[n].fields, ft \in FieldTypes(table) :
       LET args == table.types[n].fields[i].args
       IN /\ Len(args) < 2
          /\ Call(FieldArg(ft[1], n, i, IF args = <<>> THEN Arg("a", ft[2], Some("'d'"), None, TRUE)
                                                       ELSE Arg("b", ft[2], None, None, FALSE)))
\* gql_input_arg
AddInputArg(n, dval) ==
  /\ KindOfName(n) = "input"
  /\ Len(table.types[n].args) < 2
  /\ \E ft \in FieldTypes(table) :
       Call(InputArg(ft[1], n, Arg(IF table.types[n].args = <<>> THEN "a" ELSE "b", ft[2], None, dval, FALSE)))
\* gql_union_add
AddMember(n, member) ==
  /\ KindOfName(n) = "union" /\ member # n
  /\ Call(UnionAdd(AssureType(table, member), n, member))
\* gql_type_create with interfaces
AddInterface(n, interface) ==
  /\ KindOfName(n) = "object" /\ KindOfName(interface) = "interface"
  /\ Call(UnionAdd(table, n, interface))
\* gql_enum_append
AddChoice(n, v, desc) ==
  /\ KindOfName(n) = "enum" /\ ~HasChoice(table, n, v)
  /\ Call(EnumAppend(table, n, v, desc, <<>>))
\* gql_directive_create, gql_dir_arg, gql_directive_on
CreateDirective(n, desc) ==
  Call(DirectiveOn(DirArg(DirectiveCreate(table, n, desc), n, Arg("k", "Int", None, None, TRUE)), n, "OBJECT"))
AddLoc(n) == (\E i \in DirIndex(table, n) : table.dirs[i].defined) /\ Call(DirectiveOn(table, n, "FIELD"))
\* gql_dir_use_create, gql_type_directive_use
UseDirective(n, use) ==
  /\ KindOfName(n) \notin {"none", "undef"} /\ HasDir(table, use.dir)
  /\ ~IsDuplicateUse(table.types[n].dir, use)
  /\ Call(TypeDirectiveUse(table, n, use))

\* sdl_parse, for a type that is an object or refused for being unknown.
Extension(n) ==
  <<"extend", " ", "type", " ", n, " ", "@", "x", "(", "k", ":", "1", ")", " ", "{", "e", "(", "a", ":", "Int", ")", ":", n,
    " ", "@", "deprecated", "(", "reason", ":", "'d'", ")", "}">>
LoadExtension(n) == KindOfName(n) \in {"none", "object"} /\ Call(SdlParse(Extension(n), table).tb)

Next ==
  \/ \E n \in TypeNames, desc \in Descs : CreateType("object", n, desc)
  \/ \E n \in TypeNames : \E kind \in {"interface", "input", "union", "enum", "scalar"} : CreateType(kind, n, Some("'d'"))
  \/ CreateType("schema", "schema", None)
  \/ \E n \in TypeNames \cup {"schema"}, req \in BOOLEAN : AddField(n, req)
  \/ \E n \in TypeNames : AddFieldArg(n)
  \/ \E n \in TypeNames, dval \in DefaultValues :
       AddInputArg(n, dval)
  \/ \E n, m \in TypeNames : AddMember(n, m)
  \/ \E n, m \in TypeNames : AddInterface(n, m)
  \/ \E n \in TypeNames, v \in {"red", "blue"}, desc \in Descs : AddChoice(n, v, desc)
  \/ CreateDirective("x", Some("'d'"))
  \/ AddLoc("x")
  \/ \E n \in TypeNames, use \in Uses : UseDirective(n, use)
  \/ \E n \in TypeNames : LoadExtension(n)

Spec == Init /\ [][Next]_vars

---------------------------------------------------------------------------
\* What SDL can tell: types that are defined or named by one that is, and the
\* directives, whatever their order.
Meaning(tb) ==
  LET defined == {n \in DOMAIN tb.types : tb.types[n].kind \notin {"undef", "list"} /\ ~tb.types[n].core}
  IN [types |-> [n \in defined |-> tb.types[n]],
      dirs |-> {tb.dirs[i] : i \in DOMAIN tb.dirs}]

\* Tables that sdl_parse can read back: a union has members, a directive that is
\* used is defined, a type uses one directive at most (extract_dir_use reads one),
\* a choice has no description (make_enum does not pass the end of its line, and
\* takes the rest of the text for a choice), and a default list is for a type that
\* is a list.
Printable(tb) ==
  /\ \A i \in DOMAIN tb.dirs : tb.dirs[i].locs # <<>>
  /\ \A n \in DOMAIN tb.types \cap TypeNames :
     /\ Len(tb.types[n].dir) <= 1
     /\ tb.types[n].kind = "union" => tb.types[n].links # <<>>
     /\ \A i \in DOMAIN tb.types[n].choices : tb.types[n].choices[i].desc = None
     /\ \A i \in DOMAIN tb.types[n].args :
          LET a == tb.types[n].args[i]
          IN a.dval # None /\ a.dval[1].kind = "list" => tb.types[a.type].kind = "list"

SameMeaning(back) == back.ok /\ Meaning(back.tb) = Meaning(table)
ReadAfter(first, ts) == IF first.ok THEN SdlParse(ts, first.tb) ELSE first

\* The dump of a schema (gql_schema_sdl) read by sdl_parse in a new process gives
\* the same types, fields, arguments, choices, members and directives back: what
\* refers to a type that is defined later, or to a list, finds it.
RoundTrip ==
  Printable(table) => SameMeaning(SdlParse(SchemaSdl(table, TRUE), GqlInit))

\* The definitions of a schema may be read in any order, in one text or in
\* several (sdl_parse, gql_assure_type): here one type is loaded first, the
\* rest, which may name it and be named by it, in a text of its own.
AnyOrder ==
  Printable(table) =>
    \A n \in {m \in TypeNames : KindOfName(m) \notin {"none", "undef"}} :
      SameMeaning(ReadAfter(SdlParse(TypeSdl(table, n, TRUE), GqlInit),
                            SchemaSdl([table EXCEPT !.types[n].core = TRUE], TRUE)))

---------------------------------------------------------------------------
\* What a client asks of a type, and what it makes of the answer.
S(name) == Sel(NoName, name)
With(name, sels) == [S(name) EXCEPT !.sels = sels]
AllOf(name, sels) ==
  [With(name, sels) EXCEPT !.args = <<SelArg("includeDeprecated", Some(Bool(TRUE)), None)>>]
TypeSels == <<S("kind"), S("name"), With("ofType", <<S("name")>>)>>
InputSels == <<S("name"), S("description"), With("type", TypeSels), S("defaultValue")>>
FieldSels == <<S("name"), S("description"), With("type", TypeSels), With("args", InputSels)>>
AskSels ==
  <<S("kind"), S("description"), With("interfaces", <<S("name")>>), With("inputFields", InputSels),
    AllOf("fields", FieldSels \o <<S("isDeprecated"), S("deprecationReason")>>),
    [With("fields", <<S("name")>>) EXCEPT !.alias = "current"], AllOf("enumValues", <<S("name"), S("description")>>)>>
UnionSels == <<S("kind"), S("description"), With("possibleTypes", <<S("name")>>)>>
AskType(n) ==
  LET sels == IF table.types[n].kind = "union" THEN UnionSels ELSE AskSels
      ask == [With("__type", SetTypes(table, "__Type", sels, FALSE)) EXCEPT
                !.type = "__Type", !.args = <<SelArg("name", Some(Str(n)), None)>>]
  IN IntroEval(EvalEnv(table, EmptyDoc(<<>>), Op(NoName, "query")), ask, Start, 1)
AskSchema ==
  LET sels == <<With("types", <<S("name")>>), With("queryType", <<S("name")>>), With("mutationType", <<S("name")>>),
                With("directives", <<S("name"), S("description"), S("locations"), With("args", InputSels)>>)>>
      ask == [With("__schema", SetTypes(table, "__Schema", sels, FALSE)) EXCEPT !.type = "__Schema"]
  IN IntroEval(EvalEnv(table, EmptyDoc(<<>>), Op(NoName, "query")), ask, Start, 1)

TextOf(v, key) == LET m == ObjectGet(v, key) IN IF m = Null THEN None ELSE Some(m.s)
NamesOf(v, key) == LET ms == ObjectGet(v, key).members IN [i \in DOMAIN ms |-> TextOf(ms[i], "name")[1]]
HeardType(v) ==
  LET of == ObjectGet(v, "ofType")
  IN [kind |-> ObjectGet(v, "kind").s, name |-> TextOf(v, "name")[1],
      base |-> IF of = Null THEN None ELSE TextOf(of, "name")]
HeardInputs(v, key) ==
  LET ms == ObjectGet(v, key).members
  IN [i \in DOMAIN ms |-> [name |-> TextOf(ms[i], "name")[1], desc |-> TextOf(ms[i], "description"),
                           type |-> HeardType(ObjectGet(ms[i], "type")), dval |-> TextOf(ms[i], "defaultValue")]]
HeardFields(v) ==
  LET ms == ObjectGet(v, "fields").members
  IN [i \in DOMAIN ms |-> [name |-> TextOf(ms[i], "name")[1], desc |-> TextOf(ms[i], "description"),
                           type |-> HeardType(ObjectGet(ms[i], "type")), args |-> HeardInputs(ms[i], "args"),
                           deprecated |-> IF ObjectGet(ms[i], "isDeprecated") = Bool(FALSE) THEN None
                                          ELSE TextOf(ms[i], "deprecationReason")]]
HeardChoices(v) ==
  LET ms == ObjectGet(v, "enumValues").members
  IN [i \in DOMAIN ms |-> <<TextOf(ms[i], "name")[1], TextOf(ms[i], "description")>>]
HeardDirs(v) ==
  LET ms == ObjectGet(v, "directives").members
  IN [i \in DOMAIN ms |-> [name |-> TextOf(ms[i], "name")[1], desc |-> TextOf(ms[i], "description"),
                           locs |-> [j \in DOMAIN ObjectGet(ms[i], "locations").members |->
                                      ObjectGet(ms[i], "locations").members[j].s],
                           args |-> HeardInputs(ms[i], "args")]]

\* The same of the definition.
TypeRef(n) ==
  LET t == table.types[n]
  IN [kind |-> KindToken[t.kind], name |-> Quote(n), base |-> IF t.kind = "list" THEN Some(Quote(t.base)) ELSE None]
AsString(v) == IF v.kind = "string" THEN v.s ELSE Quote(v.s)
Inputs(args) ==
  [i \in DOMAIN args |-> [name |-> Quote(args[i].name), desc |-> args[i].desc, type |-> TypeRef(args[i].type),
                          dval |-> IF args[i].dval = None THEN None ELSE Some(AsString(args[i].dval[1]))]]
FieldsWith(fields) ==
  [i \in DOMAIN fields |-> [name |-> Quote(fields[i].name), desc |-> fields[i].desc, type |-> TypeRef(fields[i].type),
                            args |-> Inputs(fields[i].args),
                            deprecated |-> IF fields[i].dir = <<>> THEN None ELSE Some(fields[i].dir[1].values[1].s)]]
QuotedNames(links) == [i \in DOMAIN links |-> Quote(links[i])]
Dirs ==
  [i \in DOMAIN table.dirs |->
     LET d == table.dirs[i]
     IN [name |-> Quote(d.name), desc |-> d.desc, locs |-> QuotedNames(d.locs), args |-> Inputs(d.args)]]

\* What can be told: every type that is named is defined, and a default value is
\* not a list, an object or null (convert_to_string).
Tellable(n) ==
  LET t == table.types[n]
      Known(m) == \E k \in {m, table.types[m].base} : HasType(table, k) /\ table.types[k].kind \notin {"undef", "list"}
      ArgsKnown(args) ==
        \A i \in DOMAIN args : Known(args[i].type) /\ (args[i].dval # None => args[i].dval[1].kind = "int")
  IN /\ t.kind # "undef"
     /\ \A i \in DOMAIN t.fields : Known(t.fields[i].type) /\ ArgsKnown(t.fields[i].args)
     /\ ArgsKnown(t.args)

Answered(r, key, Told(_)) == r.ok /\ Told(ObjectGet(r.res, key))
ToldRoot(q) == IF HasType(table, "A") THEN TextOf(q, "name") = Some(Quote("A")) ELSE q = Null
ToldSchema(told) ==
  /\ HeardDirs(told) = Dirs
  /\ ObjectGet(told, "mutationType") = Null
  /\ ToldRoot(ObjectGet(told, "queryType"))
  /\ Range(NamesOf(told, "types")) = {Quote(n) : n \in {m \in DOMAIN table.types : table.types[m].kind # "list"}}
ToldType(told, n, t) ==
  /\ ObjectGet(told, "kind") = Token(KindToken[t.kind]) /\ TextOf(told, "description") = t.desc
  /\ t.kind = "union" => NamesOf(told, "possibleTypes") = QuotedNames(t.links)
  /\ t.kind = "object" => NamesOf(told, "interfaces") = QuotedNames(t.links)
  /\ t.kind = "input" => HeardInputs(told, "inputFields") = Inputs(t.args)
  /\ t.kind = "enum" =>
       HeardChoices(told) = [i \in DOMAIN t.choices |-> <<Quote(t.choices[i].value), t.choices[i].desc>>]
  /\ t.kind \in {"object", "interface"} =>
       /\ HeardFields(told) = FieldsWith(t.fields)
       /\ NamesOf(told, "current") =
            LET kept == SelectSeq(t.fields, LAMBDA f : f.dir = <<>>) IN [i \in DOMAIN kept |-> Quote(kept[i].name)]

\* A client that asks for a type (gql_intro_eval) is told what the type is: kind
\* and descriptions, fields and arguments with their types through lists,
\* interfaces, members, choices, defaults, and what is deprecated and why, the
\* last only when it asks for that.  Whether a type is required is never told.
\* Of a schema that has directives of its own it is told the name of every type,
\* the directives, and the types of the roots that the application has.
IntroTells ==
  /\ HasDir(table, "x") => Answered(AskSchema, "__schema", ToldSchema)
  /\ \A n \in {m \in TypeNames : HasType(table, m) /\ Tellable(m)} :
       LET Told(told) == ToldType(told, n, table.types[n]) IN Answered(AskType(n), "__type", Told)
=============================================================================
