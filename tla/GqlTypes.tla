------------------------------ MODULE GqlTypes ------------------------------
(* The GraphQL types and directives of a process (graphql.c): the calls that  *)
(* create and extend them, and the SDL they are dumped as.  A table maps the  *)
(* name of a type to its definition; types refer to each other by name.       *)
EXTENDS GqlValue, FiniteSets

CONSTANT NameOrder   \* the names of types in the order of strcmp

None == <<>>         \* no description, no default value
Some(x) == <<x>>

Kinds == <<"undef", "schema", "object", "frag", "input", "union", "interface", "enum", "scalar", "list">>

\* The fields of a schema, object or interface; the arguments of an input; the
\* interfaces of an object or the members of a union; the choices of an enum.
BlankType(kind, desc) ==
  [kind |-> kind, desc |-> desc, dir |-> <<>>, fields |-> <<>>, args |-> <<>>,
   links |-> <<>>, choices |-> <<>>, base |-> "", notEmpty |-> FALSE, core |-> FALSE]
CoreScalars == {"Int", "I64", "Boolean", "Float", "Time", "Uuid", "ID", "String"}
\* gql_value_init
InitTable ==
  [types |-> [n \in CoreScalars |-> [BlankType("scalar", None) EXCEPT !.core = TRUE]],
   dirs |-> <<>>]

HasType(tb, n) == n \in DOMAIN tb.types
SetType(tb, n, type) ==
  [tb EXCEPT !.types = [m \in DOMAIN tb.types \cup {n} |-> IF m = n THEN type ELSE tb.types[m]]]
TypeDestroy(tb, n) == [tb EXCEPT !.types = [m \in DOMAIN tb.types \ {n} |-> tb.types[m]]]

\* Mutant: a name that was only referred to cannot be defined.
CanCreateNew(tb, n) == ~HasType(tb, n)

\* type_create: a name that was only referred to is defined, any other is refused.
CanCreate(tb, n) == HasType(tb, n) => tb.types[n].kind = "undef"
TypeCreate(tb, kind, n, desc) == SetType(tb, n, BlankType(kind, desc))
AssureType(tb, n) == IF HasType(tb, n) THEN tb ELSE TypeCreate(tb, "undef", n, None)

ListName(base, notEmpty) == "[" \o base \o (IF notEmpty THEN "!]" ELSE "]")
AssureList(tb, base, notEmpty) ==
  LET n == ListName(base, notEmpty)
  IN IF HasType(tb, n) THEN tb
     ELSE SetType(tb, n, [BlankType("list", None) EXCEPT !.base = base, !.notEmpty = notEmpty])

Arg(n, type, desc, dval, req) ==
  [name |-> n, type |-> type, desc |-> desc, dval |-> dval, req |-> req, dir |-> <<>>]
Field(n, type, dval, desc, req) ==
  [name |-> n, type |-> type, desc |-> desc, dval |-> dval, req |-> req, dir |-> <<>>, args |-> <<>>]

TypeField(tb, n, f) == [tb EXCEPT !.types[n].fields = Append(@, f)]
FieldArg(tb, n, i, a) == [tb EXCEPT !.types[n].fields[i].args = Append(@, a)]
InputArg(tb, n, a) == [tb EXCEPT !.types[n].args = Append(@, a)]
UnionAdd(tb, n, member) == [tb EXCEPT !.types[n].links = Append(@, member)]
HasChoice(tb, n, v) == \E i \in DOMAIN tb.types[n].choices : tb.types[n].choices[i].value = v
EnumAppend(tb, n, v, desc, dir) ==
  [tb EXCEPT !.types[n].choices = Append(@, [value |-> v, desc |-> desc, dir |-> dir])]

\* Directives are a list, the newest first.
DirIndex(tb, n) == {i \in DOMAIN tb.dirs : tb.dirs[i].name = n}
HasDir(tb, n) == DirIndex(tb, n) # {}
NewDir(n, desc, defined) ==
  [name |-> n, desc |-> desc, args |-> <<>>, locs |-> <<>>, defined |-> defined, core |-> FALSE]
\* Whether a directive that is only used is core is left unset by the code; it
\* is read when the directive is dumped, never before it is defined here.
AssureDirective(tb, n) ==
  IF HasDir(tb, n) THEN tb ELSE [tb EXCEPT !.dirs = <<NewDir(n, None, FALSE)>> \o @]
\* Mutant: a directive that is known is not looked for.
DirectiveCreateAgain(tb, n, desc) == [tb EXCEPT !.dirs = <<NewDir(n, desc, TRUE)>> \o @]

\* gql_directive_create: one that was only used is defined, one that was
\* defined is cleaned first.
DirectiveCreate(tb, n, desc) ==
  IF HasDir(tb, n)
  THEN [tb EXCEPT !.dirs = [i \in DOMAIN @ |->
          IF @[i].name = n THEN [NewDir(n, desc, TRUE) EXCEPT !.core = tb.dirs[i].core] ELSE @[i]]]
  ELSE [tb EXCEPT !.dirs = <<NewDir(n, desc, TRUE)>> \o @]
OnDir(tb, n, F(_)) ==
  [tb EXCEPT !.dirs = [i \in DOMAIN @ |-> IF @[i].name = n THEN F(@[i]) ELSE @[i]]]
DirArg(tb, n, a) == LET Add(d) == [d EXCEPT !.args = Append(@, a)] IN OnDir(tb, n, Add)
DirectiveOn(tb, n, loc) == LET Add(d) == [d EXCEPT !.locs = Append(@, loc)] IN OnDir(tb, n, Add)

\* A use of a directive; its arguments are put at the front of a list.
DirUse(n) == [dir |-> n, keys |-> <<>>, values |-> <<>>]
DirUseArg(use, key, v) == [use EXCEPT !.keys = <<key>> \o @, !.values = <<v>> \o @]
\* gql_type_directive_use compares with every use but the last, unless that is the first too.
IsDuplicateUse(uses, use) ==
  uses # <<>> /\ \E i \in {1} \cup 1..(Len(uses) - 1) : uses[i].dir = use.dir
TypeDirectiveUse(tb, n, use) == [tb EXCEPT !.types[n].dir = Append(@, use)]

\* gql_type_get_field, through lists.
RECURSIVE FieldsOf(_, _)
FieldsOf(tb, n) ==
  LET t == tb.types[n]
  IN CASE t.kind \in {"schema", "object", "interface"} -> t.fields
       [] t.kind = "list" -> FieldsOf(tb, t.base)
       [] OTHER -> <<>>
TypeGetField(tb, n, field) == SelectSeq(FieldsOf(tb, n), LAMBDA f : f.name = field)

---------------------------------------------------------------------------
(* SDL.                                                                       *)
RECURSIVE TypeName(_, _)
TypeName(tb, n) ==
  LET t == tb.types[n]
  IN IF t.kind = "list"
     THEN <<"[">> \o TypeName(tb, t.base) \o (IF t.notEmpty THEN <<"!", "]">> ELSE <<"]">>)
     ELSE <<n>>

\* desc_sdl: the description has a line of its own.
Indent(n) == IF n > 0 THEN <<Blank>> ELSE <<>>
DescSdl(withDesc, desc, indent) == IF withDesc /\ desc # None THEN Indent(indent) \o <<desc[1], Blank>> ELSE <<>>

\* append_dir_use: nothing separates two arguments, so a name is joined with
\* the key that follows it.
Joined(ts, key) ==
  IF ts # <<>> /\ IsName(Last(ts)) THEN Append(Front(ts), Last(ts) \o key) ELSE Append(ts, key)
UseArgs(use) ==
  FoldLeft(LAMBDA ts, i : Joined(ts, use.keys[i]) \o <<":", Blank>> \o ValueSdl(use.values[i]),
           <<>>, [i \in DOMAIN use.keys |-> i])
UsesSdl(uses) ==
  FlattenSeq([i \in DOMAIN uses |->
    <<Blank, "@", uses[i].dir>> \o (IF uses[i].keys = <<>> THEN <<>> ELSE <<"(">> \o UseArgs(uses[i]) \o <<")">>)])

DefaultSdl(v) == IF v = None THEN <<>> ELSE <<Blank, "=", Blank>> \o ValueSdl(v[1])
TypedSdl(tb, x) ==
  <<":", Blank>> \o TypeName(tb, x.type) \o (IF x.req THEN <<"!">> ELSE <<>>) \o DefaultSdl(x.dval)
\* arg_sdl: on one line, the directives of an argument are not written.
ArgSdl(tb, a, withDesc, sameLine, last) ==
  DescSdl(withDesc, a.desc, 4) \o Unless(sameLine, <<Blank>>) \o <<a.name>> \o TypedSdl(tb, a)
    \o (IF sameLine THEN Unless(last, <<Blank>>) ELSE UsesSdl(a.dir) \o <<Blank>>)
ArgsSdl(tb, args, withDesc) ==
  IF args = <<>> THEN <<>>
  ELSE <<"(">> \o FlattenSeq([i \in DOMAIN args |-> ArgSdl(tb, args[i], withDesc, TRUE, IsLast(args, i))]) \o <<")">>
FieldSdl(tb, f, withDesc) ==
  DescSdl(withDesc, f.desc, 2) \o <<Blank, f.name>> \o ArgsSdl(tb, f.args, withDesc) \o TypedSdl(tb, f)
    \o UsesSdl(f.dir) \o <<Blank>>
ChoiceSdl(c, withDesc) == <<Blank>> \o DescSdl(withDesc, c.desc, 2) \o <<c.value>> \o UsesSdl(c.dir) \o <<Blank>>

Separated(names, sep) ==
  FlattenSeq([i \in DOMAIN names |-> IF i = 1 THEN <<names[i]>> ELSE <<Blank, sep, Blank, names[i]>>])
Braced(ts) == <<Blank, "{", Blank>> \o ts \o <<"}">>

\* gql_type_sdl: a union is the only one that does not end its line.
TypeSdl(tb, n, withDesc) ==
  LET t == tb.types[n]
      Defines(word) == <<word, Blank, n>>
      Lines(ts) == Braced(ts) \o <<Blank>>
      Fields == Lines(FlattenSeq([i \in DOMAIN t.fields |-> FieldSdl(tb, t.fields[i], withDesc)]))
      Args == Lines(FlattenSeq([i \in DOMAIN t.args |->
                                  ArgSdl(tb, t.args[i], withDesc, FALSE, IsLast(t.args, i))]))
      Values == Lines(FlattenSeq([i \in DOMAIN t.choices |-> ChoiceSdl(t.choices[i], withDesc)]))
      Implements == IF t.links = <<>> THEN <<>> ELSE <<Blank, "implements", Blank>> \o Separated(t.links, "&")
  IN DescSdl(withDesc, t.desc, 0) \o
     CASE t.kind = "schema"    -> <<"schema">> \o UsesSdl(t.dir) \o Fields
       [] t.kind = "object"    -> Defines("type") \o Implements \o UsesSdl(t.dir) \o Fields
       [] t.kind = "union"     -> Defines("union") \o UsesSdl(t.dir) \o <<Blank, "=", Blank>> \o Separated(t.links, "|")
       [] t.kind = "enum"      -> Defines("enum") \o UsesSdl(t.dir) \o Values
       [] t.kind = "scalar"    -> Defines("scalar") \o UsesSdl(t.dir) \o <<Blank>>
       [] t.kind = "interface" -> Defines("interface") \o UsesSdl(t.dir) \o Fields
       [] t.kind = "input"     -> Defines("input") \o UsesSdl(t.dir) \o Args
       [] OTHER                -> <<>>

DirectiveSdl(tb, d, withDesc) ==
  DescSdl(withDesc, d.desc, 0) \o <<"directive", Blank, "@", d.name>> \o ArgsSdl(tb, d.args, withDesc)
    \o <<Blank, "on", Blank>> \o Separated(d.locs, "|")

\* type_cmp: by kind, then by name.
TypeBefore(tb, a, b) ==
  LET K(n) == CHOOSE i \in DOMAIN Kinds : Kinds[i] = tb.types[n].kind
      R(n) == CHOOSE i \in DOMAIN NameOrder : NameOrder[i] = n
  IN K(a) < K(b) \/ (K(a) = K(b) /\ R(a) < R(b))
\* gql_schema_sdl, without the core types and directives.
SchemaSdl(tb, withDesc) ==
  LET shown == {n \in DOMAIN tb.types : tb.types[n].kind # "list" /\ ~tb.types[n].core}
      sorted == SetToSortSeq(shown, LAMBDA a, b : TypeBefore(tb, a, b))
  IN FlattenSeq([i \in DOMAIN sorted |->
       TypeSdl(tb, sorted[i], withDesc) \o Unless(IsLast(sorted, i), <<Blank>>)])
     \o FlattenSeq([i \in DOMAIN tb.dirs |->
          IF tb.dirs[i].core THEN <<>> ELSE <<Blank>> \o DirectiveSdl(tb, tb.dirs[i], withDesc) \o <<Blank>>])
=============================================================================
