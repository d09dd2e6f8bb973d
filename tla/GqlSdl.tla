------------------------------- MODULE GqlSdl -------------------------------
(* The parser of schema definitions (sdl.c, sdl_parse).  A text being read    *)
(* carries the table that its definitions are put in as they are read: a text *)
(* that is refused half way leaves what came before.                          *)
EXTENDS GqlTypes

NoType == ""   \* the type of an argument that is not read yet
Text(ts, tb) == [toks |-> ts, at |-> 1, ok |-> TRUE, got |-> "", tb |-> tb]
In(d, tb) == [d EXCEPT !.tb = tb]

\* A key word, and the white space that must follow it.
KeyWord(d) == IF Cur(Step(d)) = Blank THEN SkipWhite(Step(d)) ELSE Fail(d)

\* extract_desc: the white space behind a description is not passed.
DescFrom(d) == IF d.ok /\ Cur(d) \in Strings THEN Got(Step(d), Some(Cur(d))) ELSE Got(d, None)
ReadDesc(d) == DescFrom(SkipWhite(d))

\* extract_dir_use: at most one use is read; the white space before it is passed
\* even when there is none, the white space behind its ) is not.
RECURSIVE ReadUseArgs(_)
WithUseArg(use, key, v) == IF v.ok THEN Got(v, DirUseArg(use, key, v.got)) ELSE v
UseArg(d) == WithUseArg(d.got, Cur(d), ReadValue(Expect(SkipWhite(ReadName(d)), ":"), AnyKind))
UseArgsNext(u) ==
  CASE ~u.ok        -> u
    [] Cur(u) = ")" -> Step(u)
    [] OTHER        -> ReadUseArgs(u)
ReadUseArgs(d) == IF AtEnd(d) THEN d ELSE UseArgsNext(SkipWhite(UseArg(d)))
UseOf(n) == IF n.ok THEN Got(In(n, AssureDirective(n.tb, n.got)), DirUse(n.got)) ELSE n
UseWithArgs(u) == IF u.ok /\ Cur(u) = "(" THEN ReadUseArgs(Step(u)) ELSE u
OneUse(u) == Got(u, <<u.got>>)
UsesFrom(d) == IF Cur(d) = "@" THEN OneUse(UseWithArgs(SkipWhite(UseOf(ReadName(Step(d)))))) ELSE Got(d, <<>>)
ReadUses(d) == IF d.ok THEN UsesFrom(SkipWhite(d)) ELSE d

\* read_type: the name of the type and whether it is followed by a !.  Every
\* type that is named and not known yet is put in the table as undefined.
RECURSIVE ReadType(_)
NamedType(n) == IF n.ok THEN In(n, AssureType(n.tb, n.got)) ELSE n
ListType(b) ==
  IF b.ok THEN Got(In(b, AssureList(b.tb, b.got.type, b.got.req)), ListName(b.got.type, b.got.req)) ELSE b
RequiredFrom(t) ==
  LET req == Cur(t) = "!"
  IN IF t.ok THEN Got(IF req THEN Step(t) ELSE t, [type |-> t.got, req |-> req]) ELSE t
Required(t) == RequiredFrom(SkipWhite(t))
TypeFrom(d) ==
  IF d.ok /\ Cur(d) = "[" THEN Required(ListType(Expect(SkipWhite(ReadType(Step(d))), "]")))
                          ELSE Required(NamedType(ReadName(d)))
ReadType(d) == TypeFrom(SkipWhite(d))

RECURSIVE KindOf(_, _)
KindOf(tb, n) ==
  LET t == tb.types[n]
  IN IF t.kind = "list" THEN [kind |-> "list", base |-> KindOf(tb, t.base)] ELSE [kind |-> t.kind]

\* What is read of a field, an argument or a choice is an argument with the
\* parts read so far, the first of them the description.
NameFrom(c) == IF c.ok THEN Got(ReadName(c), Arg(Cur(c), NoType, c.got, None, FALSE)) ELSE c
ItemName(c) == NameFrom(SkipWhite(c))
WithType(x, t) == IF t.ok THEN Got(t, [x EXCEPT !.type = t.got.type, !.req = t.got.req]) ELSE t
ItemType(d) == WithType(d.got, ReadType(Expect(SkipWhite(d), ":")))
WithDefault(x, v) == IF v.ok THEN Got(v, [x EXCEPT !.dval = Some(v.got)]) ELSE v
WithUses(x, u) == IF u.ok THEN Got(u, [x EXCEPT !.dir = @ \o u.got]) ELSE u
ItemUses(d) == WithUses(d.got, ReadUses(d))

\* A default value.  read_type has passed the white space before the =, unless
\* it has read a !: the = behind it is not seen.
ItemDefault(d) ==
  IF d.ok /\ Cur(d) = "=" THEN WithDefault(d.got, ReadValue(Step(d), KindOf(d.tb, d.got.type))) ELSE d
\* The = before a default value of an argument is not passed.
ArgDefaultFrom(d) ==
  IF d.ok /\ Cur(d) = "=" THEN WithDefault(d.got, ReadValue(d, KindOf(d.tb, d.got.type))) ELSE d
ArgDefault(d) == ArgDefaultFrom(SkipWhite(d))

\* make_field_arg, of field i of type n.
EndFieldArg(d, n, i) == IF d.ok THEN In(d, FieldArg(d.tb, n, i, d.got)) ELSE d
MakeFieldArg(d, n, i) == EndFieldArg(ArgDefault(ItemType(ItemName(ReadDesc(d)))), n, i)
RECURSIVE MakeFieldArgs(_, _, _)
FieldArgsNext(d, n, i) == IF ~d.ok \/ Cur(d) = ")" THEN d ELSE MakeFieldArgs(d, n, i)
MakeFieldArgs(d, n, i) == FieldArgsNext(SkipWhite(MakeFieldArg(d, n, i)), n, i)

\* make_field: the arguments are skipped, up to the first ), and read last.
SkipTo(d, t) ==
  LET found == {i \in d.at..Len(d.toks) : d.toks[i] = t}
  IN IF found = {} THEN Fail(d) ELSE [d EXCEPT !.at = CHOOSE i \in found : \A j \in found : i <= j]
PastArgs(f) == IF f.ok /\ Cur(f) = "(" THEN Expect(SkipTo(f, ")"), ")") ELSE f
EndField(d, n) ==
  LET x == d.got
  IN IF d.ok THEN In(d, TypeField(d.tb, n, [Field(x.name, x.type, x.dval, x.desc, x.req) EXCEPT !.dir = x.dir])) ELSE d
BackTo(d, at) == [d EXCEPT !.at = at]
ArgsOfField(made, f, n) ==
  IF made.ok /\ Cur(f) = "("
  THEN BackTo(MakeFieldArgs(BackTo(made, f.at + 1), n, Len(made.tb.types[n].fields)), made.at) ELSE made
FieldFrom(f, n) == ArgsOfField(EndField(ItemUses(ItemDefault(ItemType(PastArgs(f)))), n), f, n)
MakeField(d, n) == FieldFrom(SkipWhite(ItemName(ReadDesc(d))), n)

\* make_input_arg
EndInputArg(d, n) == IF d.ok THEN In(d, InputArg(d.tb, n, d.got)) ELSE d
MakeInputArg(d, n) == EndInputArg(ItemUses(ItemDefault(ItemType(ItemName(ReadDesc(d))))), n)

\* make_enum: the name of a choice must come right behind its description.  A
\* choice is compared with those before it as the text from its first letter to
\* the end of the document, so it is never found to be there already.
RECURSIVE MakeChoices(_, _)
ChoiceName(c) == Got(PastName(c), Arg(NameOrRest(c), NoType, c.got, None, FALSE))
MakeChoice(c) == IF c.ok THEN ItemUses(ChoiceName(c)) ELSE c
EndChoice(d, n) == In(d, EnumAppend(d.tb, n, d.got.name, d.got.desc, d.got.dir))
ChoicesNext(made, start, n) ==
  CASE ~made.ok         -> made
    [] made.at # start  -> MakeChoices(EndChoice(made, n), n)
    [] Cur(made) = "}"  -> Step(made)
    [] OTHER            -> Fail(made)
ChoicesFrom(c, n) == ChoicesNext(MakeChoice(c), c.at, n)
MakeChoices(d, n) == IF ~d.ok \/ AtEnd(d) THEN d ELSE ChoicesFrom(ReadDesc(d), n)

\* The items between braces; a text that ends without the brace is accepted.
RECURSIVE MakeFields(_, _), MakeInputArgs(_, _), MakeMembers(_, _)
Open(d) == SkipWhite(Expect(SkipWhite(d), "{"))
Closed(d) == Cur(d) = "}" \/ AtEnd(d)
Close(d) == IF Cur(d) = "}" THEN Step(d) ELSE d
MakeFields(d, n) ==
  IF ~d.ok THEN d ELSE IF Closed(d) THEN Close(d) ELSE MakeFields(SkipWhite(MakeField(d, n)), n)
MakeInputArgs(d, n) ==
  IF ~d.ok THEN d ELSE IF Closed(d) THEN Close(d) ELSE MakeInputArgs(SkipWhite(MakeInputArg(d, n)), n)
EndMember(t, n) == IF t.ok THEN In(t, UnionAdd(t.tb, n, t.got.type)) ELSE t
MembersNext(d, n) == IF d.ok /\ Cur(d) = "|" THEN MakeMembers(Step(d), n) ELSE d
MakeMembers(d, n) == IF ~d.ok \/ AtEnd(d) THEN d ELSE MembersNext(SkipWhite(EndMember(ReadType(d), n)), n)

\* extract_interfaces
RECURSIVE ReadInterfaces(_, _, _)
InterfacesFrom(d, n, first) ==
  CASE Cur(d) \in {"{", "@"}    -> d
    [] Cur(d) = "&" \/ first   -> ReadInterfaces(EndMember(ReadType(IF Cur(d) = "&" THEN Step(d) ELSE d), n), n, FALSE)
    [] OTHER                   -> Fail(d)
ReadInterfaces(d, n, first) == IF ~d.ok \/ AtEnd(d) THEN d ELSE InterfacesFrom(SkipWhite(d), n, first)
ImplementsFrom(d, n) == IF d.ok /\ Cur(d) = "implements" THEN ReadInterfaces(KeyWord(d), n, TRUE) ELSE d
MakeInterfaces(d, n) == ImplementsFrom(SkipWhite(d), n)

\* The type that a definition is about: created, or found when it is extended.
Defined(d, kind, n, desc, x) ==
  CASE ~d.ok                     -> d
    [] x /\ HasType(d.tb, n)     -> d
    [] ~x /\ CanCreate(d.tb, n)  -> In(d, TypeCreate(d.tb, kind, n, desc))
    [] OTHER                     -> Fail(d)
GiveUses(u, n) == IF u.ok THEN In(u, [u.tb EXCEPT !.types[n].dir = @ \o u.got]) ELSE u
Use(d, n) == GiveUses(ReadUses(d), n)
\* A definition that fails takes the type it created out of the table.
OrDestroy(made, n, x) == IF made.ok \/ x THEN made ELSE In(made, TypeDestroy(made.tb, n))

\* What the definitions of a named type begin with; got is the name.
Named(n, kind, desc, x) == Defined(n, kind, n.got, desc, x)
Header(d, kind, desc, x) == Named(ReadName(KeyWord(d)), kind, desc, x)

MakeScalar(d, desc, x) == LET h == Header(d, "scalar", desc, x) IN Use(h, h.got)
UnionBody(h, n, x) == IF h.ok THEN OrDestroy(MakeMembers(SkipWhite(Expect(SkipWhite(Use(h, n)), "=")), n), n, x) ELSE h
MakeUnion(d, desc, x) == UnionBody(Header(d, "union", desc, x), Cur(KeyWord(d)), x)
InputBody(h, n, x) == IF h.ok THEN OrDestroy(MakeInputArgs(Open(Use(h, n)), n), n, x) ELSE h
MakeInput(d, desc, x) == InputBody(Header(d, "input", desc, x), Cur(KeyWord(d)), x)
TypeBody(h, n, x) ==
  IF h.ok THEN OrDestroy(MakeFields(Open(Use(MakeInterfaces(h, n), n)), n), n, x) ELSE h
MakeType(d, desc, x) == TypeBody(Header(d, "object", desc, x), Cur(KeyWord(d)), x)
\* An interface without a brace is destroyed without an error.
InterfaceFields(u, n, x) ==
  IF u.ok /\ Cur(u) # "{" THEN IF x THEN u ELSE In(u, TypeDestroy(u.tb, n))
  ELSE OrDestroy(MakeFields(Open(u), n), n, x)
InterfaceBody(h, n, x) == IF h.ok THEN InterfaceFields(SkipWhite(Use(h, n)), n, x) ELSE h
MakeInterface(d, desc, x) == InterfaceBody(Header(d, "interface", desc, x), Cur(KeyWord(d)), x)

\* make_enum: the uses are read before the type is made, and replace its own.
EnumBody(t, n, x) ==
  IF t.ok THEN OrDestroy(MakeChoices(In(t, [t.tb EXCEPT !.types[n].dir = t.got]), n), n, x) ELSE t
EnumFrom(n, desc, x) ==
  EnumBody(Defined(Expect(SkipWhite(ReadUses(n)), "{"), "enum", n.got, desc, x), n.got, x)
MakeEnum(d, desc, x) == EnumFrom(ReadName(KeyWord(d)), desc, x)

\* make_schema: the type is destroyed only when there is no brace.
SchemaBody(u, x) ==
  CASE ~u.ok           -> u
    [] Cur(u) # "{"    -> OrDestroy(Fail(u), "schema", x)
    [] OTHER           -> MakeFields(SkipWhite(Step(u)), "schema")
MakeSchema(d, desc, x) == SchemaBody(SkipWhite(Use(Defined(KeyWord(d), "schema", "schema", desc, x), "schema")), x)

\* make_dir_arg: the colon is right behind the name, and the type is a name; a
\* default value is tried if there is no !, and as for the argument of a field its
\* = is not passed.
DirArgDefault(d) == IF d.ok /\ d.got.req THEN d ELSE ArgDefault(d)
DirArgType(d) == WithType(d.got, Required(NamedType(ReadName(SkipWhite(Expect(d, ":"))))))
EndDirArg(d, n) == IF d.ok THEN In(d, DirArg(d.tb, n, d.got)) ELSE d
MakeDirArg(d, n) == EndDirArg(DirArgDefault(DirArgType(ItemName(ReadDesc(d)))), n)
RECURSIVE MakeDirArgs(_, _), MakeLocs(_, _)
DirArgsNext(d, n) ==
  CASE ~d.ok        -> d
    [] Cur(d) = ")" -> Step(d)
    [] OTHER        -> MakeDirArgs(d, n)
MakeDirArgs(d, n) == IF AtEnd(d) THEN d ELSE DirArgsNext(SkipWhite(MakeDirArg(d, n)), n)
LocsNext(d, n) == IF Cur(d) = "|" THEN MakeLocs(Step(d), n) ELSE d
MakeLoc(d, n) == In(PastName(d), DirectiveOn(d.tb, n, NameOrRest(d)))
MakeLocs(d, n) == IF ~d.ok \/ AtEnd(d) THEN d ELSE LocsNext(SkipWhite(MakeLoc(SkipWhite(d), n)), n)
ArgsOfDirective(d, n) == IF Cur(d) = "(" THEN MakeDirArgs(Step(d), n) ELSE d
DirectiveFrom(n, desc) ==
  IF n.ok THEN MakeLocs(Expect(SkipWhite(ArgsOfDirective(In(n, DirectiveCreate(n.tb, n.got, desc)), n.got)), "on"), n.got) ELSE n
MakeDirective(d, desc) == DirectiveFrom(ReadName(Expect(KeyWord(d), "@")), desc)

\* sdl_parse.  Once "extend" has been read, every definition after it extends.
RECURSIVE MakeAll(_, _, _)
MakeNext(d, desc, x) ==
  LET t == Cur(d)
      Next(m) == MakeAll(m, None, x)
  IN CASE AtEnd(d)           -> d
       [] t \in Strings      -> MakeAll(Step(d), Some(t), x)
       [] t = "extend"       -> MakeAll(KeyWord(d), None, TRUE)
       [] t = "schema"       -> Next(MakeSchema(d, desc, x))
       [] t = "scalar"       -> Next(MakeScalar(d, desc, x))
       [] t = "enum"         -> Next(MakeEnum(d, desc, x))
       [] t = "union"        -> Next(MakeUnion(d, desc, x))
       [] t = "directive"    -> Next(MakeDirective(d, desc))
       [] t = "type"         -> Next(MakeType(d, desc, x))
       [] t = "input"        -> Next(MakeInput(d, desc, x))
       [] t = "interface"    -> Next(MakeInterface(d, desc, x))
       [] OTHER              -> Fail(d)
MakeAll(d, desc, x) == IF d.ok THEN MakeNext(SkipWhite(d), desc, x) ELSE d
SdlParse(ts, tb) == MakeAll(Text(ts, tb), None, FALSE)
=============================================================================
