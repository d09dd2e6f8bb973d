------------------------------- MODULE GqlDoc -------------------------------
(* Executable documents: how the text of a request is read into operations,   *)
(* fragments and selections (sdl.c, sdl_parse_doc), checked against the types *)
(* (validate_doc) and written back (graphql.c, gql_doc_sdl).                  *)
EXTENDS GqlSdl

NoName == ""

\* A selection is a field, the use of a fragment, or a fragment written inline;
\* its type is set when the document is validated.
Sel(alias, name) ==
  [alias |-> alias, name |-> name, type |-> NoName, frag |-> NoName, inline |-> None,
   dir |-> <<>>, args |-> <<>>, sels |-> <<>>]
Spread(frag) == [Sel(NoName, NoName) EXCEPT !.frag = frag]
Fragment(name, on) == [name |-> name, on |-> on, dir |-> <<>>, sels |-> <<>>]
Inline(frag) == [Sel(NoName, NoName) EXCEPT !.inline = Some(frag)]
OpVar(name, type, value) == [name |-> name, type |-> type, value |-> value]
SelArg(name, value, var) == [name |-> name, value |-> value, var |-> var]
Op(name, kind) == [name |-> name, kind |-> kind, vars |-> <<>>, dir |-> <<>>, sels |-> <<>>]
EmptyDoc(vars) == [ops |-> <<>>, vars |-> vars, frags |-> <<>>]

NamedIn(seq, name) == SelectSeq(seq, LAMBDA x : x.name = name)

---------------------------------------------------------------------------
(* Reading.  An environment is the operation that is being read, or none in a *)
(* fragment, and the variables that came with the request.                    *)
Env(ops, docVars) == [op |-> ops, vars |-> docVars]

\* Mutant: what came with the request is looked for first.
VarForSent(env, name) ==
  LET sent == NamedIn(env.vars, name)
  IN IF sent # <<>> THEN sent ELSE NamedIn(env.op[1].vars, name)

\* The variable of an argument: one of the operation that has a default, else
\* one that came with the request; the argument keeps the one it was given.
VarFor(env, name) ==
  LET own == NamedIn(env.op[1].vars, name)
  IN IF own # <<>> /\ own[1].value # None THEN own ELSE NamedIn(env.vars, name)

\* make_sel_arg
VarArg(n, v, env) ==
  LET var == VarFor(env, v.got)
  IN IF ~v.ok \/ var = <<>> THEN Fail(v) ELSE Got(v, SelArg(n, None, Some(var[1])))
ValueArg(n, v) == IF v.ok THEN Got(v, SelArg(n, Some(v.got), None)) ELSE v
SelArgFrom(c, n, env) ==
  IF c.ok /\ Cur(c) = "$" /\ env.op # None
  THEN VarArg(n, ReadName(Step(c)), env) ELSE ValueArg(n, ReadValue(c, AnyKind))
MakeSelArg(d, env) == SelArgFrom(SkipWhite(Expect(SkipWhite(ReadName(d)), ":")), Cur(d), env)
RECURSIVE MakeSelArgs(_, _, _)
SelArgsNext(a, env, args) == MakeSelArgs(a, env, Append(args, a.got))
SelArgsFrom(d, env, args) == IF Cur(d) = ")" THEN Got(Step(d), args) ELSE SelArgsNext(MakeSelArg(d, env), env, args)
MakeSelArgs(d, env, args) == IF ~d.ok \/ AtEnd(d) THEN Got(d, args) ELSE SelArgsFrom(SkipWhite(d), env, args)

\* make_sel_inline: the uses behind a type are those of the selection, the uses
\* without a type are those of the fragment.  The white space behind the uses is
\* passed here, and nowhere else in a document: a { behind a use with arguments
\* is seen only when there is nothing between.
RECURSIVE MakeSel(_, _), MakeSels(_, _, _)
Block(d, env, sels) ==
  IF d.ok /\ Cur(d) = "{" THEN MakeSels(Step(d), env, sels) ELSE Got(d, sels)
InlineOf(b, on, own, uses) ==
  Got(b, [Inline([Fragment(NoName, on) EXCEPT !.dir = own, !.sels = b.got]) EXCEPT !.dir = uses])
InlineOn(u, on, env) == InlineOf(Block(SkipWhite(u), env, <<>>), on, <<>>, u.got)
InlineUse(u, env) == InlineOf(Block(SkipWhite(u), env, <<>>), NoName, u.got, <<>>)
SpreadOf(f) == IF f.ok THEN Got(f, Spread(f.got)) ELSE f
OnType(n, env) == InlineOn(ReadUses(NamedType(n)), n.got, env)
InlineFrom(s, env) ==
  CASE Cur(s) = "on" -> OnType(ReadName(SkipWhite(Step(s))), env)
    [] Cur(s) = "@"  -> InlineUse(ReadUses(s), env)
    [] OTHER         -> SpreadOf(ReadName(s))
MakeSelInline(s, env) == InlineFrom(SkipWhite(s), env)

\* make_sel: got is the selection with the parts read so far.
WithArgs(x, a) == Got(a, [x EXCEPT !.args = a.got])
WithSels(x, b) == Got(b, [x EXCEPT !.sels = b.got])
AliasAndName(a, n) == IF n.ok THEN Got(SkipWhite(n), Sel(a, n.got)) ELSE n
SelName(a) ==
  CASE ~a.ok        -> a
    [] Cur(a) = ":" -> AliasAndName(a.got, ReadName(SkipWhite(Step(a))))
    [] OTHER        -> Got(a, Sel(NoName, a.got))
IsSpread(s) == s.got.frag # NoName
SelWithArgs(s, env) ==
  IF s.ok /\ Cur(s) = "(" /\ ~IsSpread(s) THEN WithArgs(s.got, SkipWhite(MakeSelArgs(Step(s), env, <<>>))) ELSE s
SelWithSels(s, env) == IF s.ok /\ ~IsSpread(s) THEN WithSels(s.got, Block(s, env, <<>>)) ELSE s
SelStart(d, env) == IF Cur(d) = "..." THEN MakeSelInline(Step(d), env) ELSE SelName(SkipWhite(ReadName(d)))
MakeSel(d, env) == SelWithSels(ItemUses(SelWithArgs(SelStart(d, env), env)), env)
SelsNext(s, env, sels) == MakeSels(s, env, Append(sels, s.got))
SelsFrom(d, env, sels) == IF Cur(d) = "}" THEN Got(Step(d), sels) ELSE SelsNext(MakeSel(d, env), env, sels)
MakeSels(d, env, sels) ==
  CASE ~d.ok    -> d
    [] AtEnd(d) -> IF d.toks[d.at - 1] = "}" THEN Got(d, sels) ELSE Fail(d)
    [] OTHER    -> SelsFrom(SkipWhite(d), env, sels)

\* make_op_var: the ! of a type is ignored.
RECURSIVE MakeOpVars(_, _)
WithValue(n, type, v) == IF v.ok THEN Got(v, OpVar(n, type, Some(v.got))) ELSE v
OpVarFrom(t, n) ==
  CASE ~t.ok        -> t
    [] Cur(t) = "=" -> WithValue(n, t.got.type, ReadValue(Step(t), KindOf(t.tb, t.got.type)))
    [] OTHER        -> Got(t, OpVar(n, t.got.type, None))
VarNamed(n) == OpVarFrom(SkipWhite(ReadType(Expect(SkipWhite(n), ":"))), n.got)
MakeOpVar(d) == VarNamed(ReadName(Expect(d, "$")))
OpVarsNext(v, vars) == MakeOpVars(v, Append(vars, v.got))
OpVarsFrom(d, vars) == IF Cur(d) = ")" THEN Got(Step(d), vars) ELSE OpVarsNext(MakeOpVar(d), vars)
MakeOpVars(d, vars) == IF ~d.ok \/ AtEnd(d) THEN Got(d, vars) ELSE OpVarsFrom(SkipWhite(d), vars)

OpKinds == {"query", "mutation", "subscription"}
\* make_op: got is the operation with the parts read so far.
OpKind(d, kind) == SkipWhite(Got(PastName(d), Op(NoName, IF IsName(Cur(d)) THEN Cur(d) ELSE kind)))
OpName(d) == SkipWhite(IF IsName(Cur(d)) THEN Got(Step(d), [d.got EXCEPT !.name = Cur(d)]) ELSE d)
WithVars(op, vs) == Got(vs, [op EXCEPT !.vars = vs.got])
OpVars(d) == IF Cur(d) = "(" THEN WithVars(d.got, SkipWhite(MakeOpVars(Step(d), <<>>))) ELSE d
OpSels(d, docVars) ==
  IF d.ok /\ d.got.kind \in OpKinds
  THEN WithSels(d.got, MakeSels(Expect(d, "{"), Env(Some(d.got), docVars), <<>>)) ELSE Fail(d)
MakeOp(d, docVars, defaultKind) == OpSels(ItemUses(OpVars(OpName(OpKind(d, defaultKind)))), docVars)

\* make_fragment: where "on" should be, any word will do; the error that is set
\* when it is another one is not returned.
FragOn(t, n) == IF t.ok THEN Got(NamedType(t), Fragment(n, t.got)) ELSE t
FragNamed(n) == IF n.ok THEN FragOn(ReadName(SkipWhite(PastName(SkipWhite(n)))), n.got) ELSE n
FragSels(d, docVars) ==
  IF d.ok THEN WithSels(d.got, MakeSels(Expect(d, "{"), Env(None, docVars), <<>>)) ELSE d
MakeFragment(d, docVars) == FragSels(ItemUses(FragNamed(ReadName(SkipWhite(Step(d))))), docVars)

\* What an item is, is told by its first letter: the words that begin like
\* these do not occur where an item begins.
RECURSIVE MakeDoc(_, _, _)
DocOp(o, doc, kind) == MakeDoc(o, [doc EXCEPT !.ops = Append(@, o.got)], kind)
DocFrag(f, doc, kind) == MakeDoc(f, [doc EXCEPT !.frags = Append(@, f.got)], kind)
DocItem(d, doc, defaultKind) ==
  CASE AtEnd(d)                      -> Got(d, doc)
    [] Cur(d) \in OpKinds \cup {"{"} -> DocOp(MakeOp(d, doc.vars, defaultKind), doc, defaultKind)
    [] Cur(d) = "fragment"           -> DocFrag(MakeFragment(d, doc.vars), doc, defaultKind)
    [] OTHER                         -> Fail(d)
MakeDoc(d, doc, defaultKind) == IF d.ok THEN DocItem(SkipWhite(d), doc, defaultKind) ELSE d

---------------------------------------------------------------------------
(* Validation.                                                                *)
\* lookup_field_type: the type of a field, through lists; "" is none.
LookupFieldType(tb, type, name, qroot) ==
  LET fs == TypeGetField(tb, type, name)
      RECURSIVE Base(_)
      Base(n) == IF tb.types[n].kind = "list" THEN Base(tb.types[n].base) ELSE n
  IN CASE tb.types[Base(type)].kind \notin {"schema", "object", "input", "interface"} -> NoName
       [] fs # <<>>            -> fs[1].type
       [] name = "__typename"  -> "String"
       [] qroot /\ type = Base(type) /\ name = "__type"   -> "__Type"
       [] qroot /\ type = Base(type) /\ name = "__schema" -> "__Schema"
       [] OTHER                -> NoName

\* sel_set_type: every selection gets its type; a selection that has none is
\* refused, and so is the document.
RECURSIVE SetTypes(_, _, _, _), Typed(_)
SetTypes(tb, type, sels, qroot) ==
  [i \in DOMAIN sels |->
     LET s == sels[i]
         own == IF s.name = NoName THEN type ELSE LookupFieldType(tb, type, s.name, qroot)
         Within(f) == [f EXCEPT !.sels = SetTypes(tb, IF f.on = NoName THEN type ELSE f.on, @, FALSE)]
     IN IF own = NoName THEN s
        ELSE [s EXCEPT !.type = own, !.sels = SetTypes(tb, own, @, FALSE),
                       !.inline = IF @ = None THEN None ELSE Some(Within(@[1]))]]
Typed(sels) ==
  \A i \in DOMAIN sels :
    /\ sels[i].type # NoName /\ Typed(sels[i].sels)
    /\ sels[i].inline # None => Typed(sels[i].inline[1].sels)

\* validate_doc: the document with its types, and whether it is accepted.
OpType(tb, root, op) == LookupFieldType(tb, root, op.kind, FALSE)
WithTypes(tb, root, doc) ==
  [doc EXCEPT
     !.frags = [i \in DOMAIN @ |-> [@[i] EXCEPT !.sels = SetTypes(tb, doc.frags[i].on, @, FALSE)]],
     !.ops = [i \in DOMAIN @ |->
        IF OpType(tb, root, @[i]) = NoName THEN @[i]
        ELSE [@[i] EXCEPT !.sels = SetTypes(tb, OpType(tb, root, doc.ops[i]), @, doc.ops[i].kind = "query")]]]
Valid(tb, root, doc) ==
  /\ \A i \in DOMAIN doc.frags : Typed(doc.frags[i].sels)
  /\ \A i, j \in DOMAIN doc.ops : i < j => doc.ops[i].name # doc.ops[j].name
  /\ \A i \in DOMAIN doc.ops : OpType(tb, root, doc.ops[i]) # NoName /\ Typed(doc.ops[i].sels)

\* sdl_parse_doc
Validated(d, root) ==
  LET doc == WithTypes(d.tb, root, d.got)
  IN IF d.ok /\ Valid(d.tb, root, doc) THEN Got(d, doc) ELSE Fail(d)
ParseDoc(ts, tb, root, vars, defaultKind) == Validated(MakeDoc(Text(ts, tb), EmptyDoc(vars), defaultKind), root)

---------------------------------------------------------------------------
(* Writing a document.                                                        *)
\* sel_sdl: of an inline fragment only the uses of the fragment are written.
SelArgSdl(a) ==
  <<a.name, ":", Blank>> \o (IF a.var # None THEN <<"$", a.var[1].name>> ELSE ValueSdl(a.value[1]))
SelArgsSdl(args) ==
  IF args = <<>> THEN <<>>
  ELSE <<"(">> \o FlattenSeq([i \in DOMAIN args |-> SelArgSdl(args[i]) \o Unless(IsLast(args, i), <<Blank>>)]) \o <<")">>
RECURSIVE SelSdl(_), SelsSdl(_)
SelsSdl(sels) ==
  IF sels = <<>> THEN <<>> ELSE Braced(FlattenSeq([i \in DOMAIN sels |-> SelSdl(sels[i])]) \o <<Blank>>)
SelText(s) ==
  CASE s.frag # NoName -> <<"...", s.frag>> \o UsesSdl(s.dir)
    [] s.inline # None -> LET f == s.inline[1]
                          IN (IF f.on = NoName THEN <<"...">> ELSE <<"...", Blank, "on", Blank, f.on>>)
                             \o UsesSdl(f.dir) \o SelsSdl(f.sels)
    [] OTHER           -> (IF s.alias = NoName THEN <<>> ELSE <<s.alias, ":", Blank>>) \o <<s.name>>
                          \o SelArgsSdl(s.args) \o UsesSdl(s.dir) \o SelsSdl(s.sels)
SelSdl(s) == <<Blank>> \o SelText(s) \o <<Blank>>
TopSelsSdl(sels) == Braced(FlattenSeq([i \in DOMAIN sels |-> SelSdl(sels[i])])) \o <<Blank>>

\* op_sdl
OpVarSdl(tb, var) == <<"$", var.name, ":", Blank>> \o TypeName(tb, var.type) \o DefaultSdl(var.value)
OpVarsSdl(tb, vars) ==
  IF vars = <<>> THEN <<>>
  ELSE <<"(">> \o FlattenSeq([i \in DOMAIN vars |-> OpVarSdl(tb, vars[i]) \o Unless(IsLast(vars, i), <<Blank>>)]) \o <<")">>
OpSdl(tb, op) ==
  <<op.kind>> \o (IF op.name = NoName THEN <<>> ELSE <<Blank, op.name>>)
    \o OpVarsSdl(tb, op.vars) \o UsesSdl(op.dir) \o TopSelsSdl(op.sels)
\* frag_sdl
FragSdl(f) == <<"fragment", Blank, f.name, Blank, "on", Blank, f.on>> \o UsesSdl(f.dir) \o TopSelsSdl(f.sels)
\* gql_doc_sdl
DocSdl(tb, doc) ==
  FlattenSeq([i \in DOMAIN doc.ops |-> OpSdl(tb, doc.ops[i])])
    \o FlattenSeq([i \in DOMAIN doc.frags |-> FragSdl(doc.frags[i])])
=============================================================================
