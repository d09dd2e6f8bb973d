------------------------------ MODULE GqlIntro ------------------------------
(* The types and directives that every process has (gqlintro.c,               *)
(* gql_intro_init), and the set up of the root type (agoo.c).                 *)
EXTENDS GqlDoc, TLC

F(name, type, req) == Field(name, type, None, None, req)
ListOf(n) == ListName(n, TRUE)
WithDeprecated(f) == [f EXCEPT !.args = <<Arg("includeDeprecated", "Boolean", None, Some(Bool(FALSE)), FALSE)>>]

Described == <<F("name", "String", TRUE), F("description", "String", FALSE)>>
Deprecation == <<F("isDeprecated", "Boolean", TRUE), F("deprecationReason", "String", FALSE)>>

\* create_schema_type and those after it
SchemaFields ==
  <<F("types", ListOf("__Type"), TRUE), F("queryType", "__Type", TRUE), F("mutationType", "__Type", FALSE),
    F("subscriptionType", "__Type", FALSE), F("directives", ListOf("__Directive"), TRUE)>>
TypeTypeFields ==
  <<F("kind", "__TypeKind", TRUE), F("name", "String", FALSE), F("description", "String", FALSE),
    WithDeprecated(F("fields", ListOf("__Field"), FALSE)),
    F("interfaces", ListOf("__Type"), FALSE), F("possibleTypes", ListOf("__Type"), FALSE),
    WithDeprecated(F("enumValues", ListOf("__EnumValue"), FALSE)),
    F("inputFields", ListOf("__InputValue"), FALSE), F("ofType", "__Type", FALSE)>>
TypeKinds == <<"SCALAR", "OBJECT", "INTERFACE", "UNION", "ENUM", "INPUT_OBJECT", "LIST", "NON_NULL">>
FieldTypeFields == Described \o <<F("args", ListOf("__InputValue"), TRUE), F("type", "__Type", TRUE)>> \o Deprecation
InputTypeFields == Described \o <<F("type", "__Type", TRUE), F("defaultValue", "String", FALSE)>>
EnumTypeFields == Described \o Deprecation
DirectiveTypeFields ==
  Described \o <<F("locations", ListOf("__DirectiveLocation"), TRUE), F("args", ListOf("__InputValue"), TRUE)>>
DirectiveLocations ==
  <<"QUERY", "MUTATION", "SUBSCRIPTION", "FIELD", "FRAGMENT_DEFINITION", "FRAGMENT_SPREAD", "INLINE_FRAGMENT",
    "SCHEMA", "SCALAR", "OBJECT", "FIELD_DEFINITION", "ARGUMENT_DEFINITION", "INTERFACE", "UNION", "ENUM",
    "ENUM_VALUE", "INPUT_OBJECT", "INPUT_FIELD_DEFINITION">>

IntroObjects ==
  "__Schema" :> SchemaFields @@ "__Type" :> TypeTypeFields @@ "__Field" :> FieldTypeFields
  @@ "__InputValue" :> InputTypeFields @@ "__EnumValue" :> EnumTypeFields @@ "__Directive" :> DirectiveTypeFields
IntroEnums == "__TypeKind" :> TypeKinds @@ "__DirectiveLocation" :> DirectiveLocations
ListBases == {"__Type", "__Field", "__EnumValue", "__InputValue", "__Directive", "__DirectiveLocation"}

IntroTypes ==
  [n \in DOMAIN IntroObjects |-> [BlankType("object", None) EXCEPT !.core = TRUE, !.fields = IntroObjects[n]]]
  @@ [n \in DOMAIN IntroEnums |->
       [BlankType("enum", None) EXCEPT !.core = TRUE,
          !.choices = [i \in DOMAIN IntroEnums[n] |-> [value |-> IntroEnums[n][i], desc |-> None, dir |-> <<>>]]]]
  @@ [n \in {ListOf(b) : b \in ListBases} |->
       [BlankType("list", None) EXCEPT !.base = CHOOSE b \in ListBases : ListOf(b) = n, !.notEmpty = TRUE]]

\* create_dir_skip, create_dir_include, create_dir_deprecated
IntroDir(n, locs, arg) == [NewDir(n, None, TRUE) EXCEPT !.core = TRUE, !.locs = locs, !.args = <<arg>>]
SelectionLocs == <<"FIELD", "FRAGMENT_SPREAD", "INLINE_FRAGMENT">>
IfArg == Arg("if", "Boolean", None, None, TRUE)
SkipDir == IntroDir("skip", SelectionLocs, IfArg)
IncludeDir == IntroDir("include", SelectionLocs, IfArg)
DeprecatedDir ==
  IntroDir("deprecated", <<"FIELD_DEFINITION", "ENUM_VALUE">>,
           Arg("reason", "String", None, Some(String("'No longer supported'")), FALSE))

\* gql_init, gql_intro_init
GqlInit == [types |-> IntroTypes @@ InitTable.types, dirs |-> <<SkipDir, IncludeDir, DeprecatedDir>>]

\* agoo_setup_graphql: the texts are read; a schema that none of them has
\* defined gets the types Query and, when there is one, Mutation.
RootType == "schema"
WithRoot(tb) ==
  LET root == TypeField(TypeCreate(tb, "schema", RootType, None), RootType, F("query", "Query", FALSE))
  IN IF HasType(tb, "Mutation") THEN TypeField(root, RootType, F("mutation", "Mutation", FALSE)) ELSE root
Rooted(d) ==
  CASE ~d.ok                   -> d
    [] HasType(d.tb, RootType) -> IF TypeGetField(d.tb, RootType, "query") = <<>> THEN Fail(d) ELSE d
    [] ~HasType(d.tb, "Query") -> Fail(In(d, TypeCreate(d.tb, "schema", RootType, None)))
    [] OTHER                   -> In(d, WithRoot(d.tb))
Setup(ts) == Rooted(SdlParse(ts, GqlInit))
=============================================================================
