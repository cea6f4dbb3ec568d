------------------------------- MODULE MCYson -------------------------------
EXTENDS Yson

\* Values of every type: trees with and without attributes, lists of a length that
\* is given and that is not, in and beside each other, options, structs with
\* attributes and variants.
Vec(type)        == Type("vec", <<type>>)
Tuple(types)     == Type("tuple", types)
Option(type)     == Type("option", <<type>>)
MapType(type)    == Type("map", <<type>>)
Wrapper(a, type) == Type("wrapper", <<a, type>>)
Struct(attributes, body, value, fields) ==
  Type("struct", [attributes |-> attributes, body |-> body, value |-> value, fields |-> fields])
Enum == Type("enum", [a |-> Type("unit", <<>>), b |-> Tuple(<<IntType, IntType>>)])
Wraps(a, v)      == [attributes |-> a, value |-> v]
VariantOf(n, v)  == [variant |-> n, value |-> v]
A1 == [a |-> "1"]
MCYsonSources ==
  LET one == Scalar("1")
      S(type, values) == [type |-> type, values |-> values]
  IN  <<S(AnyType, <<one, Entity>>), S(AnyType, <<With([a |-> one], Scalar("a")), ListOf(<<>>)>>),
        S(AnyType, <<ListOf(<<one, ListOf(<<Scalar("b")>>)>>), MapOf([a |-> one, b |-> Entity])>>),
        S(AnyType, <<With([a |-> one], MapOf([b |-> With([b |-> one], Entity)])), MapOf(NoEntries)>>),
        S(AnyType, <<With([a |-> ListOf(<<one>>)], ListOf(<<one>>))>>),
        S(Vec(IntType), <<<<"1", "2">>, <<>>>>),
        S(Tuple(<<Vec(IntType), IntType>>), <<<<<<"1", "2">>, "2">>, <<<<>>, "1">>>>),
        S(Vec(Tuple(<<IntType, IntType>>)), <<<<<<"1", "2">>, <<"2", "1">>>>, <<>>>>),
        S(Tuple(<<Tuple(<<IntType>>), Tuple(<<>>), StrType>>), <<<<<<"1">>, <<>>, "a">>>>),
        S(Vec(Option(IntType)), <<<<<<>>, <<"1">>>>, <<>>>>),
        S(MapType(Vec(IntType)), <<[a |-> <<"1">>, b |-> <<>>], NoEntries>>),
        S(Wrapper(MapType(IntType), Vec(IntType)), <<Wraps(A1, <<"1">>), Wraps(NoEntries, <<>>)>>),
        S(Wrapper(MapType(IntType), Option(MapType(IntType))), <<Wraps(A1, <<A1>>), Wraps(A1, <<>>)>>),
        S(Wrapper(MapType(IntType), Wrapper(MapType(IntType), IntType)), <<Wraps(A1, Wraps([b |-> "2"], "1"))>>),
        S(Tuple(<<Wrapper(MapType(IntType), Tuple(<<IntType>>)), IntType>>), <<<<Wraps(A1, <<"2">>), "1">>>>),
        S(Struct({"a"}, "fields", IntType, {"a", "b"}), <<Wraps(A1, [a |-> "1", b |-> "2"])>>),
        S(Struct({"a", "b"}, "value", Vec(IntType), {}), <<Wraps([a |-> "1", b |-> "2"], <<"1">>)>>),
        S(Struct({"a"}, "value", Option(IntType), {}), <<Wraps(A1, <<>>), Wraps(A1, <<"2">>)>>),
        S(Struct({}, "fields", IntType, {"a"}), <<Wraps(NoEntries, A1), Wraps(NoEntries, A1)>>),
        S(Vec(Struct({"a"}, "none", IntType, {})), <<<<Wraps(A1, <<>>), Wraps(A1, <<>>)>>>>),
        S(Enum, <<VariantOf("a", <<>>), VariantOf("b", <<<<"1", "2">>>>)>>),
        S(Vec(Enum), <<<<VariantOf("b", <<<<"1", "1">>>>), VariantOf("a", <<>>)>>>>)>>

\* A map without entries but with attributes.
MCEmptyMap == <<[type |-> AnyType, values |-> <<With([a |-> Scalar("1")], MapOf(NoEntries))>>]>>

\* Up to three tokens of any kind, alone, in a list, in a map and under attributes.
MCYsonTexts ==
  LET tokens == {"<", ">", "[", "]", "{", "}", "=", ";", "#", "1", "a"}
      Short(n) == UNION {[1..k -> tokens] : k \in 0..n}
  IN  Short(3) \cup {<<"[">> \o s \o <<"]">> : s \in Short(3)}
               \cup {<<"{", "a", "=">> \o s \o <<"}">> : s \in Short(3)}
               \cup {<<"<", "a", "=", "1", ">">> \o s : s \in Short(3)}
               \cup {<<"<", "a", "=">> \o s \o <<">", "1">> : s \in Short(2)}

NoTexts == {}
=============================================================================
